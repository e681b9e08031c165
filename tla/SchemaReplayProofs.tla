------------------------- MODULE SchemaReplayProofs -------------------------
(***************************************************************************)
(* What the index promises over any number of names, columns and steps,      *)
(* whatever the scripts have done to it before: only a misread statement     *)
(* makes it lose a relation, and the statements that it supports keep it     *)
(* equal to the database.                                                   *)
(*                                                                          *)
(* The columns of the two need not be the same records, only of the same     *)
(* names one by one (SameNames): each way to build a list of columns, taken   *)
(* to two such lists, yields two such lists.  Where the locations agree, too, *)
(* the lists are equal.                                                     *)
(***************************************************************************)
EXTENDS SchemaReplay, SequenceTheorems, WellFoundedInduction, TLAPS

(* Numbers.  Induction comes from their well-founded order, that is, a set of *)
(* numbers has a least; what holds of all numbers is stated as a set.         *)
LEMMA LeastNumber ==
  ASSUME NEW S, S \subseteq Nat, S # {}
  PROVE  \E m \in S : \A k \in S : m <= k
<1>1. PICK m \in S : \A k \in S : <<k, m>> \notin OpToRel(<, Nat)
  BY WFMin, NatLessThanWellFounded
<1>2. \A k \in S : ~(k < m)
  BY <1>1 DEF OpToRel
<1> QED
  BY <1>2

LEMMA MinIsLeast ==
  ASSUME NEW S, S \subseteq Nat, S # {}
  PROVE  Min(S) \in S /\ \A k \in S : Min(S) <= k
BY LeastNumber DEF Min

(* A set that has 0 and the successor of each of its numbers has them all.    *)
LEMMA CountUp ==
  ASSUME NEW S, 0 \in S, \A n \in Nat : n \in S => n + 1 \in S
  PROVE  \A n \in Nat : n \in S
<1> DEFINE T == Nat \ S
<1> SUFFICES T = {}
  OBVIOUS
<1>1. SUFFICES ASSUME T # {} PROVE FALSE
  OBVIOUS
<1>2. PICK m \in T : \A k \in T : m <= k
  BY <1>1, LeastNumber
<1>3. m # 0 /\ m - 1 \in Nat /\ m - 1 \in S
  BY <1>2
<1> QED
  BY <1>3
-----------------------------------------------------------------------------
(* What the two changes of a map do to the set of its names.                 *)
LEMMA PutDomain ==
    ASSUME NEW map, NEW n, NEW r
    PROVE  DOMAIN Put(map, n, r) = DOMAIN map \cup {n}
BY DEF Put

LEMMA WithoutDomain ==
    ASSUME NEW map, NEW removed
    PROVE  DOMAIN Without(map, removed) = DOMAIN map \ removed
BY DEF Without, Restrict

(* A created relation is known afterwards, whether it was before or not, and  *)
(* no other is forgotten.                                                   *)
LEMMA CreateKnows ==
    ASSUME NEW n, NEW kind, NEW columns, NEW ifNotExists,
           ApplyCreate(n, kind, columns, ifNotExists)
    PROVE  DOMAIN tables' = DOMAIN tables \cup {n}
<1>1. CASE ifNotExists /\ n \in DOMAIN tables
  BY <1>1 DEF ApplyCreate
<1>2. CASE ~(ifNotExists /\ n \in DOMAIN tables)
  BY <1>2, PutDomain DEF ApplyCreate, InsertTable
<1> QED
  BY <1>1, <1>2

(* A renamed relation that was known is known by its new name.               *)
LEMMA RenameKnows ==
    ASSUME NEW n, NEW m, n \in DOMAIN tables, ApplyRename(n, m)
    PROVE  DOMAIN tables' = (DOMAIN tables \ {n}) \cup {m}
<1> DEFINE others == Without(tables, {n})
           renamed == [tables[n] EXCEPT !.at = step']
<1>1. tables' = Put(others, m, renamed)
  BY DEF ApplyRename
<1>2. DOMAIN others = DOMAIN tables \ {n}
  BY WithoutDomain
<1> HIDE DEF others, renamed
<1>3. DOMAIN Put(others, m, renamed) = DOMAIN others \cup {m}
  BY PutDomain
<1> QED
  BY <1>1, <1>2, <1>3

LEMMA RenamedDomain ==
    ASSUME NEW n, NEW m, RenamedRelation(n, m)
    PROVE  DOMAIN database' = (DOMAIN database \ {n}) \cup {m}
<1> DEFINE follow(r) == IF n \in r.uses
                        THEN [r EXCEPT !.uses = (@ \ {n}) \cup {m}] ELSE r
           others == Without(database, {n})
           followed == [v \in DOMAIN others |-> follow(others[v])]
           renamed == [database[n] EXCEPT !.at = step']
<1>1. database' = Put(followed, m, renamed)
  BY DEF RenamedRelation
<1>2. DOMAIN followed = DOMAIN database \ {n}
  <2> HIDE DEF follow
  <2> QED
    BY WithoutDomain
<1> HIDE DEF followed, renamed
<1>3. DOMAIN Put(followed, m, renamed) = DOMAIN followed \cup {m}
  BY PutDomain
<1> QED
  BY <1>1, <1>2, <1>3

(* A statement that is not misread leaves, at the worst, too much in the      *)
(* index (ddl.rs, apply_statement).                                         *)
LosesNone == \/ Unknown' \subseteq Unknown
             \/ \E n \in Unknown, m \in Names : AlterRename(n, m)

LEMMA StatementLosesNone ==
    ASSUME SupportedStatement \/ LeavingStatement
    PROVE  LosesNone
<1> SUFFICES ASSUME \A n \in Unknown, m \in Names : ~AlterRename(n, m)
             PROVE  Unknown' \subseteq Unknown
  BY DEF LosesNone
<1> USE DEF Unknown
<1>1. ASSUME NEW n, NEW columns, NEW ifNotExists,
             CreateTable(n, columns, ifNotExists)
      PROVE  Unknown' \subseteq Unknown
  <2>1. CASE Exists(n)
    <3>1. database' = database
      BY <1>1, <2>1 DEF CreateTable
    <3> QED
      BY <1>1, <3>1, CreateKnows DEF CreateTable
  <2>2. CASE ~Exists(n)
    <3>1. DOMAIN database' = DOMAIN database \cup {n}
      BY <1>1, <2>2, PutDomain DEF CreateTable, Store
    <3> QED
      BY <1>1, <3>1, CreateKnows DEF CreateTable
  <2> QED
    BY <2>1, <2>2
<1>2. ASSUME NEW n, NEW kind, NEW from, CreateAsWildcard(n, kind, from)
      PROVE  Unknown' \subseteq Unknown
  <2>1. DOMAIN database' = DOMAIN database \cup {n}
    BY <1>2, PutDomain DEF CreateAsWildcard, Store
  <2> QED
    BY <1>2, <2>1, CreateKnows, ZenonT(30) DEF CreateAsWildcard
<1>3. ASSUME NEW n, NEW kind, NEW from, NEW m, NEW c,
             CreateAsColumn(n, kind, from, m, c)
      PROVE  Unknown' \subseteq Unknown
  <2>1. DOMAIN database' = DOMAIN database \cup {n}
    BY <1>3, PutDomain DEF CreateAsColumn, Store
  <2> QED
    BY <1>3, <2>1, CreateKnows DEF CreateAsColumn
<1>4. ASSUME NEW n, NEW columns, NEW m,
             \/ CreateView(n, columns, m) \/ ReplaceView(n, columns, m)
             \/ ReplaceTable(n, columns)
      PROVE  Unknown' \subseteq Unknown
  <2>1. DOMAIN database' = DOMAIN database \cup {n}
    BY <1>4, PutDomain DEF CreateView, ReplaceView, ReplaceTable, Store
  <2> QED
    BY <1>4, <2>1, CreateKnows DEF CreateView, ReplaceView, ReplaceTable
<1>5. ASSUME NEW n, Drop(n)
      PROVE  Unknown' \subseteq Unknown
  <2>1. DOMAIN database' = DOMAIN database \ {n}
    BY <1>5, WithoutDomain DEF Drop
  <2>2. DOMAIN tables' = DOMAIN tables \ {n}
    BY <1>5, WithoutDomain DEF Drop, ApplyDrop
  <2> QED
    BY <2>1, <2>2
<1>6. ASSUME NEW n, DropMaterialized(n)
      PROVE  Unknown' \subseteq Unknown
  <2>1. DOMAIN database' = DOMAIN database \ {n}
    BY <1>6, WithoutDomain DEF DropMaterialized
  <2>2. tables' = tables
    BY <1>6 DEF DropMaterialized, Ignore
  <2> QED
    BY <2>1, <2>2
<1>7. ASSUME NEW n, DropCascade(n)
      PROVE  Unknown' \subseteq Unknown
  <2>1. DOMAIN database' = DOMAIN database \ Dependents(n)
    BY <1>7, WithoutDomain DEF DropCascade
  <2>2. DOMAIN tables' = DOMAIN tables \ {n}
    BY <1>7, WithoutDomain DEF DropCascade, ApplyDrop
  <2>3. n \in Dependents(n)
    BY <1>7 DEF DropCascade, Exists, Dependents
  <2> QED
    BY <2>1, <2>2, <2>3
<1>8. ASSUME NEW n, NEW c, NEW ifNotExists, AlterAddColumn(n, c, ifNotExists)
      PROVE  Unknown' \subseteq Unknown
  <2>1. DOMAIN database' = DOMAIN database
    BY <1>8 DEF AlterAddColumn
  <2>2. DOMAIN tables' = DOMAIN tables
    BY <1>8 DEF AlterAddColumn, ApplyAlter
  <2> QED
    BY <2>1, <2>2
<1>9. ASSUME NEW n, NEW c, AlterDropColumn(n, c)
      PROVE  Unknown' \subseteq Unknown
  <2>1. DOMAIN database' = DOMAIN database
    BY <1>9 DEF AlterDropColumn
  <2>2. DOMAIN tables' = DOMAIN tables
    BY <1>9 DEF AlterDropColumn, ApplyAlter
  <2> QED
    BY <2>1, <2>2
<1>10. ASSUME NEW n, NEW old, NEW new,
              AlterRenameColumn(n, old, new) \/ AlterChangeColumn(n, old, new)
       PROVE  Unknown' \subseteq Unknown
  <2>1. DOMAIN database' = DOMAIN database
    BY <1>10 DEF AlterRenameColumn, AlterChangeColumn, RenamedColumn
  <2>2. DOMAIN tables' = DOMAIN tables
    BY <1>10 DEF AlterRenameColumn, AlterChangeColumn, ApplyAlter
  <2> QED
    BY <2>1, <2>2
<1>11. ASSUME NEW n \in Names, NEW m \in Names, AlterRename(n, m)
       PROVE  Unknown' \subseteq Unknown
  <2>1. n \in DOMAIN tables
    BY <1>11 DEF AlterRename, RenamedRelation, Exists
  <2>2. DOMAIN tables' = (DOMAIN tables \ {n}) \cup {m}
    <3>1. ApplyRename(n, m)
      BY <1>11 DEF AlterRename
    <3> QED
      BY <2>1, <3>1, RenameKnows
  <2>3. DOMAIN database' = (DOMAIN database \ {n}) \cup {m}
    BY <1>11, RenamedDomain DEF AlterRename
  <2> QED
    BY <2>2, <2>3
<1> QED
  BY <1>1, <1>2, <1>3, <1>4, <1>5, <1>6, <1>7, <1>8, <1>9, <1>10, <1>11
  DEF SupportedStatement, LeavingStatement

(* Whatever is in the scripts and in the index, only a misread statement makes *)
(* it lose a relation that exists: those that are applied in part, and those   *)
(* that are applied to an index that does not match, do not.                  *)
THEOREM RelationsAreNeverLost == Spec => RelationsAreNotLost
<1>1. [Next]_vars =>
        [\/ Unknown' \subseteq Unknown
         \/ ~SupportedStatement /\ ~LeavingStatement
         \/ \E n \in Unknown, m \in Names : AlterRename(n, m)]_vars
  BY StatementLosesNone DEF LosesNone
<1> QED
  BY <1>1, PTL DEF Spec, RelationsAreNotLost

(* Scripts without such statements leave every relation that exists known, so  *)
(* that no query of one is reported as an unknown table.                      *)
THEOREM ExistingRelationsAreKnown ==
  ASSUME Statements \cap Misread = {}
  PROVE  Spec => []ExistingAreKnown
<1>1. Init => ExistingAreKnown
  BY DEF Init, ExistingAreKnown, Unknown
<1>2. ~MisreadStatement
  BY DEF MisreadStatement, CreateIgnored, RenameIgnored, Other, Statement, Misread
<1>3. ExistingAreKnown /\ [Next]_vars => ExistingAreKnown'
  BY <1>2, StatementLosesNone DEF LosesNone, ExistingAreKnown, Unknown, Next, vars
<1> QED
  BY <1>1, <1>3, PTL DEF Spec
-----------------------------------------------------------------------------
(* Sequences of columns.                                                    *)
SameNames(s, t) ==
  /\ Len(s) = Len(t)
  /\ \A i \in 1..Len(s) : s[i].name = t[i].name

(* Two relations have the names of their columns in common just if these are  *)
(* the same one by one.                                                     *)
LEMMA NamesOneByOne ==
  ASSUME NEW q, NEW r, q.columns \in Seq(Columns), r.columns \in Seq(Columns)
  PROVE  ColumnNamesOf(q) = ColumnNamesOf(r) <=> SameNames(q.columns, r.columns)
<1> DEFINE s == q.columns
           t == r.columns
<1>1. /\ DOMAIN s = 1..Len(s) /\ DOMAIN t = 1..Len(t)
      /\ Len(s) \in Nat /\ Len(t) \in Nat
  OBVIOUS
<1>2. /\ ColumnNamesOf(q) = [i \in 1..Len(s) |-> s[i].name]
      /\ ColumnNamesOf(r) = [i \in 1..Len(t) |-> t[i].name]
  BY <1>1 DEF ColumnNamesOf
<1>3. 1..Len(s) = 1..Len(t) => Len(s) = Len(t)
  BY <1>1
<1> HIDE DEF s, t
<1>4. ASSUME ColumnNamesOf(q) = ColumnNamesOf(r) PROVE SameNames(s, t)
  <2>1. DOMAIN ColumnNamesOf(q) = 1..Len(s) /\ DOMAIN ColumnNamesOf(r) = 1..Len(t)
    BY <1>2
  <2>2. Len(s) = Len(t)
    BY <1>3, <1>4, <2>1
  <2>3. \A i \in 1..Len(s) : ColumnNamesOf(q)[i] = s[i].name
                             /\ ColumnNamesOf(r)[i] = t[i].name
    BY <1>2, <2>2
  <2> QED
    BY <1>4, <2>2, <2>3 DEF SameNames
<1>5. ASSUME SameNames(s, t) PROVE ColumnNamesOf(q) = ColumnNamesOf(r)
  BY <1>2, <1>5 DEF SameNames
<1> QED
  BY <1>4, <1>5 DEF s, t

(* The recursion of Retained.                                                *)
LEMMA RetainedSteps ==
  ASSUME NEW S, NEW s \in Seq(S), NEW c
  PROVE  \E f : /\ Retained(s, c) = f[Len(s)]
                /\ f[0] = <<>>
                /\ \A i \in 1..Len(s) :
                     f[i] = IF s[i].name = c THEN f[i - 1]
                            ELSE Append(f[i - 1], s[i])
<1> DEFINE Step(f, i) == IF i = 0 THEN <<>>
                         ELSE IF s[i].name = c THEN f[i - 1]
                         ELSE Append(f[i - 1], s[i])
           retained == CHOOSE f : f = [i \in 0..Len(s) |-> Step(f, i)]
<1>1. Len(s) \in Nat
  OBVIOUS
<1>2. Retained(s, c) = retained[Len(s)]
  BY DEF Retained
<1>3. retained = [i \in 0..Len(s) |-> Step(retained, i)]
  <2> DEFINE N == {n \in Nat : \E f : f = [i \in 0..n |-> Step(f, i)]}
  <2>1. 0 \in N
    <3>1. [i \in 0..0 |-> <<>>] = [i \in 0..0 |-> Step([j \in 0..0 |-> <<>>], i)]
      OBVIOUS
    <3> QED
      BY <3>1
  <2>2. ASSUME NEW n \in Nat, n \in N PROVE n + 1 \in N
    <3>1. PICK f : f = [i \in 0..n |-> Step(f, i)]
      BY <2>2
    <3>2. \A i \in 0..n : f[i] = Step(f, i)
      <4> HIDE DEF Step
      <4> QED
        BY <3>1
    <3> DEFINE g == [i \in 0..(n + 1) |-> IF i = n + 1 THEN Step(f, i) ELSE f[i]]
    <3>3. \A i \in 0..(n + 1) : g[i] = Step(g, i)
      <4> TAKE i \in 0..(n + 1)
      <4>1. CASE i = 0
        BY <3>1, <4>1
      <4>2. CASE i # 0
        <5>1. i - 1 \in 0..n /\ g[i - 1] = f[i - 1]
          BY <4>2
        <5>2. Step(g, i) = Step(f, i)
          BY <5>1
        <5>3. i # n + 1 => f[i] = Step(f, i)
          BY <3>2
        <5> QED
          BY <5>2, <5>3
      <4> QED
        BY <4>1, <4>2
    <3>4. g = [i \in 0..(n + 1) |-> Step(g, i)]
      BY <3>3
    <3> HIDE DEF g
    <3> QED
      BY <3>4
  <2> HIDE DEF N
  <2>3. Len(s) \in N
    BY <1>1, <2>1, <2>2, CountUp
  <2> QED
    BY <2>3 DEF N
<1> HIDE DEF retained, Step
<1>4. \A i \in 0..Len(s) : retained[i] = Step(retained, i)
  BY <1>3
<1>5. \A i \in 1..Len(s) : retained[i] = Step(retained, i)
  BY <1>1, <1>4
<1>6. retained[0] = Step(retained, 0)
  BY <1>1, <1>4
<1>7. \A i \in 1..Len(s) :
        retained[i] = IF s[i].name = c THEN retained[i - 1]
                      ELSE Append(retained[i - 1], s[i])
  BY <1>1, <1>5 DEF Step
<1>8. retained[0] = <<>>
  BY <1>6 DEF Step
<1> QED
  BY <1>2, <1>7, <1>8

(* What is retained are columns of the sequence, each once.                   *)
LEMMA RetainedIsPart ==
  ASSUME NEW s \in Seq(Columns), NEW c
  PROVE  /\ Retained(s, c) \in Seq(Columns)
         /\ Len(Retained(s, c)) <= Len(s)
         /\ Distinct(s) => Distinct(Retained(s, c))
<1>1. PICK f : /\ Retained(s, c) = f[Len(s)]
               /\ f[0] = <<>>
               /\ \A i \in 1..Len(s) :
                    f[i] = IF s[i].name = c THEN f[i - 1]
                           ELSE Append(f[i - 1], s[i])
  BY RetainedSteps
<1>2. Len(s) \in Nat /\ DOMAIN s = 1..Len(s)
  OBVIOUS
<1> DEFINE Part(n) ==
      /\ f[n] \in Seq(Columns)
      /\ Len(f[n]) <= n
      /\ \A i \in 1..Len(f[n]) : \E j \in 1..n : f[n][i] = s[j]
      /\ Distinct(s) => \A i, j \in 1..Len(f[n]) : f[n][i].name = f[n][j].name => i = j
    N == {n \in Nat : n <= Len(s) => Part(n)}
<1>3. 0 \in N
  <2>1. <<>> \in Seq(Columns) /\ Len(<<>>) = 0 /\ 1..0 = {}
    OBVIOUS
  <2>2. Part(0)
    BY <1>1, <2>1
  <2> QED
    BY <2>2
<1>4. ASSUME NEW n \in Nat, n \in N PROVE n + 1 \in N
  <2> SUFFICES ASSUME n + 1 <= Len(s) PROVE Part(n + 1)
    OBVIOUS
  <2>1. Part(n) /\ n + 1 \in 1..Len(s)
    BY <1>2, <1>4
  <2>2. f[n + 1] = IF s[n + 1].name = c THEN f[n] ELSE Append(f[n], s[n + 1])
    <3>1. (n + 1) - 1 = n
      OBVIOUS
    <3> QED
      BY <1>1, <2>1, <3>1
  <2>3. s[n + 1] \in Columns
    BY <2>1
  <2>4. CASE s[n + 1].name = c
    BY <2>1, <2>2, <2>4
  <2>5. CASE s[n + 1].name # c
    <3> DEFINE t == f[n]
               u == Append(t, s[n + 1])
    <3>1. /\ u \in Seq(Columns) /\ Len(u) = Len(t) + 1
          /\ \A i \in 1..Len(t) : u[i] = t[i]
          /\ u[Len(t) + 1] = s[n + 1]
      BY <2>1, <2>3, AppendProperties
    <3>2. Len(t) \in Nat
      BY <2>1
    <3>3. \A i \in 1..Len(u) : \E j \in 1..(n + 1) : u[i] = s[j]
      <4> TAKE i \in 1..Len(u)
      <4>1. CASE i = Len(t) + 1
        BY <3>1, <4>1
      <4>2. CASE i \in 1..Len(t)
        BY <2>1, <3>1, <4>2
      <4> QED
        BY <3>1, <3>2, <4>1, <4>2
    <3>4. ASSUME Distinct(s), NEW i \in 1..Len(u), NEW j \in 1..Len(u),
                 u[i].name = u[j].name
          PROVE  i = j
      <4>1. \A k \in 1..Len(t) : u[k].name # s[n + 1].name
        <5> TAKE k \in 1..Len(t)
        <5>1. PICK l \in 1..n : t[k] = s[l]
          BY <2>1
        <5>2. l # n + 1 /\ l \in DOMAIN s /\ n + 1 \in DOMAIN s
          BY <1>2, <2>1
        <5> QED
          BY <3>1, <3>4, <5>1, <5>2 DEF Distinct
      <4>2. CASE i = Len(t) + 1 \/ j = Len(t) + 1
        BY <3>1, <3>2, <3>4, <4>1, <4>2
      <4>3. CASE i \in 1..Len(t) /\ j \in 1..Len(t)
        BY <2>1, <3>1, <3>4, <4>3
      <4> QED
        BY <3>1, <3>2, <4>2, <4>3
    <3>5. f[n + 1] = u /\ Len(u) <= n + 1
      BY <2>1, <2>2, <2>5, <3>1, <3>2
    <3> HIDE DEF u, t
    <3> QED
      BY <3>1, <3>3, <3>4, <3>5
  <2> QED
    BY <2>4, <2>5
<1> HIDE DEF N
<1>5. \A n \in Nat : n \in N
  BY <1>3, <1>4, CountUp
<1>6. Part(Len(s))
  BY <1>2, <1>5 DEF N
<1>7. DOMAIN Retained(s, c) = 1..Len(Retained(s, c))
  BY <1>1, <1>6
<1> QED
  BY <1>1, <1>6, <1>7 DEF Distinct

(* Sequences of the same names retain the same names.                         *)
LEMMA RetainedSame ==
  ASSUME NEW s \in Seq(Columns), NEW t \in Seq(Columns), NEW c, SameNames(s, t)
  PROVE  SameNames(Retained(s, c), Retained(t, c))
<1>1. PICK f : /\ Retained(s, c) = f[Len(s)]
               /\ f[0] = <<>>
               /\ \A i \in 1..Len(s) :
                    f[i] = IF s[i].name = c THEN f[i - 1]
                           ELSE Append(f[i - 1], s[i])
  BY RetainedSteps
<1>2. PICK g : /\ Retained(t, c) = g[Len(t)]
               /\ g[0] = <<>>
               /\ \A i \in 1..Len(t) :
                    g[i] = IF t[i].name = c THEN g[i - 1]
                           ELSE Append(g[i - 1], t[i])
  BY RetainedSteps
<1>3. Len(s) \in Nat /\ Len(t) = Len(s) /\ \A i \in 1..Len(s) : s[i].name = t[i].name
  BY DEF SameNames
<1> DEFINE Same(n) == /\ f[n] \in Seq(Columns) /\ g[n] \in Seq(Columns)
                      /\ Len(f[n]) = Len(g[n])
                      /\ \A i \in 1..Len(f[n]) : f[n][i].name = g[n][i].name
           N == {n \in Nat : n <= Len(s) => Same(n)}
<1>4. 0 \in N
  <2>1. <<>> \in Seq(Columns) /\ Len(<<>>) = 0 /\ 1..0 = {}
    OBVIOUS
  <2>2. Same(0)
    BY <1>1, <1>2, <2>1
  <2> QED
    BY <2>2
<1>5. ASSUME NEW n \in Nat, n \in N PROVE n + 1 \in N
  <2> SUFFICES ASSUME n + 1 <= Len(s) PROVE Same(n + 1)
    OBVIOUS
  <2>1. Same(n) /\ n + 1 \in 1..Len(s) /\ (n + 1) - 1 = n
    BY <1>3, <1>5
  <2>2. /\ f[n + 1] = IF s[n + 1].name = c THEN f[n] ELSE Append(f[n], s[n + 1])
        /\ g[n + 1] = IF t[n + 1].name = c THEN g[n] ELSE Append(g[n], t[n + 1])
    BY <1>1, <1>2, <1>3, <2>1
  <2>3. s[n + 1] \in Columns /\ t[n + 1] \in Columns
        /\ s[n + 1].name = t[n + 1].name
    BY <1>3, <2>1
  <2>4. CASE s[n + 1].name = c
    BY <2>1, <2>2, <2>3, <2>4
  <2>5. CASE s[n + 1].name # c
    <3> DEFINE a == f[n]
               b == g[n]
               u == Append(a, s[n + 1])
               v == Append(b, t[n + 1])
    <3>0. a \in Seq(Columns) /\ b \in Seq(Columns)
      BY <2>1
    <3>1. /\ u \in Seq(Columns) /\ Len(u) = Len(a) + 1
          /\ \A i \in 1..Len(a) : u[i] = a[i]
          /\ u[Len(a) + 1] = s[n + 1]
      <4> HIDE DEF a
      <4> QED
        BY <2>3, <3>0, AppendProperties
    <3>2. /\ v \in Seq(Columns) /\ Len(v) = Len(b) + 1
          /\ \A i \in 1..Len(b) : v[i] = b[i]
          /\ v[Len(b) + 1] = t[n + 1]
      BY <2>1, <2>3, AppendProperties
    <3>3. Len(a) \in Nat /\ Len(b) = Len(a)
      BY <2>1
    <3>4. \A i \in 1..Len(u) : u[i].name = v[i].name
      <4> TAKE i \in 1..Len(u)
      <4>1. CASE i = Len(a) + 1
        BY <2>3, <3>1, <3>2, <3>3, <4>1
      <4>2. CASE i \in 1..Len(a)
        BY <2>1, <3>1, <3>2, <3>3, <4>2
      <4> QED
        BY <3>1, <3>3, <4>1, <4>2
    <3>5. f[n + 1] = u /\ g[n + 1] = v
      BY <2>2, <2>3, <2>5
    <3> HIDE DEF u, v, a, b
    <3> QED
      BY <3>1, <3>2, <3>3, <3>4, <3>5
  <2> QED
    BY <2>4, <2>5
<1> HIDE DEF N
<1>6. \A n \in Nat : n \in N
  BY <1>4, <1>5, CountUp
<1>7. Same(Len(s))
  BY <1>3, <1>6 DEF N
<1> QED
  BY <1>1, <1>2, <1>3, <1>7 DEF SameNames
-----------------------------------------------------------------------------
(* Types.                                                                   *)

TablesType ==
    /\ DOMAIN tables \subseteq Names
    /\ \A n \in DOMAIN tables : tables[n] \in TableRecords

DatabaseType ==
    /\ DOMAIN database \subseteq Names
    /\ \A n \in DOMAIN database :
         /\ database[n] \in Relations
         /\ Len(database[n].columns) <= MaxColumns
         /\ Distinct(database[n].columns)
         /\ database[n].uses \subseteq DOMAIN database \ {n}
         /\ database[n].kind = "table" => database[n].uses = {}

LEMMA ReplayParts ==
  ReplayInv <=> step \in 0..MaxSteps /\ TablesType /\ DatabaseType
BY DEF ReplayInv, TypeOK, ColumnsAreDistinct, TablesType, DatabaseType

LEMMA PartsNext ==
  step' \in 0..MaxSteps /\ TablesType' /\ DatabaseType' => ReplayInv'
BY DEF ReplayInv, TypeOK, ColumnsAreDistinct, TablesType, DatabaseType, Distinct

(* The two changes of a map, name by name.                                   *)
LEMMA PutFacts ==
  ASSUME NEW map, NEW n, NEW r
  PROVE  /\ DOMAIN Put(map, n, r) = DOMAIN map \cup {n}
         /\ \A m \in DOMAIN map \cup {n} :
               Put(map, n, r)[m] = IF m = n THEN r ELSE map[m]
BY DEF Put

LEMMA WithoutFacts ==
  ASSUME NEW map, NEW removed
  PROVE  /\ DOMAIN Without(map, removed) = DOMAIN map \ removed
         /\ \A m \in DOMAIN map \ removed : Without(map, removed)[m] = map[m]
BY DEF Without, Restrict

(* The statement being applied is one more.                                  *)
LEMMA NextStep ==
  ASSUME ReplayInv, NEW kind, Statement(kind)
  PROVE  step' \in 1..MaxSteps /\ step' \in 0..MaxSteps
BY ReplayAssumption DEF ReplayInv, TypeOK, Statement

(* The columns of a column list, as they are defined.                        *)
LEMMA NamedFacts ==
  ASSUME NEW columns \in ColumnLists, step' \in 1..MaxSteps
  PROVE  /\ Named(columns) \in Seq(Columns)
         /\ Len(Named(columns)) <= MaxColumns
         /\ Distinct(Named(columns))
<1>1. PICK k \in 1..MaxColumns : columns \in [1..k -> ColumnNames]
  BY DEF ColumnLists
<1>2. \A i, j \in 1..k : columns[i] = columns[j] => i = j
  BY <1>1 DEF ColumnLists
<1> DEFINE named == [i \in 1..k |-> [name |-> columns[i], at |-> step']]
<1>3. Named(columns) = named
  BY <1>1 DEF Named
<1>4. k \in Nat /\ k <= MaxColumns
  BY <1>1, ReplayAssumption
<1>5. \A i \in 1..k : [name |-> columns[i], at |-> step'] \in Columns
  BY <1>1, ReplayAssumption DEF Columns
<1>6. named \in Seq(Columns)
  BY <1>4, <1>5
<1>7. Len(named) = k
  BY <1>4, <1>6
<1>8. Distinct(named)
  BY <1>2 DEF Distinct
<1> QED
  BY <1>3, <1>4, <1>6, <1>7, <1>8

(* The FROM clauses of the scripts name one relation or two.                  *)
LEMMA FromFacts ==
  ASSUME NEW from \in FromClauses
  PROVE  /\ from \in Seq(Names)
         /\ \/ Len(from) = 1 /\ DOMAIN from = 1..1
            \/ Len(from) = 2 /\ DOMAIN from = 1..2
<1>1. CASE from \in {<<n>> : n \in Names}
  <2>1. PICK n \in Names : from = <<n>>
    BY <1>1
  <2> QED
    BY <2>1
<1>2. CASE from \in {s \in [1..2 -> Names] : s[1] # s[2]}
  <2>1. from \in [1..2 -> Names]
    BY <1>2
  <2>2. from \in Seq(Names)
    <3>1. \A i \in 1..2 : from[i] \in Names
      BY <2>1
    <3>2. [i \in 1..2 |-> from[i]] \in Seq(Names)
      BY <3>1
    <3> QED
      BY <2>1, <3>2
  <2>3. DOMAIN from = 1..2 /\ Len(from) = 2
    BY <2>1, <2>2
  <2> QED
    BY <2>2, <2>3
<1> QED
  BY <1>1, <1>2 DEF FromClauses

(* The recursion of FlattenSeq, for so many.                                  *)
LEMMA FlattenOne ==
  ASSUME NEW seqs, Len(seqs) = 1
  PROVE  FlattenSeq(seqs) = seqs[1]
<1> DEFINE Step(f, i) == IF i = 1 THEN seqs[i] ELSE f[i - 1] \o seqs[i]
           flatten == CHOOSE f : f = [i \in 1..Len(seqs) |-> Step(f, i)]
<1>1. FlattenSeq(seqs) = flatten[Len(seqs)]
  BY DEF FlattenSeq
<1>2. [i \in 1..1 |-> seqs[1]] = [i \in 1..1 |-> Step([j \in 1..1 |-> seqs[1]], i)]
  OBVIOUS
<1>3. \E f : f = [i \in 1..Len(seqs) |-> Step(f, i)]
  BY <1>2
<1>4. flatten = [i \in 1..Len(seqs) |-> Step(flatten, i)]
  <2> HIDE DEF Step
  <2> QED
    BY <1>3
<1> HIDE DEF flatten
<1>5. flatten[1] = seqs[1]
  BY <1>4
<1> QED
  BY <1>1, <1>5

LEMMA FlattenTwo ==
  ASSUME NEW seqs, Len(seqs) = 2
  PROVE  FlattenSeq(seqs) = seqs[1] \o seqs[2]
<1> DEFINE Step(f, i) == IF i = 1 THEN seqs[i] ELSE f[i - 1] \o seqs[i]
           flatten == CHOOSE f : f = [i \in 1..Len(seqs) |-> Step(f, i)]
           two == [i \in 1..2 |-> IF i = 1 THEN seqs[1] ELSE seqs[1] \o seqs[2]]
<1>1. FlattenSeq(seqs) = flatten[Len(seqs)]
  BY DEF FlattenSeq
<1>2. two = [i \in 1..2 |-> Step(two, i)]
  <2>1. \A i \in 1..2 : two[i] = Step(two, i)
    <3>1. two[1] = Step(two, 1)
      OBVIOUS
    <3>2. two[2] = Step(two, 2)
      OBVIOUS
    <3>3. 1..2 = {1, 2}
      OBVIOUS
    <3> HIDE DEF two, Step
    <3> QED
      BY <3>1, <3>2, <3>3
  <2> QED
    BY <2>1
<1>3. \E f : f = [i \in 1..Len(seqs) |-> Step(f, i)]
  <2> HIDE DEF two, Step
  <2> QED
    BY <1>2
<1>4. flatten = [i \in 1..Len(seqs) |-> Step(flatten, i)]
  <2> HIDE DEF Step
  <2> QED
    BY <1>3
<1> HIDE DEF flatten
<1>5. flatten[1] = seqs[1]
  BY <1>4
<1>6. flatten[2] = flatten[2 - 1] \o seqs[2]
  BY <1>4
<1>7. flatten[2] = flatten[1] \o seqs[2]
  BY <1>6
<1> QED
  BY <1>1, <1>5, <1>7

(* A column that there is, is found, and it is the first of its name.         *)
LEMMA ColumnNamedFacts ==
  ASSUME NEW r, r.columns \in Seq(Columns), NEW c, HasColumn(r, c)
  PROVE  /\ Position(r, c) \in 1..Len(r.columns)
         /\ \A i \in 1..Len(r.columns) : r.columns[i].name = c => Position(r, c) <= i
         /\ ColumnNamed(r, c) = r.columns[Position(r, c)]
         /\ ColumnNamed(r, c) \in Columns
         /\ ColumnNamed(r, c).name = c
<1> DEFINE I == {i \in DOMAIN r.columns : r.columns[i].name = c}
<1>1. DOMAIN r.columns = 1..Len(r.columns) /\ Len(r.columns) \in Nat
  OBVIOUS
<1>2. I \subseteq Nat /\ I # {}
  BY <1>1 DEF HasColumn, ColumnSet
<1>3. Min(I) \in I /\ \A i \in I : Min(I) <= i
  <2> HIDE DEF I
  <2> QED
    BY <1>2, MinIsLeast
<1>4. Position(r, c) = Min(I)
  BY DEF Position
<1>5. Position(r, c) \in 1..Len(r.columns) /\ r.columns[Position(r, c)].name = c
  BY <1>1, <1>3, <1>4
<1>6. \A i \in 1..Len(r.columns) : r.columns[i].name = c => Position(r, c) <= i
  BY <1>1, <1>3, <1>4
<1>7. r.columns[Position(r, c)] \in Columns
  BY <1>5
<1> QED
  BY <1>5, <1>6, <1>7 DEF ColumnNamed

(* The columns of the relations of a FROM clause, one relation or two.        *)
LEMMA FlattenFrom ==
  ASSUME NEW from \in FromClauses, NEW seqs \in [DOMAIN from -> Seq(Columns)]
  PROVE  /\ FlattenSeq(seqs) \in Seq(Columns)
         /\ \/ DOMAIN from = 1..1 /\ FlattenSeq(seqs) = seqs[1]
            \/ DOMAIN from = 1..2 /\ FlattenSeq(seqs) = seqs[1] \o seqs[2]
<1>1. CASE DOMAIN from = 1..1
  <2>1. \A i \in 1..1 : seqs[i] \in Seq(Columns)
    BY <1>1
  <2>2. [i \in 1..1 |-> seqs[i]] \in Seq(Seq(Columns))
    BY <2>1
  <2>3. seqs = [i \in 1..1 |-> seqs[i]]
    BY <1>1
  <2>4. seqs \in Seq(Seq(Columns)) /\ DOMAIN seqs = 1..1
    BY <2>2, <2>3
  <2>5. Len(seqs) = 1
    BY <2>4
  <2>6. FlattenSeq(seqs) = seqs[1]
    BY <2>5, FlattenOne
  <2> QED
    BY <1>1, <2>1, <2>6
<1>2. CASE DOMAIN from = 1..2
  <2>1. \A i \in 1..2 : seqs[i] \in Seq(Columns)
    BY <1>2
  <2>2. [i \in 1..2 |-> seqs[i]] \in Seq(Seq(Columns))
    BY <2>1
  <2>3. seqs = [i \in 1..2 |-> seqs[i]]
    BY <1>2
  <2>4. seqs \in Seq(Seq(Columns)) /\ DOMAIN seqs = 1..2
    BY <2>2, <2>3
  <2>5. Len(seqs) = 2
    BY <2>4
  <2>6. FlattenSeq(seqs) = seqs[1] \o seqs[2]
    BY <2>5, FlattenTwo
  <2>7. seqs[1] \in Seq(Columns) /\ seqs[2] \in Seq(Columns)
    BY <2>1
  <2>8. seqs[1] \o seqs[2] \in Seq(Columns)
    BY <2>7
  <2> QED
    BY <1>2, <2>6, <2>8
<1> QED
  BY <1>1, <1>2, FromFacts

(* A relation that is created has a type, in the index and in the database.   *)
LEMMA ApplyCreateType ==
  ASSUME TablesType, step' \in 1..MaxSteps,
         NEW n \in Names, NEW kind \in {"table", "view"},
         NEW columns \in Seq(Columns), NEW ifNotExists,
         ApplyCreate(n, kind, columns, ifNotExists)
  PROVE  TablesType'
<1> DEFINE r == [kind |-> kind, columns |-> columns, at |-> step']
<1>1. CASE tables' = tables
  BY <1>1 DEF TablesType
<1>2. CASE tables' = Put(tables, n, r)
  <2>1. r \in TableRecords
    BY DEF TableRecords
  <2> HIDE DEF r
  <2>2. /\ DOMAIN Put(tables, n, r) = DOMAIN tables \cup {n}
        /\ \A m \in DOMAIN tables \cup {n} :
              Put(tables, n, r)[m] = IF m = n THEN r ELSE tables[m]
    BY DEF Put
  <2>3. /\ DOMAIN tables' = DOMAIN tables \cup {n}
        /\ \A m \in DOMAIN tables \cup {n} :
              tables'[m] = IF m = n THEN r ELSE tables[m]
    BY <1>2, <2>2
  <2> QED
    BY <2>1, <2>3 DEF TablesType
<1> QED
  BY <1>1, <1>2 DEF ApplyCreate, InsertTable

LEMMA StoreType ==
  ASSUME DatabaseType, step' \in 1..MaxSteps,
         NEW n \in Names, NEW kind \in {"table", "view", "materialized"},
         NEW columns \in Seq(Columns), Len(columns) <= MaxColumns, Distinct(columns),
         NEW uses, uses \subseteq DOMAIN database \ {n}, kind = "table" => uses = {},
         Store(n, kind, columns, uses)
  PROVE  DatabaseType'
<1> DEFINE r == [kind |-> kind, columns |-> columns, at |-> step', uses |-> uses]
<1>1. database' = Put(database, n, r)
  BY DEF Store
<1>2. r \in Relations
  BY DEF Relations, DatabaseType
<1>3. /\ Len(r.columns) <= MaxColumns /\ Distinct(r.columns)
      /\ r.uses \subseteq DOMAIN database \ {n}
      /\ r.kind = "table" => r.uses = {}
  OBVIOUS
<1> HIDE DEF r
<1>4. /\ DOMAIN database' = DOMAIN database \cup {n}
      /\ \A m \in DOMAIN database \cup {n} :
            database'[m] = IF m = n THEN r ELSE database[m]
  <2>1. /\ DOMAIN Put(database, n, r) = DOMAIN database \cup {n}
        /\ \A m \in DOMAIN database \cup {n} :
              Put(database, n, r)[m] = IF m = n THEN r ELSE database[m]
    BY DEF Put
  <2> QED
    BY <1>1, <2>1
<1>5. \A m \in DOMAIN database' :
         /\ database'[m] \in Relations
         /\ Len(database'[m].columns) <= MaxColumns
         /\ Distinct(database'[m].columns)
         /\ database'[m].uses \subseteq DOMAIN database' \ {m}
         /\ database'[m].kind = "table" => database'[m].uses = {}
  BY <1>2, <1>3, <1>4 DEF DatabaseType
<1>6. DOMAIN database' \subseteq Names
  BY <1>4 DEF DatabaseType
<1> QED
  BY <1>5, <1>6 DEF DatabaseType, Distinct

(* What a statement of ALTER does to a relation keeps the type of all.        *)
LEMMA ApplyAlterType ==
  ASSUME TablesType, NEW n, NEW r, n \in DOMAIN tables => r \in TableRecords,
         tables' = IF n \in DOMAIN tables THEN [tables EXCEPT ![n] = r] ELSE tables
  PROVE  TablesType'
BY DEF TablesType

LEMMA AlterFacts ==
  ASSUME DatabaseType, NEW n \in DOMAIN database, NEW columns,
         database' = [database EXCEPT ![n].columns = columns]
  PROVE  /\ DOMAIN database' = DOMAIN database
         /\ \A m \in DOMAIN database :
              /\ database'[m].columns = IF m = n THEN columns ELSE database[m].columns
              /\ database'[m].kind = database[m].kind
              /\ database'[m].at = database[m].at
              /\ database'[m].uses = database[m].uses
         /\ \A m \in DOMAIN database \ {n} : database'[m] = database[m]
BY DEF DatabaseType, Relations

LEMMA AlterType ==
  ASSUME DatabaseType, NEW n \in DOMAIN database,
         NEW columns \in Seq(Columns), Len(columns) <= MaxColumns, Distinct(columns),
         database' = [database EXCEPT ![n].columns = columns]
  PROVE  DatabaseType'
<1>1. /\ DOMAIN database' = DOMAIN database
      /\ \A m \in DOMAIN database :
           /\ database'[m].columns = IF m = n THEN columns ELSE database[m].columns
           /\ database'[m].kind = database[m].kind
           /\ database'[m].uses = database[m].uses
      /\ \A m \in DOMAIN database \ {n} : database'[m] = database[m]
  BY AlterFacts
<1>2. database'[n] \in Relations
  <2>1. database[n] \in Relations
    BY DEF DatabaseType
  <2>2. database'[n] = [database[n] EXCEPT !.columns = columns]
    OBVIOUS
  <2> QED
    BY <2>1, <2>2 DEF Relations
<1>3. \A m \in DOMAIN database' :
         /\ database'[m] \in Relations
         /\ Len(database'[m].columns) <= MaxColumns
         /\ Distinct(database'[m].columns)
         /\ database'[m].uses \subseteq DOMAIN database' \ {m}
         /\ database'[m].kind = "table" => database'[m].uses = {}
  BY <1>1, <1>2 DEF DatabaseType
<1>4. DOMAIN database' \subseteq Names
  BY <1>1 DEF DatabaseType
<1> QED
  BY <1>3, <1>4 DEF DatabaseType, Distinct

(* Relations go with all that use them.                                      *)
LEMMA RemoveType ==
  ASSUME DatabaseType, NEW gone,
         \A v \in DOMAIN database \ gone : database[v].uses \cap gone = {},
         database' = Without(database, gone)
  PROVE  DatabaseType'
<1>1. /\ DOMAIN database' = DOMAIN database \ gone
      /\ \A m \in DOMAIN database \ gone : database'[m] = database[m]
  BY WithoutFacts
<1>2. \A m \in DOMAIN database' :
         /\ database'[m] \in Relations
         /\ Len(database'[m].columns) <= MaxColumns
         /\ Distinct(database'[m].columns)
         /\ database'[m].uses \subseteq DOMAIN database' \ {m}
         /\ database'[m].kind = "table" => database'[m].uses = {}
  BY <1>1 DEF DatabaseType
<1>3. DOMAIN database' \subseteq Names
  BY <1>1 DEF DatabaseType
<1> QED
  BY <1>2, <1>3 DEF DatabaseType, Distinct

LEMMA ApplyDropType ==
  ASSUME TablesType, NEW n, ApplyDrop(n)
  PROVE  TablesType'
<1>1. /\ DOMAIN Without(tables, {n}) = DOMAIN tables \ {n}
      /\ \A m \in DOMAIN tables \ {n} : Without(tables, {n})[m] = tables[m]
  BY WithoutFacts
<1>2. tables' = Without(tables, {n})
  BY DEF ApplyDrop
<1> QED
  BY <1>1, <1>2 DEF TablesType

(* Who uses a dependent is one.                                              *)
LEMMA DependentsClosed ==
  ASSUME NEW n, NEW v \in DOMAIN database \ Dependents(n)
  PROVE  database[v].uses \cap Dependents(n) = {}
<1>1. PICK S \in SUBSET DOMAIN database : n \in S /\ Closed(S) /\ v \notin S
  BY DEF Dependents
<1>2. database[v].uses \cap S = {}
  BY <1>1 DEF Closed
<1>3. Dependents(n) \subseteq S
  BY <1>1 DEF Dependents
<1> QED
  BY <1>2, <1>3

(* CREATE and DROP.                                                          *)
LEMMA CreateTableType ==
  ASSUME ReplayInv, NEW n \in Names, NEW columns \in ColumnLists,
         NEW ifNotExists \in BOOLEAN, CreateTable(n, columns, ifNotExists)
  PROVE  ReplayInv'
<1>0. TablesType /\ DatabaseType
  BY ReplayParts
<1>1. Statement("create") /\ ApplyCreate(n, "table", Named(columns), ifNotExists)
  BY DEF CreateTable
<1>2. step' \in 1..MaxSteps /\ step' \in 0..MaxSteps
  BY <1>1, NextStep
<1>3. /\ Named(columns) \in Seq(Columns)
      /\ Len(Named(columns)) <= MaxColumns
      /\ Distinct(Named(columns))
  BY <1>2, NamedFacts
<1>4. TablesType'
  <2> DEFINE named == Named(columns)
  <2>1. named \in Seq(Columns) /\ ApplyCreate(n, "table", named, ifNotExists)
    BY <1>1, <1>3
  <2> HIDE DEF named
  <2> QED
    BY <1>0, <1>2, <2>1, ApplyCreateType
<1>5. DatabaseType'
  <2>1. CASE Exists(n)
    <3>1. database' = database
      BY <2>1 DEF CreateTable
    <3> QED
      BY <1>0, <3>1 DEF DatabaseType, Distinct
  <2>2. CASE ~Exists(n)
    <3> DEFINE named == Named(columns)
    <3>1. /\ named \in Seq(Columns) /\ Len(named) <= MaxColumns /\ Distinct(named)
          /\ Store(n, "table", named, {})
      BY <1>3, <2>2 DEF CreateTable
    <3> HIDE DEF named
    <3> QED
      BY <1>0, <1>2, <3>1, StoreType
  <2> QED
    BY <2>1, <2>2
<1> QED
  BY <1>2, <1>4, <1>5, PartsNext

LEMMA CreateViewType ==
  ASSUME ReplayInv, NEW n \in Names, NEW columns \in ColumnLists, NEW m \in Names,
         CreateView(n, columns, m) \/ ReplaceView(n, columns, m)
  PROVE  ReplayInv'
<1>0. TablesType /\ DatabaseType
  BY ReplayParts
<1>1. /\ \E kind : Statement(kind)
      /\ m \in DOMAIN database \ {n}
      /\ ApplyCreate(n, "view", Named(columns), FALSE)
      /\ Store(n, "view", Named(columns), {m})
  BY DEF CreateView, ReplaceView, Exists
<1>2. step' \in 1..MaxSteps /\ step' \in 0..MaxSteps
  BY <1>1, NextStep
<1> DEFINE named == Named(columns)
<1>3. named \in Seq(Columns) /\ Len(named) <= MaxColumns /\ Distinct(named)
  BY <1>2, NamedFacts
<1>4. ApplyCreate(n, "view", named, FALSE) /\ Store(n, "view", named, {m})
  BY <1>1
<1> HIDE DEF named
<1>5. TablesType'
  BY <1>0, <1>2, <1>3, <1>4, ApplyCreateType
<1>6. DatabaseType'
  BY <1>0, <1>1, <1>2, <1>3, <1>4, StoreType
<1> QED
  BY <1>2, <1>5, <1>6, PartsNext

LEMMA ReplaceTableType ==
  ASSUME ReplayInv, NEW n \in Names, NEW columns \in ColumnLists,
         ReplaceTable(n, columns)
  PROVE  ReplayInv'
<1>0. TablesType /\ DatabaseType
  BY ReplayParts
<1> DEFINE named == Named(columns)
<1>1. /\ Statement("replace")
      /\ ApplyCreate(n, "table", named, FALSE)
      /\ Store(n, "table", named, {})
  BY DEF ReplaceTable
<1>2. step' \in 1..MaxSteps /\ step' \in 0..MaxSteps
  BY <1>1, NextStep
<1>3. named \in Seq(Columns) /\ Len(named) <= MaxColumns /\ Distinct(named)
  BY <1>2, NamedFacts
<1> HIDE DEF named
<1>4. TablesType'
  BY <1>0, <1>1, <1>2, <1>3, ApplyCreateType
<1>5. DatabaseType'
  BY <1>0, <1>1, <1>2, <1>3, StoreType
<1> QED
  BY <1>2, <1>4, <1>5, PartsNext

(* The database has a relation more, of which the index does not know.        *)
LEMMA CreateIgnoredType ==
  ASSUME ReplayInv, NEW n \in Names, NEW columns \in ColumnLists,
         CreateIgnored(n, columns)
  PROVE  ReplayInv'
<1>0. TablesType /\ DatabaseType
  BY ReplayParts
<1> DEFINE named == Named(columns)
<1>1. /\ Statement("create_ignored")
      /\ tables' = tables
      /\ Store(n, "table", named, {})
  BY DEF CreateIgnored, Ignore
<1>2. step' \in 1..MaxSteps /\ step' \in 0..MaxSteps
  BY <1>1, NextStep
<1>3. named \in Seq(Columns) /\ Len(named) <= MaxColumns /\ Distinct(named)
  BY <1>2, NamedFacts
<1> HIDE DEF named
<1>4. TablesType'
  BY <1>0, <1>1 DEF TablesType
<1>5. DatabaseType'
  BY <1>0, <1>1, <1>2, <1>3, StoreType
<1> QED
  BY <1>2, <1>4, <1>5, PartsNext

(* What a wildcard stands for in the index and in the database.               *)
Known(from) == [i \in DOMAIN from |->
                  IF from[i] \in DOMAIN tables THEN tables[from[i]].columns ELSE <<>>]
Existing(from) == [i \in DOMAIN from |-> database[from[i]].columns]

LEMMA WildcardTypes ==
  ASSUME TablesType, DatabaseType, NEW from \in FromClauses
  PROVE  /\ Known(from) \in [DOMAIN from -> Seq(Columns)]
         /\ DeriveWildcard(from) = FlattenSeq(Known(from))
         /\ DeriveWildcard(from) \in Seq(Columns)
         /\ (\A i \in DOMAIN from : Exists(from[i])) =>
              /\ Existing(from) \in [DOMAIN from -> Seq(Columns)]
              /\ FlattenSeq(Existing(from)) \in Seq(Columns)
<1>1. \A n \in DOMAIN tables : tables[n].columns \in Seq(Columns)
  BY DEF TablesType, TableRecords
<1>2. Known(from) \in [DOMAIN from -> Seq(Columns)]
  <2>1. <<>> \in Seq(Columns)
    OBVIOUS
  <2> QED
    BY <1>1, <2>1 DEF Known
<1>3. DeriveWildcard(from) = FlattenSeq(Known(from))
  BY DEF DeriveWildcard, Known
<1>4. ASSUME \A i \in DOMAIN from : Exists(from[i])
      PROVE  Existing(from) \in [DOMAIN from -> Seq(Columns)]
  <2>1. \A n \in DOMAIN database : database[n].columns \in Seq(Columns)
    BY DEF DatabaseType, Relations
  <2> QED
    BY <1>4, <2>1 DEF Existing, Exists
<1> QED
  BY <1>2, <1>3, <1>4, FlattenFrom

LEMMA CreateAsWildcardType ==
  ASSUME ReplayInv, NEW n \in Names, NEW kind \in {"table", "view", "materialized"},
         NEW from \in FromClauses, CreateAsWildcard(n, kind, from)
  PROVE  ReplayInv'
<1>0. TablesType /\ DatabaseType
  BY ReplayParts
<1> DEFINE columns == FlattenSeq(Existing(from))
           derived == DeriveWildcard(from)
<1>1. /\ Statement("create_as") /\ n \notin DOMAIN database
      /\ \A i \in DOMAIN from : from[i] \in DOMAIN database
      /\ ApplyCreate(n, IndexKind(kind), derived, FALSE)
      /\ Store(n, kind, columns, UsesOf(kind, from))
      /\ Distinct(columns) /\ Len(columns) <= MaxColumns
  BY DEF CreateAsWildcard, Exists, Existing
<1>2. step' \in 1..MaxSteps /\ step' \in 0..MaxSteps
  BY <1>1, NextStep
<1>3. derived \in Seq(Columns) /\ columns \in Seq(Columns)
  BY <1>0, <1>1, WildcardTypes DEF Exists
<1>4. /\ UsesOf(kind, from) \subseteq DOMAIN database \ {n}
      /\ kind = "table" => UsesOf(kind, from) = {}
  BY <1>1 DEF UsesOf, ToSet
<1>5. IndexKind(kind) \in {"table", "view"}
  BY DEF IndexKind
<1> HIDE DEF columns, derived
<1>6. TablesType'
  BY <1>0, <1>1, <1>2, <1>3, <1>5, ApplyCreateType
<1>7. DatabaseType'
  BY <1>0, <1>1, <1>2, <1>3, <1>4, StoreType
<1> QED
  BY <1>2, <1>6, <1>7, PartsNext

(* The column that a name in the FROM clause stands for.                      *)
LEMMA DeriveColumnFacts ==
  ASSUME TablesType, NEW from \in FromClauses, NEW c \in ColumnNames
  PROVE  /\ DeriveColumn(from, c) \in Seq(Columns)
         /\ Len(DeriveColumn(from, c)) = 1
         /\ DeriveColumn(from, c)[1].name = c
         /\ \/ /\ \A i \in DOMAIN from :
                     from[i] \in DOMAIN tables => ~HasColumn(tables[from[i]], c)
               /\ DeriveColumn(from, c)[1].at = 0
            \/ \E i \in DOMAIN from :
                  /\ from[i] \in DOMAIN tables /\ HasColumn(tables[from[i]], c)
                  /\ DeriveColumn(from, c) = <<ColumnNamed(tables[from[i]], c)>>
<1> DEFINE having == {i \in DOMAIN from : /\ from[i] \in DOMAIN tables
                                          /\ HasColumn(tables[from[i]], c)}
           first == from[Min(having)]
<1>1. \A n \in DOMAIN tables : tables[n].columns \in Seq(Columns)
  BY DEF TablesType, TableRecords
<1>2. CASE having = {}
  <2>1. DeriveColumn(from, c) = <<[name |-> c, at |-> 0]>>
    BY <1>2 DEF DeriveColumn
  <2>2. [name |-> c, at |-> 0] \in Columns
    BY ReplayAssumption DEF Columns
  <2> QED
    BY <1>2, <2>1, <2>2
<1>3. CASE having # {}
  <2>1. having \subseteq Nat
    BY FromFacts
  <2>2. Min(having) \in having
    <3> HIDE DEF having
    <3> QED
      BY <1>3, <2>1, MinIsLeast
  <2>3. DeriveColumn(from, c) = <<ColumnNamed(tables[first], c)>>
    BY <1>3 DEF DeriveColumn
  <2>4. /\ ColumnNamed(tables[first], c) \in Columns
        /\ ColumnNamed(tables[first], c).name = c
    BY <1>1, <2>2, ColumnNamedFacts
  <2> QED
    BY <2>2, <2>3, <2>4
<1> QED
  BY <1>2, <1>3

LEMMA CreateAsColumnType ==
  ASSUME ReplayInv, NEW n \in Names, NEW kind \in {"table", "view", "materialized"},
         NEW from \in FromClauses, NEW m \in Names, NEW c \in ColumnNames,
         CreateAsColumn(n, kind, from, m, c)
  PROVE  ReplayInv'
<1>0. TablesType /\ DatabaseType
  BY ReplayParts
<1> DEFINE columns == <<ColumnNamed(database[m], c)>>
           derived == DeriveColumn(from, c)
<1>1. /\ Statement("create_as") /\ n \notin DOMAIN database
      /\ \A i \in DOMAIN from : from[i] \in DOMAIN database
      /\ m \in DOMAIN database /\ HasColumn(database[m], c)
      /\ ApplyCreate(n, IndexKind(kind), derived, FALSE)
      /\ Store(n, kind, columns, UsesOf(kind, from))
  BY DEF CreateAsColumn, Exists, ToSet
<1>2. step' \in 1..MaxSteps /\ step' \in 0..MaxSteps
  BY <1>1, NextStep
<1>3. derived \in Seq(Columns)
  BY <1>0, DeriveColumnFacts
<1>4. columns \in Seq(Columns) /\ Len(columns) = 1 /\ Distinct(columns)
  <2>1. database[m].columns \in Seq(Columns)
    BY <1>0, <1>1 DEF DatabaseType, Relations
  <2>2. ColumnNamed(database[m], c) \in Columns
    BY <1>1, <2>1, ColumnNamedFacts
  <2> QED
    BY <2>2 DEF Distinct
<1>5. 1 <= MaxColumns
  <2>1. database[m].columns \in Seq(Columns) /\ Len(database[m].columns) <= MaxColumns
    BY <1>0, <1>1 DEF DatabaseType, Relations
  <2>2. database[m].columns # <<>>
    BY <1>1 DEF HasColumn, ColumnSet
  <2> QED
    BY <2>1, <2>2, ReplayAssumption
<1>6. /\ UsesOf(kind, from) \subseteq DOMAIN database \ {n}
      /\ kind = "table" => UsesOf(kind, from) = {}
  BY <1>1 DEF UsesOf, ToSet
<1>7. IndexKind(kind) \in {"table", "view"}
  BY DEF IndexKind
<1> HIDE DEF columns, derived
<1>8. TablesType'
  BY <1>0, <1>1, <1>2, <1>3, <1>7, ApplyCreateType
<1>9. DatabaseType'
  BY <1>0, <1>1, <1>2, <1>4, <1>5, <1>6, StoreType
<1> QED
  BY <1>2, <1>8, <1>9, PartsNext

LEMMA DropsType ==
  ASSUME ReplayInv, NEW n \in Names, Drop(n) \/ DropMaterialized(n) \/ DropCascade(n)
  PROVE  ReplayInv'
<1>0. TablesType /\ DatabaseType
  BY ReplayParts
<1>1. \E kind : Statement(kind)
  BY DEF Drop, DropMaterialized, DropCascade
<1>2. step' \in 0..MaxSteps
  BY <1>1, NextStep
<1>3. TablesType'
  <2>1. CASE ApplyDrop(n)
    BY <1>0, <2>1, ApplyDropType
  <2>2. CASE tables' = tables
    BY <1>0, <2>2 DEF TablesType
  <2> QED
    BY <2>1, <2>2 DEF Drop, DropMaterialized, DropCascade, Ignore
<1>4. DatabaseType'
  <2>1. CASE Drop(n) \/ DropMaterialized(n)
    <3>1. Unused(n) /\ database' = Without(database, {n})
      BY <2>1 DEF Drop, DropMaterialized
    <3>2. \A v \in DOMAIN database \ {n} : database[v].uses \cap {n} = {}
      BY <3>1 DEF Unused, Users
    <3> QED
      BY <1>0, <3>1, <3>2, RemoveType
  <2>2. CASE DropCascade(n)
    <3>1. database' = Without(database, Dependents(n))
      BY <2>2 DEF DropCascade
    <3>2. \A v \in DOMAIN database \ Dependents(n) :
             database[v].uses \cap Dependents(n) = {}
      BY DependentsClosed
    <3> QED
      BY <1>0, <3>1, <3>2, RemoveType
  <2> QED
    BY <2>1, <2>2
<1> QED
  BY <1>2, <1>3, <1>4, PartsNext

(* ALTER.                                                                    *)
LEMMA ApplyAddColumnType ==
  ASSUME TablesType, step' \in 1..MaxSteps, NEW n, NEW c \in ColumnNames,
         NEW ifNotExists \in BOOLEAN,
         ApplyAlter(n, LAMBDA q : AddColumn(q, c, ifNotExists))
  PROVE  TablesType'
<1> DEFINE column == [name |-> c, at |-> step']
           r == AddColumn(tables[n], c, ifNotExists)
<1>1. column \in Columns
  BY DEF Columns
<1>2. tables' = IF n \in DOMAIN tables THEN [tables EXCEPT ![n] = r] ELSE tables
  BY DEF ApplyAlter
<1>3. n \in DOMAIN tables => r \in TableRecords
  <2> SUFFICES ASSUME n \in DOMAIN tables PROVE r \in TableRecords
    OBVIOUS
  <2>1. tables[n] \in TableRecords
    BY DEF TablesType
  <2>2. Append(tables[n].columns, column) \in Seq(Columns)
    BY <1>1, <2>1 DEF TableRecords
  <2> HIDE DEF column
  <2>3. [tables[n] EXCEPT !.columns = Append(tables[n].columns, column)] \in TableRecords
    BY <2>1, <2>2 DEF TableRecords
  <2> QED
    BY <2>1, <2>3 DEF AddColumn, column
<1> HIDE DEF r
<1> QED
  BY <1>2, <1>3, ApplyAlterType

LEMMA AddColumnType ==
  ASSUME ReplayInv, NEW n \in Names, NEW c \in ColumnNames,
         NEW ifNotExists \in BOOLEAN, AlterAddColumn(n, c, ifNotExists)
  PROVE  ReplayInv'
<1>0. TablesType /\ DatabaseType
  BY ReplayParts
<1>1. Statement("add") /\ n \in DOMAIN database
  BY DEF AlterAddColumn, IsTable, Exists
<1>2. step' \in 1..MaxSteps /\ step' \in 0..MaxSteps
  BY <1>1, NextStep
<1> DEFINE column == [name |-> c, at |-> step']
           columns == Append(database[n].columns, column)
<1>3. column \in Columns
  BY <1>2 DEF Columns
<1>4. TablesType'
  BY <1>0, <1>2, ApplyAddColumnType DEF AlterAddColumn
<1>5. DatabaseType'
  <2>1. CASE database' = database
    BY <1>0, <2>1 DEF DatabaseType, Distinct
  <2>2. CASE /\ ~HasColumn(database[n], c)
             /\ Len(database[n].columns) < MaxColumns
             /\ database' = [database EXCEPT ![n].columns = columns]
    <3> DEFINE s == database[n].columns
    <3>1. s \in Seq(Columns) /\ Distinct(s)
      BY <1>0, <1>1 DEF DatabaseType, Relations
    <3>2. /\ columns \in Seq(Columns) /\ Len(columns) = Len(s) + 1
          /\ \A i \in 1..Len(s) : columns[i] = s[i]
          /\ columns[Len(s) + 1] = column
      <4> HIDE DEF column, s
      <4> QED
        BY <1>3, <3>1, AppendProperties DEF s
    <3>3. \A i \in 1..Len(s) : s[i].name # c
      BY <2>2, <3>1 DEF HasColumn, ColumnSet
    <3>4. Len(s) \in Nat /\ DOMAIN s = 1..Len(s) /\ DOMAIN columns = 1..(Len(s) + 1)
      BY <3>1, <3>2
    <3>5. Distinct(columns)
      <4> SUFFICES ASSUME NEW i \in 1..(Len(s) + 1), NEW j \in 1..(Len(s) + 1),
                          columns[i].name = columns[j].name
                   PROVE  i = j
        BY <3>4 DEF Distinct
      <4>1. \A k \in 1..(Len(s) + 1) : k \in 1..Len(s) \/ k = Len(s) + 1
        BY <3>4
      <4>2. column.name = c
        OBVIOUS
      <4>3. \A k \in 1..Len(s) : columns[k].name # columns[Len(s) + 1].name
        BY <3>2, <3>3, <4>2
      <4>4. CASE i \in 1..Len(s) /\ j \in 1..Len(s)
        BY <3>1, <3>2, <3>4, <4>4 DEF Distinct
      <4> HIDE DEF columns, s
      <4> QED
        BY <4>1, <4>3, <4>4
    <3>6. Len(columns) <= MaxColumns
      BY <2>2, <3>2, <3>4, ReplayAssumption
    <3> HIDE DEF columns
    <3> QED
      BY <1>0, <1>1, <2>2, <3>2, <3>5, <3>6, AlterType
  <2> QED
    BY <2>1, <2>2 DEF AlterAddColumn
<1> QED
  BY <1>2, <1>4, <1>5, PartsNext

LEMMA DropColumnType ==
  ASSUME ReplayInv, NEW n \in Names, NEW c \in ColumnNames, AlterDropColumn(n, c)
  PROVE  ReplayInv'
<1>0. TablesType /\ DatabaseType
  BY ReplayParts
<1>1. Statement("drop_column") /\ n \in DOMAIN database
  BY DEF AlterDropColumn, IsTable, Exists
<1>2. step' \in 0..MaxSteps
  BY <1>1, NextStep
<1> DEFINE r == DropColumn(tables[n], c)
           columns == Retained(database[n].columns, c)
<1>3. TablesType'
  <2>1. tables' = IF n \in DOMAIN tables THEN [tables EXCEPT ![n] = r] ELSE tables
    BY DEF AlterDropColumn, ApplyAlter
  <2>2. n \in DOMAIN tables => r \in TableRecords
    <3> SUFFICES ASSUME n \in DOMAIN tables PROVE r \in TableRecords
      OBVIOUS
    <3>1. tables[n] \in TableRecords
      BY <1>0 DEF TablesType
    <3>2. tables[n].columns \in Seq(Columns)
      BY <3>1 DEF TableRecords
    <3>3. Retained(tables[n].columns, c) \in Seq(Columns)
      BY <3>2, RetainedIsPart
    <3> QED
      BY <3>1, <3>3 DEF TableRecords, DropColumn
  <2> HIDE DEF r
  <2> QED
    BY <1>0, <2>1, <2>2, ApplyAlterType
<1>4. DatabaseType'
  <2>1. /\ database[n].columns \in Seq(Columns) /\ Distinct(database[n].columns)
        /\ Len(database[n].columns) <= MaxColumns
    BY <1>0, <1>1 DEF DatabaseType, Relations
  <2>2. /\ columns \in Seq(Columns) /\ Len(columns) <= Len(database[n].columns)
        /\ Distinct(columns)
    BY <2>1, RetainedIsPart
  <2>3. Len(columns) <= MaxColumns
    BY <2>1, <2>2, ReplayAssumption
  <2>4. database' = [database EXCEPT ![n].columns = columns]
    BY DEF AlterDropColumn
  <2> HIDE DEF columns
  <2> QED
    BY <1>0, <1>1, <2>2, <2>3, <2>4, AlterType
<1> QED
  BY <1>2, <1>3, <1>4, PartsNext

(* What a database's columns are after one of them has got a new name.        *)
Renaming(s, old, new) ==
  [i \in DOMAIN s |-> IF s[i].name = old THEN [name |-> new, at |-> step'] ELSE s[i]]

LEMMA RenamingFacts ==
  ASSUME step' \in 0..MaxSteps, NEW s \in Seq(Columns), NEW old,
         NEW new \in ColumnNames
  PROVE  /\ Renaming(s, old, new) \in Seq(Columns)
         /\ Len(Renaming(s, old, new)) = Len(s)
         /\ Distinct(s) /\ (\A i \in DOMAIN s : s[i].name # new) =>
               Distinct(Renaming(s, old, new))
<1> DEFINE named == [name |-> new, at |-> step']
           t == Renaming(s, old, new)
<1>1. named \in Columns
  BY DEF Columns
<1>2. t = [i \in 1..Len(s) |-> IF s[i].name = old THEN named ELSE s[i]]
  BY DEF Renaming
<1>3. \A i \in 1..Len(s) : (IF s[i].name = old THEN named ELSE s[i]) \in Columns
  BY <1>1
<1>4. t \in Seq(Columns) /\ Len(t) = Len(s)
  <2> HIDE DEF t, named
  <2>1. [i \in 1..Len(s) |-> IF s[i].name = old THEN named ELSE s[i]] \in Seq(Columns)
    BY <1>3
  <2>2. DOMAIN t = 1..Len(s) /\ t \in Seq(Columns)
    BY <1>2, <2>1
  <2> QED
    BY <2>2
<1>5. ASSUME Distinct(s), \A i \in DOMAIN s : s[i].name # new PROVE Distinct(t)
  <2>1. DOMAIN t = DOMAIN s
    BY DEF Renaming
  <2>2. \A i \in DOMAIN s : t[i].name = IF s[i].name = old THEN new ELSE s[i].name
    BY DEF Renaming
  <2> HIDE DEF t
  <2> QED
    BY <1>5, <2>1, <2>2 DEF Distinct
<1> QED
  BY <1>4, <1>5

LEMMA RenamedColumnType ==
  ASSUME DatabaseType, step' \in 0..MaxSteps, NEW n, NEW old,
         NEW new \in ColumnNames, RenamedColumn(n, old, new)
  PROVE  DatabaseType'
<1> DEFINE s == database[n].columns
           columns == Renaming(s, old, new)
<1>1. n \in DOMAIN database /\ ~HasColumn(database[n], new)
  BY DEF RenamedColumn, IsTable, Exists
<1>2. /\ s \in Seq(Columns) /\ Distinct(s) /\ Len(s) <= MaxColumns
      /\ \A i \in DOMAIN s : s[i].name # new
  BY <1>1 DEF DatabaseType, Relations, HasColumn, ColumnSet
<1>3. columns \in Seq(Columns) /\ Len(columns) <= MaxColumns /\ Distinct(columns)
  BY <1>2, RenamingFacts
<1>4. database' = [database EXCEPT ![n].columns = columns]
  BY DEF RenamedColumn, Renaming
<1> HIDE DEF columns, s
<1> QED
  BY <1>1, <1>3, <1>4, AlterType

LEMMA RenameColumnType ==
  ASSUME ReplayInv, NEW n \in Names, NEW old \in ColumnNames, NEW new \in ColumnNames,
         AlterRenameColumn(n, old, new) \/ AlterChangeColumn(n, old, new)
  PROVE  ReplayInv'
<1>0. TablesType /\ DatabaseType
  BY ReplayParts
<1>1. \E kind : Statement(kind)
  BY DEF AlterRenameColumn, AlterChangeColumn
<1>2. step' \in 0..MaxSteps
  BY <1>1, NextStep
<1>3. DatabaseType'
  BY <1>0, <1>2, RenamedColumnType DEF AlterRenameColumn, AlterChangeColumn
<1>4. TablesType'
  <2>1. CASE AlterRenameColumn(n, old, new)
    <3> DEFINE r == RenameColumn(tables[n], old, new)
    <3>1. tables' = IF n \in DOMAIN tables THEN [tables EXCEPT ![n] = r] ELSE tables
      BY <2>1 DEF AlterRenameColumn, ApplyAlter
    <3>2. n \in DOMAIN tables => r \in TableRecords
      <4> SUFFICES ASSUME n \in DOMAIN tables PROVE r \in TableRecords
        OBVIOUS
      <4>1. tables[n] \in TableRecords
        BY <1>0 DEF TablesType
      <4>2. CASE ~HasColumn(tables[n], old)
        BY <4>1, <4>2 DEF RenameColumn
      <4>3. CASE HasColumn(tables[n], old)
        <5> DEFINE p == Position(tables[n], old)
                   s == tables[n].columns
                   renamed == [s EXCEPT ![p] = [name |-> new, at |-> step']]
        <5>1. s \in Seq(Columns)
          BY <4>1 DEF TableRecords
        <5>2. p \in 1..Len(s)
          BY <4>3, <5>1, ColumnNamedFacts
        <5>3. [name |-> new, at |-> step'] \in Columns
          BY <1>2 DEF Columns
        <5>4. renamed \in Seq(Columns)
          BY <5>1, <5>2, <5>3, ExceptSeq
        <5>5. r = [tables[n] EXCEPT !.columns = renamed]
          BY <4>3 DEF RenameColumn
        <5> HIDE DEF r, renamed
        <5> QED
          BY <4>1, <5>4, <5>5 DEF TableRecords
      <4> QED
        BY <4>2, <4>3
    <3> HIDE DEF r
    <3> QED
      BY <1>0, <3>1, <3>2, ApplyAlterType
  <2>2. CASE AlterChangeColumn(n, old, new)
    <3>1. tables' = IF n \in DOMAIN tables THEN [tables EXCEPT ![n] = tables[n]]
                    ELSE tables
      BY <2>2 DEF AlterChangeColumn, ApplyAlter
    <3>2. n \in DOMAIN tables => tables[n] \in TableRecords
      BY <1>0 DEF TablesType
    <3> QED
      BY <1>0, <3>1, <3>2, ApplyAlterType
  <2> QED
    BY <2>1, <2>2
<1> QED
  BY <1>2, <1>3, <1>4, PartsNext

(* What a renamed relation leaves to a database: itself under the new name,   *)
(* and the views that use it.                                               *)
LEMMA RenameFacts ==
  ASSUME DatabaseType, NEW n \in Names, NEW m \in Names, RenamedRelation(n, m)
  PROVE  /\ DOMAIN database' = (DOMAIN database \ {n}) \cup {m}
         /\ m \notin DOMAIN database /\ n \in DOMAIN database
         /\ database'[m] = [database[n] EXCEPT !.at = step']
         /\ \A v \in DOMAIN database \ {n} :
              database'[v] =
                IF n \in database[v].uses
                THEN [database[v] EXCEPT !.uses = (database[v].uses \ {n}) \cup {m}]
                ELSE database[v]
<1> DEFINE follow(r) == IF n \in r.uses
                        THEN [r EXCEPT !.uses = (@ \ {n}) \cup {m}] ELSE r
           others == Without(database, {n})
           followed == [v \in DOMAIN others |-> follow(others[v])]
           renamed == [database[n] EXCEPT !.at = step']
<1>1. /\ database' = Put(followed, m, renamed)
      /\ m \notin DOMAIN database /\ n \in DOMAIN database
  BY DEF RenamedRelation, Exists
<1>2. /\ DOMAIN others = DOMAIN database \ {n}
      /\ \A v \in DOMAIN database \ {n} : others[v] = database[v]
  BY WithoutFacts
<1> HIDE DEF others
<1>3. /\ DOMAIN followed = DOMAIN database \ {n}
      /\ \A v \in DOMAIN database \ {n} :
           followed[v] = IF n \in database[v].uses
                THEN [database[v] EXCEPT !.uses = (database[v].uses \ {n}) \cup {m}]
                ELSE database[v]
  BY <1>2
<1> HIDE DEF followed, renamed
<1>4. /\ DOMAIN database' = (DOMAIN database \ {n}) \cup {m}
      /\ database'[m] = renamed
      /\ \A v \in DOMAIN database \ {n} : v # m => database'[v] = followed[v]
  BY <1>1, <1>3 DEF Put
<1>5. \A v \in DOMAIN database \ {n} : v # m
  BY <1>1
<1> QED
  BY <1>1, <1>3, <1>4, <1>5 DEF renamed

LEMMA ApplyRenameType ==
  ASSUME TablesType, step' \in 1..MaxSteps, NEW n, NEW m \in Names, ApplyRename(n, m)
  PROVE  TablesType'
<1>1. CASE n \notin DOMAIN tables
  BY <1>1 DEF ApplyRename, TablesType
<1>2. CASE n \in DOMAIN tables
  <2> DEFINE renamed == [tables[n] EXCEPT !.at = step']
             others == Without(tables, {n})
  <2>1. tables' = Put(others, m, renamed)
    BY <1>2 DEF ApplyRename
  <2>2. renamed \in TableRecords
    <3>1. tables[n] \in TableRecords
      BY <1>2 DEF TablesType
    <3> QED
      BY <3>1 DEF TableRecords
  <2>3. /\ DOMAIN others = DOMAIN tables \ {n}
        /\ \A v \in DOMAIN tables \ {n} : others[v] = tables[v]
    BY WithoutFacts
  <2> HIDE DEF renamed, others
  <2>4. /\ DOMAIN tables' = (DOMAIN tables \ {n}) \cup {m}
        /\ tables'[m] = renamed
        /\ \A v \in DOMAIN tables \ {n} : v # m => tables'[v] = tables[v]
    BY <2>1, <2>3 DEF Put
  <2> QED
    BY <2>2, <2>4 DEF TablesType
<1> QED
  BY <1>1, <1>2

LEMMA RenamedType ==
  ASSUME DatabaseType, step' \in 1..MaxSteps, NEW n \in Names, NEW m \in Names,
         RenamedRelation(n, m)
  PROVE  DatabaseType'
<1>1. /\ DOMAIN database' = (DOMAIN database \ {n}) \cup {m}
      /\ m \notin DOMAIN database /\ n \in DOMAIN database
      /\ database'[m] = [database[n] EXCEPT !.at = step']
      /\ \A v \in DOMAIN database \ {n} :
           database'[v] =
             IF n \in database[v].uses
             THEN [database[v] EXCEPT !.uses = (database[v].uses \ {n}) \cup {m}]
             ELSE database[v]
  BY RenameFacts
<1> DEFINE Fits(r, all) == /\ r \in Relations
                           /\ Len(r.columns) <= MaxColumns
                           /\ Distinct(r.columns)
                           /\ r.uses \subseteq all
                           /\ r.kind = "table" => r.uses = {}
           all == (DOMAIN database \ {n}) \cup {m}
<1>2. Fits(database'[m], all \ {m})
  <2>1. /\ database[n] \in Relations
        /\ Len(database[n].columns) <= MaxColumns
        /\ Distinct(database[n].columns)
        /\ database[n].uses \subseteq DOMAIN database \ {n}
        /\ database[n].kind = "table" => database[n].uses = {}
    BY <1>1 DEF DatabaseType
  <2> QED
    BY <1>1, <2>1 DEF Relations
<1>3. \A v \in DOMAIN database \ {n} : Fits(database'[v], all \ {v})
  <2> TAKE v \in DOMAIN database \ {n}
  <2>1. /\ database[v] \in Relations
        /\ Len(database[v].columns) <= MaxColumns
        /\ Distinct(database[v].columns)
        /\ database[v].uses \subseteq DOMAIN database \ {v}
        /\ database[v].kind = "table" => database[v].uses = {}
    BY DEF DatabaseType
  <2>2. CASE n \notin database[v].uses
    BY <1>1, <2>1, <2>2
  <2>3. CASE n \in database[v].uses
    <3> DEFINE uses == (database[v].uses \ {n}) \cup {m}
    <3>1. database'[v] = [database[v] EXCEPT !.uses = uses]
      BY <1>1, <2>3
    <3>2. uses \subseteq all \ {v} /\ uses \in SUBSET Names
      BY <1>1, <2>1 DEF Relations
    <3> HIDE DEF uses
    <3> QED
      BY <2>1, <2>3, <3>1, <3>2 DEF Relations
  <2> QED
    BY <2>2, <2>3
<1>4. DOMAIN database' \subseteq Names
  BY <1>1 DEF DatabaseType
<1> HIDE DEF Fits
<1>5. \A v \in DOMAIN database' : Fits(database'[v], DOMAIN database' \ {v})
  BY <1>1, <1>2, <1>3
<1> QED
  BY <1>4, <1>5 DEF DatabaseType, Distinct, Fits

LEMMA RenameType ==
  ASSUME ReplayInv, NEW n \in Names, NEW m \in Names,
         AlterRename(n, m) \/ RenameIgnored(n, m)
  PROVE  ReplayInv'
<1>0. TablesType /\ DatabaseType
  BY ReplayParts
<1>1. /\ \E kind : Statement(kind)
      /\ RenamedRelation(n, m)
      /\ ApplyRename(n, m) \/ tables' = tables
  BY DEF AlterRename, RenameIgnored, Ignore
<1>2. step' \in 1..MaxSteps /\ step' \in 0..MaxSteps
  BY <1>1, NextStep
<1>3. TablesType'
  <2>1. CASE ApplyRename(n, m)
    BY <1>0, <1>2, <2>1, ApplyRenameType
  <2>2. CASE tables' = tables
    BY <1>0, <2>2 DEF TablesType
  <2> QED
    BY <1>1, <2>1, <2>2
<1>4. DatabaseType'
  BY <1>0, <1>1, <1>2, RenamedType
<1> QED
  BY <1>2, <1>3, <1>4, PartsNext

(* What is done to the index for another relation keeps its type.             *)
LEMMA OtherType ==
  ASSUME ReplayInv, NEW n \in Names, Other(n)
  PROVE  ReplayInv'
<1>0. TablesType /\ DatabaseType
  BY ReplayParts
<1>1. Statement("other") /\ database' = database
  BY DEF Other
<1>2. step' \in 1..MaxSteps /\ step' \in 0..MaxSteps
  BY <1>1, NextStep
<1>3. TablesType'
  <2>1. CASE ApplyDrop(n)
    BY <1>0, <2>1, ApplyDropType
  <2>2. ASSUME NEW columns \in ColumnLists, NEW ifNotExists \in BOOLEAN,
               ApplyCreate(n, "table", Named(columns), ifNotExists)
        PROVE  TablesType'
    <3> DEFINE named == Named(columns)
    <3>1. named \in Seq(Columns) /\ ApplyCreate(n, "table", named, ifNotExists)
      BY <1>2, <2>2, NamedFacts
    <3> HIDE DEF named
    <3> QED
      BY <1>0, <1>2, <3>1, ApplyCreateType
  <2>3. ASSUME NEW c \in ColumnNames,
               ApplyAlter(n, LAMBDA r : AddColumn(r, c, FALSE))
        PROVE  TablesType'
    BY <1>0, <1>2, <2>3, ApplyAddColumnType
  <2>4. ASSUME NEW m \in Names, ApplyRename(n, m) PROVE TablesType'
    BY <1>0, <1>2, <2>4, ApplyRenameType
  <2> QED
    BY <2>1, <2>2, <2>3, <2>4 DEF Other
<1>4. DatabaseType'
  BY <1>0, <1>1 DEF DatabaseType, Distinct
<1> QED
  BY <1>2, <1>3, <1>4, PartsNext

LEMMA StepType ==
  ASSUME ReplayInv, [Next]_vars
  PROVE  ReplayInv'
<1>1. CASE UNCHANGED vars
  BY <1>1 DEF vars, ReplayInv, TypeOK, ColumnsAreDistinct, Distinct
<1>2. CASE Next
  <2>1. ASSUME NEW n \in Names, NEW columns \in ColumnLists,
               \/ \E ifNotExists \in BOOLEAN : CreateTable(n, columns, ifNotExists)
               \/ \E m \in Names : CreateView(n, columns, m) \/ ReplaceView(n, columns, m)
               \/ ReplaceTable(n, columns)
               \/ CreateIgnored(n, columns)
        PROVE  ReplayInv'
    BY <2>1, CreateTableType, CreateViewType, ReplaceTableType, CreateIgnoredType
  <2>2. ASSUME NEW n \in Names, NEW from \in FromClauses,
               NEW kind \in {"table", "view", "materialized"},
               \/ CreateAsWildcard(n, kind, from)
               \/ \E m \in Names, c \in ColumnNames :
                     CreateAsColumn(n, kind, from, m, c)
        PROVE  ReplayInv'
    BY <2>2, CreateAsWildcardType, CreateAsColumnType
  <2>3. ASSUME NEW n \in Names, NEW c \in ColumnNames,
               \/ \E ifNotExists \in BOOLEAN : AlterAddColumn(n, c, ifNotExists)
               \/ AlterDropColumn(n, c)
               \/ \E new \in ColumnNames : \/ AlterRenameColumn(n, c, new)
                                           \/ AlterChangeColumn(n, c, new)
        PROVE  ReplayInv'
    BY <2>3, AddColumnType, DropColumnType, RenameColumnType
  <2> QED
    BY <1>2, <2>1, <2>2, <2>3, DropsType, RenameType, OtherType
    DEF Next, SupportedStatement, LeavingStatement, MisreadStatement
<1> QED
  BY <1>1, <1>2

LEMMA ReplayInvariant == Spec => []ReplayInv
<1>1. Init => ReplayInv
  BY ReplayAssumption DEF Init, ReplayInv, TypeOK, ColumnsAreDistinct
<1> QED
  BY <1>1, StepType, PTL DEF Spec

(* Every relation keeps its type, in the index and in the database.           *)
THEOREM TypeCorrect == Spec => []TypeOK
<1>1. ReplayInv => TypeOK
  BY DEF ReplayInv
<1> QED
  BY <1>1, ReplayInvariant, PTL
-----------------------------------------------------------------------------
(* The index beside the database.                                           *)

Matching(x, y) ==
  /\ DOMAIN x = DOMAIN y
  /\ \A n \in DOMAIN y : /\ SameNames(x[n].columns, y[n].columns)
                         /\ x[n].kind = IndexKind(y[n].kind)

Located(x, y) ==
  \A n \in DOMAIN y : x[n].columns = y[n].columns /\ x[n].at = y[n].at

(* For relations of their types, these are what the properties say.           *)
LEMMA MatchNow ==
  ASSUME ReplayInv, IndexMatchesDatabase
  PROVE  /\ Matching(tables, database)
         /\ LocationsAreDefinitions => Located(tables, database)
<1>0. TablesType /\ DatabaseType
  BY ReplayParts
<1>1. \A n \in DOMAIN database : /\ tables[n].columns \in Seq(Columns)
                                 /\ database[n].columns \in Seq(Columns)
  BY <1>0 DEF IndexMatchesDatabase, TablesType, DatabaseType, TableRecords, Relations
<1>2. Matching(tables, database)
  BY <1>1, NamesOneByOne DEF IndexMatchesDatabase, Matching
<1>3. ASSUME LocationsAreDefinitions, NEW n \in DOMAIN database
      PROVE  tables[n].columns = database[n].columns /\ tables[n].at = database[n].at
  <2> DEFINE s == tables[n].columns
             t == database[n].columns
  <2>1. n \in DOMAIN tables /\ SameNames(s, t)
    BY <1>2 DEF Matching
  <2>2. /\ s \in Seq(Columns) /\ t \in Seq(Columns)
        /\ DOMAIN s = 1..Len(s) /\ DOMAIN t = 1..Len(t)
    BY <1>1
  <2>3. tables[n].at = database[n].at /\ \A i \in 1..Len(s) : s[i].at = t[i].at
    BY <1>3, <2>1, <2>2 DEF LocationsAreDefinitions, SameNames
  <2>4. \A i \in 1..Len(s) : s[i] \in Columns /\ t[i] \in Columns
    BY <2>1, <2>2 DEF SameNames
  <2>5. \A i \in 1..Len(s) : s[i] = t[i]
    BY <2>1, <2>3, <2>4 DEF SameNames, Columns
  <2> HIDE DEF s, t
  <2>6. s = t
    BY <2>1, <2>2, <2>5, SeqEqual DEF SameNames
  <2> QED
    BY <2>3, <2>6 DEF s, t
<1> QED
  BY <1>2, <1>3 DEF Located

LEMMA MatchNext ==
  ASSUME ReplayInv', Matching(tables', database')
  PROVE  /\ IndexMatchesDatabase'
         /\ Located(tables', database') => LocationsAreDefinitions'
<1>1. \A n \in DOMAIN database' : /\ tables'[n].columns \in Seq(Columns)
                                  /\ database'[n].columns \in Seq(Columns)
  BY DEF ReplayInv, TypeOK, Matching, TableRecords, Relations
<1>2. \A n \in DOMAIN database' :
         ColumnNamesOf(tables'[n]) = ColumnNamesOf(database'[n])
  BY <1>1, NamesOneByOne DEF Matching
<1>3. IndexMatchesDatabase'
  BY <1>2 DEF IndexMatchesDatabase, Matching, ColumnNamesOf
<1>4. Located(tables', database') => LocationsAreDefinitions'
  BY DEF Located, LocationsAreDefinitions
<1> QED
  BY <1>3, <1>4

(* Relations of the same columns, added to both.                              *)
LEMMA PutMatches ==
  ASSUME Matching(tables, database), NEW n, NEW r, NEW q,
         tables' = Put(tables, n, r), database' = Put(database, n, q),
         SameNames(r.columns, q.columns), r.kind = IndexKind(q.kind)
  PROVE  /\ Matching(tables', database')
         /\ Located(tables, database) /\ r.columns = q.columns /\ r.at = q.at
              => Located(tables', database')
<1>1. /\ DOMAIN tables' = DOMAIN tables \cup {n}
      /\ \A m \in DOMAIN tables \cup {n} : tables'[m] = IF m = n THEN r ELSE tables[m]
  BY DEF Put
<1>2. /\ DOMAIN database' = DOMAIN database \cup {n}
      /\ \A m \in DOMAIN database \cup {n} :
            database'[m] = IF m = n THEN q ELSE database[m]
  BY DEF Put
<1>3. Matching(tables', database')
  <2>1. DOMAIN tables' = DOMAIN database'
    BY <1>1, <1>2 DEF Matching
  <2>2. ASSUME NEW m \in DOMAIN database'
        PROVE  /\ SameNames(tables'[m].columns, database'[m].columns)
               /\ tables'[m].kind = IndexKind(database'[m].kind)
    <3>1. CASE m = n
      BY <1>1, <1>2, <3>1
    <3>2. CASE m # n
      <4>1. m \in DOMAIN database /\ m \in DOMAIN tables
        BY <1>2, <3>2 DEF Matching
      <4>2. tables'[m] = tables[m] /\ database'[m] = database[m]
        BY <1>1, <1>2, <3>2, <4>1
      <4> QED
        BY <4>1, <4>2 DEF Matching
    <3> QED
      BY <3>1, <3>2
  <2> QED
    BY <2>1, <2>2 DEF Matching
<1>4. ASSUME Located(tables, database), r.columns = q.columns, r.at = q.at
      PROVE  Located(tables', database')
  BY <1>1, <1>2, <1>4 DEF Located, Matching
<1> QED
  BY <1>3, <1>4

(* The same relation, removed from both.                                      *)
LEMMA WithoutMatches ==
  ASSUME Matching(tables, database), NEW n,
         tables' = Without(tables, {n}), database' = Without(database, {n})
  PROVE  /\ Matching(tables', database')
         /\ Located(tables, database) => Located(tables', database')
<1>1. /\ DOMAIN Without(tables, {n}) = DOMAIN tables \ {n}
      /\ \A m \in DOMAIN tables \ {n} : Without(tables, {n})[m] = tables[m]
  BY WithoutFacts
<1>2. /\ DOMAIN Without(database, {n}) = DOMAIN database \ {n}
      /\ \A m \in DOMAIN database \ {n} : Without(database, {n})[m] = database[m]
  BY WithoutFacts
<1>3. DOMAIN tables' = DOMAIN database'
  BY <1>1, <1>2 DEF Matching
<1>4. \A m \in DOMAIN database' :
         /\ m \in DOMAIN database
         /\ tables'[m] = tables[m] /\ database'[m] = database[m]
  BY <1>1, <1>2 DEF Matching
<1>5. Matching(tables', database')
  BY <1>3, <1>4 DEF Matching
<1>6. Located(tables, database) => Located(tables', database')
  BY <1>3, <1>4 DEF Located
<1> QED
  BY <1>5, <1>6

(* The columns of a relation, changed in both.                                *)
LEMMA AlterMatches ==
  ASSUME Matching(tables, database), DatabaseType, NEW n \in DOMAIN database,
         NEW r, NEW columns,
         tables' = IF n \in DOMAIN tables THEN [tables EXCEPT ![n] = r] ELSE tables,
         database' = [database EXCEPT ![n].columns = columns],
         r.kind = tables[n].kind, r.at = tables[n].at, SameNames(r.columns, columns)
  PROVE  /\ Matching(tables', database')
         /\ Located(tables, database) /\ r.columns = columns
              => Located(tables', database')
<1>1. /\ DOMAIN tables' = DOMAIN tables
      /\ \A m \in DOMAIN database : tables'[m] = IF m = n THEN r ELSE tables[m]
  BY DEF Matching
<1>2. /\ DOMAIN database' = DOMAIN database
      /\ \A m \in DOMAIN database :
           /\ database'[m].columns = IF m = n THEN columns ELSE database[m].columns
           /\ database'[m].kind = database[m].kind
           /\ database'[m].at = database[m].at
  BY AlterFacts
<1>3. Matching(tables', database')
  BY <1>1, <1>2 DEF Matching
<1>4. ASSUME Located(tables, database), r.columns = columns
      PROVE  Located(tables', database')
  BY <1>1, <1>2, <1>4 DEF Located
<1> QED
  BY <1>3, <1>4

LEMMA SameAsItself ==
  ASSUME NEW s
  PROVE  SameNames(s, s)
BY DEF SameNames

(* What a statement that the index supports does to an index that matches.    *)
Keeps == /\ Matching(tables', database')
         /\ Located(tables, database) /\ "join" \notin Statements
              => Located(tables', database')

LEMMA CreateTableMatches ==
  ASSUME ReplayInv, Matching(tables, database), NEW n, NEW columns, NEW ifNotExists,
         CreateTable(n, columns, ifNotExists)
  PROVE  Keeps
<1>1. CASE Exists(n)
  <2>1. ifNotExists /\ database' = database /\ n \in DOMAIN tables
    BY <1>1 DEF CreateTable, Exists, Matching
  <2>2. tables' = tables
    BY <2>1 DEF CreateTable, ApplyCreate
  <2> QED
    BY <2>1, <2>2 DEF Keeps
<1>2. CASE ~Exists(n)
  <2> DEFINE r == [kind |-> "table", columns |-> Named(columns), at |-> step']
             q == [kind |-> "table", columns |-> Named(columns), at |-> step',
                   uses |-> {}]
  <2>1. n \notin DOMAIN tables
    BY <1>2 DEF Exists, Matching
  <2>2. tables' = Put(tables, n, r) /\ database' = Put(database, n, q)
    BY <1>2, <2>1 DEF CreateTable, ApplyCreate, InsertTable, Store
  <2>3. /\ r.columns = q.columns /\ r.at = q.at
        /\ r.kind = IndexKind(q.kind)
    BY DEF IndexKind
  <2>4. SameNames(r.columns, q.columns)
    BY <2>3, SameAsItself
  <2> HIDE DEF r, q
  <2> QED
    BY <2>2, <2>3, <2>4, PutMatches DEF Keeps
<1> QED
  BY <1>1, <1>2

(* The three forms of CREATE ... AS create the same columns.                  *)
LEMMA CreateAsMatches ==
  ASSUME Matching(tables, database), NEW n, NEW kind, NEW derived, NEW columns,
         NEW uses, ApplyCreate(n, IndexKind(kind), derived, FALSE),
         Store(n, kind, columns, uses), SameNames(derived, columns)
  PROVE  /\ Matching(tables', database')
         /\ Located(tables, database) /\ derived = columns
              => Located(tables', database')
<1> DEFINE r == [kind |-> IndexKind(kind), columns |-> derived, at |-> step']
           q == [kind |-> kind, columns |-> columns, at |-> step', uses |-> uses]
<1>1. tables' = Put(tables, n, r) /\ database' = Put(database, n, q)
  BY DEF ApplyCreate, InsertTable, Store
<1>2. /\ r.columns = derived /\ q.columns = columns /\ r.at = q.at
      /\ r.kind = IndexKind(q.kind)
  OBVIOUS
<1> HIDE DEF r, q
<1> QED
  BY <1>1, <1>2, PutMatches

LEMMA CreateViewMatches ==
  ASSUME ReplayInv, Matching(tables, database), NEW n, NEW columns, NEW m,
         CreateView(n, columns, m) \/ ReplaceView(n, columns, m)
  PROVE  Keeps
<1> DEFINE named == Named(columns)
<1>1. /\ ApplyCreate(n, IndexKind("view"), named, FALSE)
      /\ Store(n, "view", named, {m})
  BY DEF CreateView, ReplaceView, IndexKind
<1>2. SameNames(named, named)
  BY SameAsItself
<1> HIDE DEF named
<1> QED
  BY <1>1, <1>2, CreateAsMatches DEF Keeps

LEMMA ReplaceTableMatches ==
  ASSUME ReplayInv, Matching(tables, database), NEW n, NEW columns,
         ReplaceTable(n, columns)
  PROVE  Keeps
<1> DEFINE named == Named(columns)
<1>1. /\ ApplyCreate(n, IndexKind("table"), named, FALSE)
      /\ Store(n, "table", named, {})
  BY DEF ReplaceTable, IndexKind
<1>2. SameNames(named, named)
  BY SameAsItself
<1> HIDE DEF named
<1> QED
  BY <1>1, <1>2, CreateAsMatches DEF Keeps

(* Wildcards over the same columns yield the same columns.                    *)
LEMMA ConcatSame ==
  ASSUME NEW s \in Seq(Columns), NEW t \in Seq(Columns),
         NEW u \in Seq(Columns), NEW v \in Seq(Columns),
         SameNames(s, u), SameNames(t, v)
  PROVE  SameNames(s \o t, u \o v)
<1>1. /\ Len(s \o t) = Len(s) + Len(t)
      /\ \A i \in 1..Len(s) + Len(t) :
           (s \o t)[i] = IF i <= Len(s) THEN s[i] ELSE t[i - Len(s)]
  BY ConcatProperties
<1>2. /\ Len(u \o v) = Len(u) + Len(v)
      /\ \A i \in 1..Len(u) + Len(v) :
           (u \o v)[i] = IF i <= Len(u) THEN u[i] ELSE v[i - Len(u)]
  BY ConcatProperties
<1>3. Len(s) \in Nat /\ Len(t) \in Nat /\ Len(u) = Len(s) /\ Len(v) = Len(t)
  BY DEF SameNames
<1>4. ASSUME NEW i \in 1..Len(s) + Len(t)
      PROVE  (s \o t)[i].name = (u \o v)[i].name
  <2>1. CASE i <= Len(s)
    <3>1. i \in 1..Len(s)
      BY <1>3, <2>1
    <3> QED
      BY <1>1, <1>2, <1>3, <2>1, <3>1 DEF SameNames
  <2>2. CASE ~(i <= Len(s))
    <3>1. i - Len(s) \in 1..Len(t)
      BY <1>3, <2>2
    <3> QED
      BY <1>1, <1>2, <1>3, <2>2, <3>1 DEF SameNames
  <2> QED
    BY <2>1, <2>2
<1> QED
  BY <1>1, <1>2, <1>3, <1>4 DEF SameNames

LEMMA CreateAsWildcardMatches ==
  ASSUME ReplayInv, Matching(tables, database), NEW n, NEW kind,
         NEW from \in FromClauses, CreateAsWildcard(n, kind, from)
  PROVE  Keeps
<1>0. TablesType /\ DatabaseType
  BY ReplayParts
<1> DEFINE columns == FlattenSeq(Existing(from))
           derived == DeriveWildcard(from)
<1>1. /\ \A i \in DOMAIN from : from[i] \in DOMAIN database
      /\ ApplyCreate(n, IndexKind(kind), derived, FALSE)
      /\ Store(n, kind, columns, UsesOf(kind, from))
  BY DEF CreateAsWildcard, Exists, Existing
<1>2. /\ Known(from) \in [DOMAIN from -> Seq(Columns)]
      /\ Existing(from) \in [DOMAIN from -> Seq(Columns)]
      /\ derived = FlattenSeq(Known(from))
  BY <1>0, <1>1, WildcardTypes DEF Exists
<1>3. \A i \in DOMAIN from : SameNames(Known(from)[i], Existing(from)[i])
  BY <1>1 DEF Known, Existing, Matching
<1>4. Located(tables, database) => Known(from) = Existing(from)
  BY <1>1 DEF Known, Existing, Located, Matching
<1>5. SameNames(derived, columns)
  <2>1. CASE DOMAIN from = 1..1
    <3>1. derived = Known(from)[1] /\ columns = Existing(from)[1]
      <4>1. 1..1 # 1..2
        <5>1. 2 \in 1..2 /\ 2 \notin 1..1
          OBVIOUS
        <5> QED
          BY <5>1
      <4> QED
        BY <1>2, <2>1, <4>1, FlattenFrom
    <3> QED
      BY <1>3, <2>1, <3>1
  <2>2. CASE DOMAIN from = 1..2
    <3>1. /\ derived = Known(from)[1] \o Known(from)[2]
          /\ columns = Existing(from)[1] \o Existing(from)[2]
      <4>1. 1..1 # 1..2
        <5>1. 2 \in 1..2 /\ 2 \notin 1..1
          OBVIOUS
        <5> QED
          BY <5>1
      <4> QED
        BY <1>2, <2>2, <4>1, FlattenFrom
    <3>2. /\ Known(from)[1] \in Seq(Columns) /\ Known(from)[2] \in Seq(Columns)
          /\ Existing(from)[1] \in Seq(Columns) /\ Existing(from)[2] \in Seq(Columns)
      BY <1>2, <2>2
    <3>3. /\ SameNames(Known(from)[1], Existing(from)[1])
          /\ SameNames(Known(from)[2], Existing(from)[2])
      BY <1>3, <2>2
    <3> QED
      BY <3>1, <3>2, <3>3, ConcatSame
  <2> QED
    BY <2>1, <2>2, FromFacts
<1>6. Located(tables, database) => derived = columns
  BY <1>2, <1>4
<1> HIDE DEF derived, columns
<1> QED
  BY <1>1, <1>5, <1>6, CreateAsMatches DEF Keeps

(* Relations of the same names have the same.                                 *)
LEMMA SameHave ==
  ASSUME NEW r, NEW q, r.columns \in Seq(Columns), q.columns \in Seq(Columns),
         SameNames(r.columns, q.columns), NEW c
  PROVE  HasColumn(r, c) <=> HasColumn(q, c)
<1>1. DOMAIN r.columns = 1..Len(r.columns) /\ DOMAIN q.columns = 1..Len(r.columns)
  BY DEF SameNames
<1> QED
  BY <1>1 DEF HasColumn, ColumnSet, SameNames

LEMMA CreateAsColumnMatches ==
  ASSUME ReplayInv, Matching(tables, database), NEW n, NEW kind,
         NEW from \in FromClauses, NEW m, NEW c \in ColumnNames,
         CreateAsColumn(n, kind, from, m, c)
  PROVE  Keeps
<1>0. TablesType /\ DatabaseType
  BY ReplayParts
<1> DEFINE columns == <<ColumnNamed(database[m], c)>>
           derived == DeriveColumn(from, c)
<1>1. /\ m \in DOMAIN database /\ HasColumn(database[m], c)
      /\ \E i \in DOMAIN from : from[i] = m
      /\ ApplyCreate(n, IndexKind(kind), derived, FALSE)
      /\ Store(n, kind, columns, UsesOf(kind, from))
  BY DEF CreateAsColumn, Exists, ToSet
<1>2. \A i \in DOMAIN from :
        /\ from[i] \in DOMAIN database
        /\ "join" \notin Statements /\ HasColumn(database[from[i]], c) => from[i] = m
  BY DEF CreateAsColumn, Exists
<1>3. \A v \in DOMAIN database :
        /\ v \in DOMAIN tables
        /\ database[v].columns \in Seq(Columns)
        /\ tables[v].columns \in Seq(Columns)
        /\ SameNames(tables[v].columns, database[v].columns)
  BY <1>0 DEF Matching, TablesType, DatabaseType, TableRecords, Relations
<1>4. \A v \in DOMAIN database : HasColumn(tables[v], c) <=> HasColumn(database[v], c)
  BY <1>3, SameHave
<1>5. ColumnNamed(database[m], c).name = c
  BY <1>1, <1>3, ColumnNamedFacts
<1>6. PICK i \in DOMAIN from :
        /\ HasColumn(tables[from[i]], c)
        /\ derived = <<ColumnNamed(tables[from[i]], c)>>
  BY <1>0, <1>1, <1>2, <1>3, <1>4, DeriveColumnFacts
<1>7. SameNames(derived, columns)
  <2>1. derived[1].name = c /\ Len(derived) = 1
    BY <1>0, DeriveColumnFacts
  <2>2. columns[1].name = c /\ Len(columns) = 1
    BY <1>5
  <2> HIDE DEF derived, columns
  <2> QED
    BY <2>1, <2>2 DEF SameNames
<1>8. ASSUME Located(tables, database), "join" \notin Statements
      PROVE  derived = columns
  <2>1. from[i] = m
    BY <1>2, <1>4, <1>6, <1>8
  <2>2. tables[m].columns = database[m].columns
    BY <1>1, <1>8 DEF Located
  <2>3. ColumnNamed(tables[m], c) = ColumnNamed(database[m], c)
    BY <2>2 DEF ColumnNamed, Position
  <2> QED
    BY <1>6, <2>1, <2>3
<1> HIDE DEF derived, columns
<1> QED
  BY <1>1, <1>7, <1>8, CreateAsMatches DEF Keeps

LEMMA DropMatches ==
  ASSUME ReplayInv, Matching(tables, database), NEW n, Drop(n)
  PROVE  Keeps
BY WithoutMatches DEF Drop, ApplyDrop, Keeps

(* What an alteration finds: the relation in both, with the same columns.     *)
LEMMA Altered ==
  ASSUME ReplayInv, Matching(tables, database), NEW n, IsTable(n)
  PROVE  /\ DatabaseType
         /\ n \in DOMAIN database /\ n \in DOMAIN tables
         /\ tables[n] \in TableRecords
         /\ tables[n].columns \in Seq(Columns)
         /\ database[n].columns \in Seq(Columns)
         /\ Distinct(database[n].columns)
         /\ SameNames(tables[n].columns, database[n].columns)
         /\ Located(tables, database) => tables[n].columns = database[n].columns
BY ReplayParts DEF TablesType, DatabaseType, TableRecords, Relations, Matching,
   Located, IsTable, Exists

LEMMA AddColumnMatches ==
  ASSUME ReplayInv, Matching(tables, database), NEW n, NEW c \in ColumnNames,
         NEW ifNotExists, AlterAddColumn(n, c, ifNotExists)
  PROVE  Keeps
<1> DEFINE s == tables[n].columns
           t == database[n].columns
           column == [name |-> c, at |-> step']
           r == AddColumn(tables[n], c, ifNotExists)
<1>1. IsTable(n) /\ Statement("add")
  BY DEF AlterAddColumn
<1>2. /\ DatabaseType /\ n \in DOMAIN database /\ n \in DOMAIN tables
      /\ tables[n] \in TableRecords
      /\ s \in Seq(Columns) /\ t \in Seq(Columns) /\ SameNames(s, t)
      /\ Located(tables, database) => s = t
  BY <1>1, Altered
<1>3. HasColumn(tables[n], c) <=> HasColumn(database[n], c)
  BY <1>2, SameHave
<1>4. tables' = IF n \in DOMAIN tables THEN [tables EXCEPT ![n] = r] ELSE tables
  BY DEF AlterAddColumn, ApplyAlter
<1>5. CASE HasColumn(database[n], c)
  <2>1. ifNotExists /\ database' = database
    BY <1>5 DEF AlterAddColumn
  <2>2. r = tables[n]
    BY <1>3, <1>5, <2>1 DEF AddColumn
  <2>3. DOMAIN tables' = DOMAIN tables /\ \A m \in DOMAIN tables : tables'[m] = tables[m]
    <3> HIDE DEF r
    <3> QED
      BY <1>4, <2>2
  <2> QED
    BY <2>1, <2>3 DEF Keeps, Matching, Located
<1>6. CASE ~HasColumn(database[n], c)
  <2>1. database' = [database EXCEPT ![n].columns = Append(t, column)]
    BY <1>6 DEF AlterAddColumn
  <2>2. r = [tables[n] EXCEPT !.columns = Append(s, column)]
    BY <1>3, <1>6 DEF AddColumn
  <2>3. /\ r.columns = Append(s, column) /\ r.kind = tables[n].kind
        /\ r.at = tables[n].at
    <3> HIDE DEF r, s, column
    <3> QED
      BY <1>2, <2>2 DEF TableRecords
  <2>4. column \in Columns
    BY <1>1, NextStep DEF Columns
  <2>5. SameNames(Append(s, column), Append(t, column))
    <3> HIDE DEF s, t, column
    <3>1. /\ Len(Append(s, column)) = Len(s) + 1
          /\ \A i \in 1..Len(s) : Append(s, column)[i] = s[i]
          /\ Append(s, column)[Len(s) + 1] = column
      BY <1>2, <2>4, AppendProperties
    <3>2. /\ Len(Append(t, column)) = Len(t) + 1
          /\ \A i \in 1..Len(t) : Append(t, column)[i] = t[i]
          /\ Append(t, column)[Len(t) + 1] = column
      BY <1>2, <2>4, AppendProperties
    <3>3. Len(s) \in Nat /\ Len(t) = Len(s)
      BY <1>2 DEF SameNames
    <3>4. \A i \in 1..Len(s) + 1 : i \in 1..Len(s) \/ i = Len(s) + 1
      BY <3>3
    <3> QED
      BY <1>2, <3>1, <3>2, <3>3, <3>4 DEF SameNames
  <2>6. SameNames(r.columns, Append(t, column))
    BY <2>3, <2>5
  <2>7. Located(tables, database) => r.columns = Append(t, column)
    BY <1>2, <2>3
  <2> HIDE DEF r, s, t, column
  <2> QED
    BY <1>2, <1>4, <2>1, <2>3, <2>6, <2>7, AlterMatches DEF Keeps
<1> QED
  BY <1>5, <1>6

LEMMA DropColumnMatches ==
  ASSUME ReplayInv, Matching(tables, database), NEW n, NEW c, AlterDropColumn(n, c)
  PROVE  Keeps
<1> DEFINE s == tables[n].columns
           t == database[n].columns
           r == DropColumn(tables[n], c)
           columns == Retained(t, c)
<1>1. IsTable(n)
  BY DEF AlterDropColumn
<1>2. /\ DatabaseType /\ n \in DOMAIN database /\ tables[n] \in TableRecords
      /\ s \in Seq(Columns) /\ t \in Seq(Columns) /\ SameNames(s, t)
      /\ Located(tables, database) => s = t
  BY <1>1, Altered
<1>3. tables' = IF n \in DOMAIN tables THEN [tables EXCEPT ![n] = r] ELSE tables
  BY DEF AlterDropColumn, ApplyAlter
<1>4. database' = [database EXCEPT ![n].columns = columns]
  BY DEF AlterDropColumn
<1>5. /\ r.columns = Retained(s, c) /\ r.kind = tables[n].kind
      /\ r.at = tables[n].at
  BY <1>2 DEF DropColumn, TableRecords
<1>6. SameNames(r.columns, columns)
  <2>1. SameNames(Retained(s, c), Retained(t, c))
    <3> HIDE DEF s, t
    <3> QED
      BY <1>2, RetainedSame
  <2> QED
    BY <1>5, <2>1
<1>7. Located(tables, database) => r.columns = columns
  BY <1>2, <1>5
<1> HIDE DEF r, columns
<1> QED
  BY <1>2, <1>3, <1>4, <1>5, <1>6, <1>7, AlterMatches DEF Keeps

LEMMA RenameColumnMatches ==
  ASSUME ReplayInv, Matching(tables, database), NEW n,
         NEW old \in ColumnNames, NEW new \in ColumnNames,
         AlterRenameColumn(n, old, new)
  PROVE  Keeps
<1> DEFINE s == tables[n].columns
           t == database[n].columns
           p == Position(tables[n], old)
           named == [name |-> new, at |-> step']
           r == RenameColumn(tables[n], old, new)
           columns == Renaming(t, old, new)
           renamed == [s EXCEPT ![p] = named]
<1>1. IsTable(n) /\ HasColumn(database[n], old) /\ Statement("rename_column")
  BY DEF AlterRenameColumn, RenamedColumn
<1>2. /\ DatabaseType /\ n \in DOMAIN database /\ tables[n] \in TableRecords
      /\ s \in Seq(Columns) /\ t \in Seq(Columns) /\ Distinct(t) /\ SameNames(s, t)
      /\ Located(tables, database) => s = t
  BY <1>1, Altered
<1>3. tables' = IF n \in DOMAIN tables THEN [tables EXCEPT ![n] = r] ELSE tables
  BY DEF AlterRenameColumn, ApplyAlter
<1>4. database' = [database EXCEPT ![n].columns = columns]
  BY DEF AlterRenameColumn, RenamedColumn, Renaming
<1>5. HasColumn(tables[n], old)
  BY <1>1, <1>2, SameHave
<1>6. p \in 1..Len(s) /\ s[p].name = old
  BY <1>2, <1>5, ColumnNamedFacts
<1>7. \A i \in 1..Len(s) : i = p <=> t[i].name = old
  <2>1. DOMAIN t = 1..Len(s) /\ \A i \in 1..Len(s) : t[i].name = s[i].name
    BY <1>2 DEF SameNames
  <2> HIDE DEF s, t, p
  <2> QED
    BY <1>2, <1>6, <2>1 DEF Distinct
<1>8. named \in Columns
  BY <1>1, NextStep DEF Columns
<1>9. /\ renamed \in Seq(Columns) /\ Len(renamed) = Len(s)
      /\ \A i \in 1..Len(s) : renamed[i] = IF i = p THEN named ELSE s[i]
  <2> HIDE DEF named, s, p
  <2> QED
    BY <1>2, <1>6, <1>8, ExceptSeq
<1>10. /\ columns \in Seq(Columns) /\ Len(columns) = Len(s)
       /\ \A i \in 1..Len(s) : columns[i] = IF i = p THEN named ELSE t[i]
  <2>1. step' \in 0..MaxSteps
    BY <1>1, NextStep
  <2>2. columns \in Seq(Columns) /\ Len(columns) = Len(t)
    BY <1>2, <2>1, RenamingFacts
  <2>3. \A i \in 1..Len(s) : i \in DOMAIN t
    BY <1>2 DEF SameNames
  <2>4. \A i \in DOMAIN t : columns[i] = IF t[i].name = old THEN named ELSE t[i]
    BY DEF Renaming
  <2> HIDE DEF columns, s, t, p, named
  <2> QED
    BY <1>2, <1>7, <2>2, <2>3, <2>4 DEF SameNames
<1>11. SameNames(renamed, columns)
  <2> HIDE DEF columns, renamed, s, t, p, named
  <2> QED
    BY <1>2, <1>9, <1>10 DEF SameNames
<1>12. r = [tables[n] EXCEPT !.columns = renamed]
  BY <1>5 DEF RenameColumn
<1>13. /\ r.columns = renamed /\ r.kind = tables[n].kind /\ r.at = tables[n].at
  <2> HIDE DEF r, renamed
  <2> QED
    BY <1>2, <1>12 DEF TableRecords
<1>14. Located(tables, database) => r.columns = columns
  <2> SUFFICES ASSUME Located(tables, database) PROVE renamed = columns
    BY <1>13
  <2>1. s = t
    BY <1>2
  <2>2. \A i \in 1..Len(s) : renamed[i] = columns[i]
    <3> HIDE DEF columns, renamed, s, t, p, named
    <3> QED
      BY <1>9, <1>10, <2>1
  <2> HIDE DEF columns, renamed, s, t, p, named
  <2> QED
    BY <1>9, <1>10, <2>2, SeqEqual
<1>15. SameNames(r.columns, columns)
  BY <1>11, <1>13
<1> HIDE DEF r, columns, renamed, s, t, p, named
<1> QED
  BY <1>2, <1>3, <1>4, <1>13, <1>14, <1>15, AlterMatches DEF Keeps

LEMMA RenameMatches ==
  ASSUME ReplayInv, Matching(tables, database), NEW n \in Names, NEW m \in Names,
         AlterRename(n, m)
  PROVE  Keeps
<1>0. DatabaseType
  BY ReplayParts
<1>1. /\ DOMAIN database' = (DOMAIN database \ {n}) \cup {m}
      /\ m \notin DOMAIN database /\ n \in DOMAIN database
      /\ database[n] \in Relations
      /\ database'[m] = [database[n] EXCEPT !.at = step']
      /\ \A v \in DOMAIN database \ {n} :
            database'[v] =
              IF n \in database[v].uses
              THEN [database[v] EXCEPT !.uses = (database[v].uses \ {n}) \cup {m}]
              ELSE database[v]
  BY <1>0, RenameFacts DEF DatabaseType, AlterRename
<1>2. ApplyRename(n, m) /\ n \in DOMAIN tables /\ DOMAIN tables = DOMAIN database
  BY <1>1 DEF AlterRename, Matching
<1> DEFINE renamed == [tables[n] EXCEPT !.at = step']
           others == Without(tables, {n})
<1>3. tables' = Put(others, m, renamed)
  BY <1>2 DEF ApplyRename
<1>4. /\ DOMAIN others = DOMAIN tables \ {n}
      /\ \A v \in DOMAIN tables \ {n} : others[v] = tables[v]
  BY WithoutFacts
<1>5. tables[n] \in TableRecords
  BY <1>2, ReplayParts DEF TablesType
<1>6. /\ renamed.columns = tables[n].columns /\ renamed.kind = tables[n].kind
      /\ renamed.at = step'
  BY <1>5 DEF TableRecords
<1> HIDE DEF renamed, others
<1>7. /\ DOMAIN tables' = (DOMAIN tables \ {n}) \cup {m}
      /\ tables'[m] = renamed
      /\ \A v \in DOMAIN tables \ {n} : v # m => tables'[v] = tables[v]
  BY <1>3, <1>4 DEF Put
<1>8. /\ database'[m].columns = database[n].columns
      /\ database'[m].kind = database[n].kind
      /\ database'[m].at = step'
  BY <1>1 DEF Relations
<1>9. ASSUME NEW v \in DOMAIN database \ {n}
      PROVE  /\ database'[v].columns = database[v].columns
             /\ database'[v].kind = database[v].kind
             /\ database'[v].at = database[v].at
             /\ tables'[v] = tables[v]
  <2>1. database[v] \in Relations
    BY <1>0 DEF DatabaseType
  <2> QED
    BY <1>1, <1>2, <1>7, <2>1 DEF Relations
<1>10. DOMAIN tables' = DOMAIN database'
  BY <1>1, <1>2, <1>7
<1>11. Matching(tables', database')
  <2>1. ASSUME NEW v \in DOMAIN database'
        PROVE  /\ SameNames(tables'[v].columns, database'[v].columns)
               /\ tables'[v].kind = IndexKind(database'[v].kind)
    <3>1. CASE v = m
      BY <1>1, <1>6, <1>7, <1>8, <3>1 DEF Matching
    <3>2. CASE v # m
      <4>1. v \in DOMAIN database \ {n}
        BY <1>1, <3>2
      <4> QED
        BY <1>9, <4>1 DEF Matching
    <3> QED
      BY <3>1, <3>2
  <2> QED
    BY <1>10, <2>1 DEF Matching
<1>12. ASSUME Located(tables, database)
       PROVE  Located(tables', database')
  <2> SUFFICES ASSUME NEW v \in DOMAIN database'
               PROVE  /\ tables'[v].columns = database'[v].columns
                      /\ tables'[v].at = database'[v].at
    BY DEF Located
  <2>1. CASE v = m
    BY <1>1, <1>6, <1>7, <1>8, <1>12, <2>1 DEF Located
  <2>2. CASE v # m
    <3>1. v \in DOMAIN database \ {n}
      BY <1>1, <2>2
    <3> QED
      BY <1>9, <1>12, <3>1 DEF Located
  <2> QED
    BY <2>1, <2>2
<1> QED
  BY <1>11, <1>12 DEF Keeps

(* Every supported statement keeps the match.                                *)
LEMMA SupportedKeeps ==
  ASSUME ReplayInv, Matching(tables, database), SupportedStatement
  PROVE  Keeps
<1>1. ASSUME NEW n \in Names, NEW columns \in ColumnLists,
             \/ \E ifNotExists \in BOOLEAN : CreateTable(n, columns, ifNotExists)
             \/ \E m \in Names : CreateView(n, columns, m) \/ ReplaceView(n, columns, m)
             \/ ReplaceTable(n, columns)
      PROVE  Keeps
  BY <1>1, CreateTableMatches, CreateViewMatches, ReplaceTableMatches
<1>2. ASSUME NEW n \in Names, NEW from \in FromClauses,
             NEW kind \in {"table", "view", "materialized"},
             \/ CreateAsWildcard(n, kind, from)
             \/ \E m \in Names, c \in ColumnNames :
                   CreateAsColumn(n, kind, from, m, c)
      PROVE  Keeps
  BY <1>2, CreateAsWildcardMatches, CreateAsColumnMatches
<1>3. ASSUME NEW n \in Names, NEW c \in ColumnNames,
             \/ \E ifNotExists \in BOOLEAN : AlterAddColumn(n, c, ifNotExists)
             \/ AlterDropColumn(n, c)
             \/ \E new \in ColumnNames : AlterRenameColumn(n, c, new)
      PROVE  Keeps
  BY <1>3, AddColumnMatches, DropColumnMatches, RenameColumnMatches
<1>4. ASSUME NEW n \in Names, Drop(n) PROVE Keeps
  BY <1>4, DropMatches
<1>5. ASSUME NEW n \in Names, NEW m \in Names, AlterRename(n, m) PROVE Keeps
  BY <1>5, RenameMatches
<1> QED
  BY <1>1, <1>2, <1>3, <1>4, <1>5 DEF SupportedStatement

LEMMA MatchStep ==
  ASSUME ReplayInv, ReplayInv', IndexMatchesDatabase,
         SupportedStatement \/ UNCHANGED vars
  PROVE  /\ IndexMatchesDatabase'
         /\ LocationsAreDefinitions /\ "join" \notin Statements =>
              LocationsAreDefinitions'
<1>1. CASE UNCHANGED vars
  BY <1>1 DEF vars, IndexMatchesDatabase, LocationsAreDefinitions, ColumnNamesOf
<1>2. CASE SupportedStatement
  <2>1. /\ Matching(tables, database)
        /\ LocationsAreDefinitions => Located(tables, database)
    BY MatchNow
  <2>2. /\ Matching(tables', database')
        /\ Located(tables, database) /\ "join" \notin Statements
             => Located(tables', database')
    BY <1>2, <2>1, SupportedKeeps DEF Keeps
  <2>3. /\ IndexMatchesDatabase'
        /\ Located(tables', database') => LocationsAreDefinitions'
    BY <2>2, MatchNext
  <2> QED
    BY <2>1, <2>2, <2>3
<1> QED
  BY <1>1, <1>2

(* Whatever scripts are replayed, a statement that the index supports and     *)
(* that a database accepts leaves the index with the relations and columns of  *)
(* the database, in their order, if it had them before (ddl.rs, apply_sql).    *)
THEOREM SupportedStatementsMatch == Spec => SupportedStatementsKeepTheMatch
<1>1. ReplayInv /\ ReplayInv' /\ [Next]_vars =>
        [IndexMatchesDatabase => IndexMatchesDatabase' \/ ~SupportedStatement]_vars
  BY MatchStep
<1> QED
  BY <1>1, ReplayInvariant, PTL DEF Spec, SupportedStatementsKeepTheMatch

(* ... and, unless a column is selected from a join, with the location of      *)
(* every relation and column where its name was given to it.                  *)
THEOREM SupportedStatementsLocate ==
  ASSUME "join" \notin Statements
  PROVE  Spec => SupportedStatementsKeepLocations
<1>1. ReplayInv /\ ReplayInv' /\ [Next]_vars =>
        [IndexMatchesDatabase /\ LocationsAreDefinitions =>
           LocationsAreDefinitions' \/ ~SupportedStatement]_vars
  BY MatchStep
<1> QED
  BY <1>1, ReplayInvariant, PTL DEF Spec, SupportedStatementsKeepLocations

(* So a script without the statements that the index ignores, applies in part  *)
(* or takes for ones about another relation is replayed to the schema of the   *)
(* database.                                                                *)
THEOREM SupportedScriptsMatch ==
  ASSUME Statements \cap (Leaving \cup Misread) = {}
  PROVE  Spec => []IndexMatchesDatabase
<1>1. Init => IndexMatchesDatabase
  BY DEF Init, IndexMatchesDatabase
<1>2. ~LeavingStatement /\ ~MisreadStatement
  BY DEF LeavingStatement, MisreadStatement, DropMaterialized, DropCascade,
         AlterChangeColumn, CreateIgnored, RenameIgnored, Other, Statement,
         Leaving, Misread
<1>3. ReplayInv /\ ReplayInv' /\ IndexMatchesDatabase /\ [Next]_vars =>
        IndexMatchesDatabase'
  BY <1>2, MatchStep DEF Next
<1> QED
  BY <1>1, <1>3, ReplayInvariant, PTL DEF Spec
=============================================================================
