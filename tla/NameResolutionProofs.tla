------------------------- MODULE NameResolutionProofs -------------------------
(***************************************************************************)
(* What the visitor collects, for any schema and any documents.             *)
(*                                                                          *)
(* All statements are alike, so that the argument is about one: what has     *)
(* been collected for it and what is still to be visited is put together in  *)
(* one record (Now).  The point is that a name stands in the flat scope, or   *)
(* among the local relations, as soon as everything is visited: until then a *)
(* node that will bring it there is still to be visited (Known).            *)
(*                                                                          *)
(* With everything visited, a lookup of a name in a statement with plain      *)
(* names finds what the name means (ViaIsMeant, ColumnIsMeant): the reports   *)
(* are then the mistakes, and the references of a thing its occurrences.      *)
(***************************************************************************)
EXTENDS NameResolution, FiniteSetTheorems, SequenceTheorems, WellFoundedInduction, TLAPS

(* Numbers.  Induction comes from their well-founded order, that is, a set of *)
(* numbers has a least; what holds of all numbers is stated as a set.         *)
LEMMA LeastNumber ==
  ASSUME NEW S, S \subseteq Nat, S # {}
  PROVE  \E m \in S : \A k \in S : m <= k
<1>1. PICK m \in S : \A k \in S : <<k, m>> \notin OpToRel(<, Nat)
  BY WFMin, NatLessThanWellFounded
<1>2. \A k \in S : ~(k < m)
  BY <1>1 DEF OpToRel
<1> QED
  BY <1>2

LEMMA MinIsLeast ==
  ASSUME NEW S, S \subseteq Nat, S # {}
  PROVE  Min(S) \in S /\ \A k \in S : Min(S) <= k
BY LeastNumber DEF Min

(* A set that has 0 and the successor of each of its numbers has them all.    *)
LEMMA CountUp ==
  ASSUME NEW S, 0 \in S, \A n \in Nat : n \in S => n + 1 \in S
  PROVE  \A n \in Nat : n \in S
<1> DEFINE T == Nat \ S
<1> SUFFICES T = {}
  OBVIOUS
<1>1. SUFFICES ASSUME T # {} PROVE FALSE
  OBVIOUS
<1>2. PICK m \in T : \A k \in T : m <= k
  BY <1>1, LeastNumber
<1>3. m # 0 /\ m - 1 \in Nat /\ m - 1 \in S
  BY <1>2
<1> QED
  BY <1>3
-----------------------------------------------------------------------------
(* Lists.                                                                   *)
LEMMA ListFacts ==
  ASSUME NEW s, IsList(s)
  PROVE  /\ Len(s) \in Nat /\ DOMAIN s = 1..Len(s)
         /\ \A x : x \in ToSet(s) <=> \E i \in 1..Len(s) : s[i] = x
         /\ s = <<>> => ToSet(s) = {}
BY DEF IsList, ToSet

LEMMA ListMade ==
  ASSUME NEW n \in Nat, NEW f, f = [i \in 1..n |-> f[i]]
  PROVE  IsList(f) /\ ToSet(f) = {f[i] : i \in 1..n}
BY DEF IsList, ToSet

LEMMA SeqIsList ==
  ASSUME NEW S, NEW s \in Seq(S)
  PROVE  IsList(s) /\ ToSet(s) \subseteq S
<1>1. Len(s) \in Nat /\ s = [i \in 1..Len(s) |-> s[i]] /\ \A i \in 1..Len(s) : s[i] \in S
  OBVIOUS
<1> QED
  BY <1>1, ListMade

LEMMA ConcatList ==
  ASSUME NEW a, NEW b, IsList(a), IsList(b)
  PROVE  IsList(a \o b) /\ ToSet(a \o b) = ToSet(a) \cup ToSet(b)
<1> DEFINE S == ToSet(a) \cup ToSet(b)
           c == a \o b
<1>1. a \in Seq(S) /\ b \in Seq(S)
  BY SeqMonotonic DEF IsList
<1> HIDE DEF S
<1>2. /\ c \in Seq(S) /\ Len(c) = Len(a) + Len(b)
      /\ \A i \in 1..Len(a) : c[i] = a[i]
      /\ \A i \in 1..Len(b) : c[Len(a) + i] = b[i]
      /\ \A i \in 1..Len(c) : i \in 1..Len(a) \/ \E j \in 1..Len(b) : i = Len(a) + j
  <2>1. c \in Seq(S) /\ Len(c) = Len(a) + Len(b)
        /\ \A i \in 1..(Len(a) + Len(b)) : c[i] = IF i <= Len(a) THEN a[i] ELSE b[i - Len(a)]
    BY <1>1, ConcatProperties
  <2>2. Len(a) \in Nat /\ Len(b) \in Nat
    BY <1>1
  <2>3. ASSUME NEW i \in 1..(Len(a) + Len(b))
        PROVE  i \in 1..Len(a) \/ \E j \in 1..Len(b) : i = Len(a) + j
    <3>1. CASE i > Len(a)
      <4>1. i - Len(a) \in 1..Len(b) /\ i = Len(a) + (i - Len(a))
        BY <2>2, <3>1
      <4> QED
        BY <4>1
    <3> QED
      BY <2>2, <3>1
  <2>4. \A i \in 1..Len(a) : i \in 1..(Len(a) + Len(b)) /\ i <= Len(a)
    BY <2>2
  <2>5. \A i \in 1..Len(b) : /\ Len(a) + i \in 1..(Len(a) + Len(b))
                             /\ ~(Len(a) + i <= Len(a)) /\ (Len(a) + i) - Len(a) = i
    BY <2>2
  <2> HIDE DEF c
  <2> QED
    BY <2>1, <2>3, <2>4, <2>5
<1>3. ToSet(c) \subseteq S
  BY <1>2, SeqIsList
<1>4. IsList(c)
  BY <1>2, SeqIsList
<1>5. ASSUME NEW x \in S PROVE x \in ToSet(c)
  <2>1. Len(a) \in Nat /\ Len(b) \in Nat
    BY <1>1
  <2>2. CASE x \in ToSet(a)
    <3>1. PICK i \in 1..Len(a) : a[i] = x
      BY <2>2, ListFacts
    <3>2. i \in 1..Len(c) /\ c[i] = x
      BY <1>2, <2>1, <3>1
    <3> QED
      BY <1>4, <3>2, ListFacts
  <2>3. CASE x \in ToSet(b)
    <3>1. PICK i \in 1..Len(b) : b[i] = x
      BY <2>3, ListFacts
    <3>2. Len(a) + i \in 1..Len(c) /\ c[Len(a) + i] = x
      BY <1>2, <2>1, <3>1
    <3> QED
      BY <1>4, <3>2, ListFacts
  <2> QED
    BY <1>5, <2>2, <2>3 DEF S
<1> QED
  BY <1>3, <1>4, <1>5 DEF S

LEMMA TailList ==
  ASSUME NEW s, IsList(s), s # <<>>
  PROVE  /\ IsList(Tail(s)) /\ Head(s) \in ToSet(s)
         /\ ToSet(Tail(s)) \subseteq ToSet(s)
         /\ ToSet(s) \subseteq ToSet(Tail(s)) \cup {Head(s)}
<1> DEFINE n == Len(s)
           t == Tail(s)
<1>1. s \in Seq(ToSet(s)) /\ n \in Nat
  BY DEF IsList
<1>2. /\ n >= 1 /\ t \in Seq(ToSet(s)) /\ Len(t) = n - 1
      /\ \A i \in 1..(n - 1) : t[i] = s[i + 1]
      /\ Head(s) = s[1]
  BY <1>1, HeadTailProperties
<1> HIDE DEF n, t
<1>3. IsList(t) /\ ToSet(t) \subseteq ToSet(s)
  BY <1>2, SeqIsList
<1>4. 1 \in 1..n /\ \A x : x \in ToSet(s) <=> \E i \in 1..n : s[i] = x
  BY <1>1, <1>2, ListFacts DEF n
<1>5. ASSUME NEW i \in 1..n, i # 1 PROVE s[i] \in ToSet(t)
  <2>1. i - 1 \in 1..(n - 1) /\ (i - 1) + 1 = i
    BY <1>1, <1>5
  <2>2. t[i - 1] = s[i]
    BY <1>2, <2>1
  <2> QED
    BY <1>2, <1>3, <2>1, <2>2, ListFacts
<1> QED
  BY <1>2, <1>3, <1>4, <1>5 DEF t
-----------------------------------------------------------------------------
(* What is known of one statement at some time: k.at is the statement, k.met   *)
(* the candidates, k.scope and k.own its scope and its local relations, and    *)
(* k.todo what is still to be visited of it.                                *)
IsRelation(k, m) == \/ m = Unknown
                    \/ \E t \in DOMAIN Schema : m = Stored(t)
                    \/ m = [name |-> m.name, columns |-> m.columns, at |-> k.at]

Named(k, n, m) == \E c \in k.met : c.kind = "table" /\ c.name = n /\ c.means = m

(* A name has been met, and leads to what it means.                           *)
Bound(k, n, m) ==
  /\ Named(k, n, m)
  /\ m # Unknown => n \in DOMAIN k.scope
  /\ IsLocal(m) => \E l \in k.own : l.name = m.name

(* A visit will bind the name.                                               *)
Promises(k, v, n, m) ==
  \/ v.kind = "relation" /\ n = v.node.relation /\ m = Look(v.context.relations, n)
  \/ v.kind = "factor" /\ n = RangeName(v.node) /\ n # Nothing
     /\ m = FromRelation(v.node, v.context.relations, k.at)

Known(k, n, m) == /\ IsRelation(k, m)
                  /\ (Bound(k, n, m) \/ \E v \in k.todo : Promises(k, v, n, m))

RelationsFit(k, relations) ==
  /\ DOMAIN Schema \subseteq DOMAIN relations /\ DOMAIN relations \subseteq Names
  /\ \A n \in DOMAIN relations :
       \/ n \in DOMAIN Schema /\ relations[n] = Stored(n)
       \/ /\ relations[n] = [name |-> n, columns |-> relations[n].columns, at |-> k.at]
          /\ \E l \in k.own : l.name = n

RangesFit(k, ranges) ==
  \A n \in DOMAIN ranges : IF n = Nothing THEN ranges[n].name = Nothing
                            ELSE Known(k, n, ranges[n])

ContextFits(k, context) ==
  /\ context = [relations |-> context.relations, ranges |-> context.ranges]
  /\ RelationsFit(k, context.relations)
  /\ RangesFit(k, context.ranges)

CandidateFits(k, c) ==
  /\ c.at = k.at
  /\ c.kind \in {"table", "column"}
  /\ c.kind = "table" => Known(k, c.name, c.means)
  /\ c.kind = "column" =>
       /\ c.name # Nothing
       /\ IF c.qualifier # Nothing THEN Known(k, c.qualifier, c.means)
          ELSE c.means.name = Nothing \/ \E n : Known(k, n, c.means)

(* What a relation means to the scope: its name there.                        *)
Leads(m, n) == IF m = Unknown THEN n \notin DOMAIN Schema ELSE n = m.name

ScopeFits(k, n) ==
  /\ n \in Names /\ k.scope[n] \in Names
  /\ \E c \in k.met : c.kind = "table" /\ c.name = n /\ Leads(c.means, k.scope[n])

LocalFits(k, l) ==
  /\ l.name \in DOMAIN k.scope
  /\ \E c \in k.met : c.kind = "table" /\ c.name = l.name
                      /\ c.means.name = l.name /\ IsLocal(c.means)

IsNode(v) == \/ v.kind = "query" /\ v.node \in Queries
             \/ v.kind = "relation" /\ v.node.relation \in Names
             \/ v.kind = "factor" /\ IsFactor(v.node)
             \/ v.kind = "expr" /\ v.node.column # Nothing

VisitFits(k, v) == IsNode(v) /\ ContextFits(k, v.context)

StatementFits(k) ==
  /\ \A c \in k.met : CandidateFits(k, c)
  /\ \A n \in DOMAIN k.scope : ScopeFits(k, n)
  /\ \A l \in k.own : LocalFits(k, l)
  /\ \A v \in k.todo : VisitFits(k, v)

(* What all statements have.                                                 *)
Now(s) == [at |-> s, met |-> Mentions(s), scope |-> scopes[s], own |-> ToSet(locals[s]),
           todo |-> IF s = current THEN ToSet(todo) ELSE {}]

NotLater(s, t) == s[1] < t[1] \/ (s[1] = t[1] /\ s[2] <= t[2])

Shaped ==
  /\ document \in Documents
  /\ IsList(candidates) /\ IsList(todo)
  /\ current \in Statements \cup {None}
  /\ current # None => current \in DOMAIN scopes
  /\ todo # <<>> => current # None
  /\ DOMAIN scopes \subseteq Statements /\ DOMAIN locals = DOMAIN scopes
  /\ \A s \in DOMAIN scopes : NotLater(s, current) /\ IsList(locals[s])
  /\ \A c \in ToSet(candidates) : c.at \in DOMAIN scopes

Sound == Shaped /\ \A s \in DOMAIN scopes : StatementFits(Now(s))
-----------------------------------------------------------------------------
(* Relations.                                                               *)
LEMMA StoredFacts ==
  ASSUME NEW t \in DOMAIN Schema
  PROVE  /\ Stored(t).name = t /\ Stored(t).columns = Schema[t]
         /\ Stored(t).at = None /\ ~IsLocal(Stored(t))
         /\ t \in Names /\ t # Nothing /\ Stored(t) # Unknown
         /\ Indexed(t) = Stored(t)
<1>1. t \in Names /\ t # Nothing
  BY ResolutionAssumption
<1>2. Stored(t).name # Unknown.name
  BY <1>1 DEF Stored, Unknown
<1> QED
  BY <1>1, <1>2 DEF Stored, IsLocal, Indexed

LEMMA UnknownFacts ==
  /\ Unknown.name = Nothing /\ Unknown.columns = {} /\ Unknown.at = None /\ ~IsLocal(Unknown)
BY DEF Unknown, IsLocal

LEMMA RelationFacts ==
  ASSUME NEW k, k.at # None, NEW m, IsRelation(k, m)
  PROVE  /\ m = Unknown \/ m # Unknown
         /\ IsLocal(m) => /\ m = [name |-> m.name, columns |-> m.columns, at |-> k.at]
                          /\ m.at = k.at /\ m # Unknown
         /\ ~IsLocal(m) /\ m # Unknown => \E t \in DOMAIN Schema : m = Stored(t)
<1>1. CASE m = [name |-> m.name, columns |-> m.columns, at |-> k.at]
  <2>1. m.at = k.at
    BY <1>1
  <2> QED
    BY <1>1, <2>1, UnknownFacts DEF IsLocal
<1>2. CASE m = Unknown
  BY <1>2, UnknownFacts
<1>3. CASE \E t \in DOMAIN Schema : m = Stored(t)
  BY <1>3, StoredFacts
<1> QED
  BY <1>1, <1>2, <1>3 DEF IsRelation

LEMMA LookFacts ==
  ASSUME NEW k, k.at # None, NEW relations, RelationsFit(k, relations), NEW n
  PROVE  /\ IsRelation(k, Look(relations, n))
         /\ Leads(Look(relations, n), n)
         /\ IsLocal(Look(relations, n)) => \E l \in k.own : l.name = Look(relations, n).name
<1> DEFINE m == Look(relations, n)
<1>1. CASE n \in DOMAIN relations
  <2>1. m = relations[n]
    BY <1>1 DEF Look
  <2> HIDE DEF m
  <2>2. CASE n \in DOMAIN Schema /\ m = Stored(n)
    BY <2>2, StoredFacts DEF IsRelation, Leads, m
  <2>3. CASE m = [name |-> n, columns |-> m.columns, at |-> k.at] /\ \E l \in k.own : l.name = n
    <3>1. m.name = n /\ m.at = k.at
      BY <2>3
    <3>2. IsRelation(k, m)
      BY <2>3, <3>1 DEF IsRelation
    <3>3. m # Unknown
      BY <3>1, UnknownFacts
    <3> QED
      BY <2>3, <3>1, <3>2, <3>3 DEF Leads, m
  <2> QED
    BY <1>1, <2>1, <2>2, <2>3 DEF RelationsFit
<1>2. CASE n \notin DOMAIN relations
  <2>1. m = Unknown
    BY <1>2 DEF Look
  <2>2. n \notin DOMAIN Schema
    BY <1>2 DEF RelationsFit
  <2> QED
    BY <2>1, <2>2, UnknownFacts DEF IsRelation, Leads
<1> QED
  BY <1>1, <1>2

(* What a FROM item stands for.                                              *)
LEMMA FromFacts ==
  ASSUME NEW k, k.at # None, NEW relations, RelationsFit(k, relations),
         NEW f, IsFactor(f)
  PROVE  /\ IsRelation(k, FromRelation(f, relations, k.at))
         /\ RangeName(f) \in Names \cup {Nothing} /\ Nothing \notin Names
         /\ f.query = Nothing =>
              /\ RangeName(f) # Nothing
              /\ FromRelation(f, relations, k.at) = Look(relations, f.relation)
         /\ f.query # Nothing /\ f.alias # Nothing =>
              /\ f.alias \in Names /\ f.alias # Nothing /\ RangeName(f) = f.alias
              /\ FromRelation(f, relations, k.at).name = f.alias
              /\ IsLocal(FromRelation(f, relations, k.at))
<1>1. /\ RangeName(f) \in Names \cup {Nothing} /\ Nothing \notin Names
      /\ f.query = Nothing => RangeName(f) # Nothing
  BY ResolutionAssumption DEF IsFactor, RangeName
<1>2. CASE f.query = Nothing
  <2>1. FromRelation(f, relations, k.at) = Look(relations, f.relation)
    BY <1>2 DEF FromRelation
  <2> QED
    BY <1>1, <1>2, <2>1, LookFacts
<1>3. CASE f.query # Nothing
  <2> DEFINE m == FromRelation(f, relations, k.at)
  <2>1. m = [name |-> f.alias, at |-> k.at, columns |-> ColumnsOf(f.query, relations)]
    BY <1>3 DEF FromRelation
  <2>2. m.name = f.alias /\ m.at = k.at /\ m.columns = ColumnsOf(f.query, relations)
    BY <2>1
  <2>3. m = [name |-> m.name, columns |-> m.columns, at |-> k.at]
    BY <2>1, <2>2
  <2> HIDE DEF m
  <2>4. IsRelation(k, m) /\ IsLocal(m)
    BY <2>2, <2>3 DEF IsRelation, IsLocal
  <2>5. f.alias # Nothing => f.alias \in Names /\ RangeName(f) = f.alias
    BY <1>3 DEF IsFactor, RangeName
  <2> QED
    BY <1>1, <1>3, <2>2, <2>4, <2>5 DEF m
<1> QED
  BY <1>2, <1>3
-----------------------------------------------------------------------------
(* What is known stays known, if the visit of v keeps its promises.           *)
Grows(k, h, v) ==
  /\ h.at = k.at /\ k.at # None
  /\ k.met \subseteq h.met /\ DOMAIN k.scope \subseteq DOMAIN h.scope /\ k.own \subseteq h.own
  /\ k.todo \subseteq h.todo \cup {v}
  /\ \A n, m : Promises(k, v, n, m) /\ IsRelation(k, m) => Known(h, n, m)

LEMMA KnownGrows ==
  ASSUME NEW k, NEW h, NEW v, Grows(k, h, v), NEW n, NEW m, Known(k, n, m)
  PROVE  Known(h, n, m)
<1>1. IsRelation(k, m) /\ IsRelation(h, m)
  BY DEF Known, Grows, IsRelation
<1>2. CASE Bound(k, n, m)
  <2>1. Bound(h, n, m)
    BY <1>2 DEF Bound, Named, Grows
  <2> QED
    BY <1>1, <2>1 DEF Known
<1>3. CASE \E w \in k.todo : Promises(k, w, n, m)
  <2>1. PICK w \in k.todo : Promises(k, w, n, m)
    BY <1>3
  <2>2. CASE w = v
    BY <1>1, <2>1, <2>2 DEF Grows
  <2>3. CASE w # v
    <3>1. w \in h.todo /\ Promises(h, w, n, m)
      BY <2>1, <2>3 DEF Grows, Promises
    <3> QED
      BY <1>1, <3>1 DEF Known
  <2> QED
    BY <2>2, <2>3
<1> QED
  BY <1>2, <1>3 DEF Known

LEMMA ContextGrows ==
  ASSUME NEW k, NEW h, NEW v, Grows(k, h, v)
  PROVE  /\ \A relations : RelationsFit(k, relations) => RelationsFit(h, relations)
         /\ \A ranges : RangesFit(k, ranges) => RangesFit(h, ranges)
         /\ \A context : ContextFits(k, context) => ContextFits(h, context)
<1>1. ASSUME NEW relations, RelationsFit(k, relations) PROVE RelationsFit(h, relations)
  BY <1>1 DEF RelationsFit, Grows
<1>2. ASSUME NEW ranges, RangesFit(k, ranges) PROVE RangesFit(h, ranges)
  BY <1>2, KnownGrows DEF RangesFit
<1> QED
  BY <1>1, <1>2 DEF ContextFits

LEMMA CandidateGrows ==
  ASSUME NEW k, NEW h, NEW v, Grows(k, h, v), NEW c, CandidateFits(k, c)
  PROVE  CandidateFits(h, c)
<1>1. \A n, m : Known(k, n, m) => Known(h, n, m)
  BY KnownGrows
<1>2. h.at = k.at
  BY DEF Grows
<1> QED
  BY <1>1, <1>2 DEF CandidateFits

LEMMA StatementGrows ==
  ASSUME NEW k, NEW h, NEW v, StatementFits(k), Grows(k, h, v),
         \A c \in h.met : c \in k.met \/ CandidateFits(h, c),
         \A n \in DOMAIN h.scope :
           (n \in DOMAIN k.scope /\ h.scope[n] = k.scope[n]) \/ ScopeFits(h, n),
         \A l \in h.own : l \in k.own \/ LocalFits(h, l),
         \A w \in h.todo : w \in k.todo \/ VisitFits(h, w)
  PROVE  StatementFits(h)
<1>1. \A c \in h.met : CandidateFits(h, c)
  BY CandidateGrows DEF StatementFits
<1>2. \A n \in DOMAIN h.scope : ScopeFits(h, n)
  BY DEF StatementFits, ScopeFits, Grows
<1>3. \A l \in h.own : LocalFits(h, l)
  BY DEF StatementFits, LocalFits, Grows
<1>4. \A w \in h.todo : VisitFits(h, w)
  BY ContextGrows DEF StatementFits, VisitFits
<1> QED
  BY <1>1, <1>2, <1>3, <1>4 DEF StatementFits
-----------------------------------------------------------------------------
(* The visit of v: h is what k becomes.  New candidates are C, new local       *)
(* relations L and new nodes to visit W.                                     *)
Moves(k, h, v, C, L, W) ==
  /\ h.at = k.at /\ k.at # None
  /\ h.met = k.met \cup C
  /\ h.own = k.own \cup L
  /\ k.todo \subseteq h.todo \cup {v} /\ W \subseteq h.todo /\ h.todo \subseteq k.todo \cup W

LEMMA TableFacts ==
  ASSUME NEW s, NEW n, NEW m
  PROVE  /\ TableCandidate(s, n, m).kind = "table" /\ TableCandidate(s, n, m).at = s
         /\ TableCandidate(s, n, m).name = n /\ TableCandidate(s, n, m).means = m
BY DEF TableCandidate

LEMMA ColumnFacts ==
  ASSUME NEW s, NEW q, NEW n, NEW m
  PROVE  /\ ColumnCandidate(s, q, n, m).kind = "column" /\ ColumnCandidate(s, q, n, m).at = s
         /\ ColumnCandidate(s, q, n, m).qualifier = q
         /\ ColumnCandidate(s, q, n, m).name = n /\ ColumnCandidate(s, q, n, m).means = m
BY DEF ColumnCandidate

(* g is f with x leading to y.                                                *)
IsPut(g, f, x, y) ==
  /\ DOMAIN g = DOMAIN f \cup {x} /\ g[x] = y
  /\ \A z \in DOMAIN g : z = x \/ (z \in DOMAIN f /\ g[z] = f[z])

LEMMA PutFacts ==
  ASSUME NEW f, NEW x, NEW y
  PROVE  IsPut(Put(f, x, y), f, x, y)
BY DEF Put, IsPut

(* A relation that is named by its own name.                                  *)
LEMMA RelationVisited ==
  ASSUME NEW k, NEW h, NEW v, StatementFits(k), VisitFits(k, v), v.kind = "relation",
         NEW m, m = Look(v.context.relations, v.node.relation),
         Moves(k, h, v, {TableCandidate(k.at, v.node.relation, m)}, {}, {}),
         h.scope = Put(k.scope, v.node.relation, v.node.relation)
  PROVE  StatementFits(h)
<1> DEFINE n == v.node.relation
           c == TableCandidate(k.at, n, m)
<1>0. IsPut(h.scope, k.scope, n, n)
  BY PutFacts
<1>1. n \in Names /\ RelationsFit(k, v.context.relations)
  BY DEF VisitFits, IsNode, ContextFits
<1>2. /\ IsRelation(k, m) /\ Leads(m, n)
      /\ IsLocal(m) => \E l \in k.own : l.name = m.name
  BY <1>1, LookFacts DEF Moves
<1>3. c.kind = "table" /\ c.at = k.at /\ c.name = n /\ c.means = m
  BY TableFacts
<1>4. c \in h.met /\ h.at = k.at /\ k.at # None /\ k.own \subseteq h.own
  BY DEF Moves
<1>5. n \in DOMAIN h.scope /\ h.scope[n] = n
  BY <1>0 DEF IsPut
<1> HIDE DEF n, c
<1>6. Known(h, n, m)
  BY <1>2, <1>3, <1>4, <1>5 DEF Known, Bound, Named, IsRelation
<1>7. Grows(k, h, v)
  BY <1>0, <1>6 DEF IsPut, Grows, Moves, Promises, n
<1>8. CandidateFits(h, c)
  BY <1>3, <1>4, <1>6 DEF CandidateFits
<1>9. ScopeFits(h, n)
  BY <1>1, <1>2, <1>3, <1>4, <1>5 DEF ScopeFits
<1>10. \A x \in DOMAIN h.scope : (x \in DOMAIN k.scope /\ h.scope[x] = k.scope[x]) \/ ScopeFits(h, x)
  BY <1>0, <1>9 DEF IsPut
<1> QED
  BY <1>7, <1>8, <1>10, StatementGrows DEF Moves, c, n

(* A FROM item, with the scope that an alias makes of it.                     *)
LEMMA TableVisited ==
  ASSUME NEW k, NEW h, NEW v, StatementFits(k), VisitFits(k, v), v.kind = "factor",
         v.node.query = Nothing,
         NEW w, w.kind = "relation", w.node = v.node, w.context = v.context,
         NEW m, m = Look(v.context.relations, v.node.relation),
         NEW C, C = IF v.node.alias # Nothing
                    THEN {TableCandidate(k.at, v.node.alias, m)} ELSE {},
         Moves(k, h, v, C, {}, {w}),
         h.scope = IF v.node.alias # Nothing
                   THEN Put(k.scope, v.node.alias, v.node.relation) ELSE k.scope
  PROVE  StatementFits(h)
<1> DEFINE n == v.node.relation
           a == v.node.alias
           c == TableCandidate(k.at, a, m)
<1>0. IF a # Nothing THEN IsPut(h.scope, k.scope, a, n) ELSE h.scope = k.scope
  BY PutFacts
<1>1. n \in Names /\ RelationsFit(k, v.context.relations) /\ ContextFits(k, v.context)
      /\ IsFactor(v.node) /\ a \in Names \cup {Nothing}
  BY DEF VisitFits, IsNode, ContextFits, IsFactor
<1>2. /\ IsRelation(k, m) /\ Leads(m, n)
      /\ IsLocal(m) => \E l \in k.own : l.name = m.name
  BY <1>1, LookFacts DEF Moves
<1>3. c.kind = "table" /\ c.at = k.at /\ c.name = a /\ c.means = m
  BY TableFacts
<1>4. h.at = k.at /\ k.at # None /\ k.own \subseteq h.own /\ w \in h.todo
  BY DEF Moves
<1>5. FromRelation(v.node, v.context.relations, k.at) = m
      /\ RangeName(v.node) = IF a # Nothing THEN a ELSE n
  BY DEF FromRelation, RangeName
<1>6. IsNode(w)
  BY <1>1 DEF IsNode
<1> HIDE DEF n, c, a
<1>7. DOMAIN k.scope \subseteq DOMAIN h.scope
  BY <1>0 DEF IsPut
<1>8. CASE a # Nothing
  <2>1. a \in DOMAIN h.scope /\ h.scope[a] = n
    BY <1>0, <1>8 DEF IsPut
  <2>2. c \in h.met
    BY <1>8 DEF Moves, c, a
  <2>3. Known(h, a, m)
    BY <1>2, <1>3, <1>4, <2>1, <2>2 DEF Known, Bound, Named, IsRelation
  <2>4. Grows(k, h, v)
    BY <1>5, <1>7, <1>8, <2>3 DEF Grows, Moves, Promises
  <2>5. CandidateFits(h, c)
    BY <1>3, <1>4, <2>3 DEF CandidateFits
  <2>6. ScopeFits(h, a)
    BY <1>1, <1>2, <1>3, <1>4, <1>8, <2>1, <2>2 DEF ScopeFits
  <2>7. \A x \in DOMAIN h.scope :
          (x \in DOMAIN k.scope /\ h.scope[x] = k.scope[x]) \/ ScopeFits(h, x)
    BY <1>0, <1>8, <2>6 DEF IsPut
  <2>8. VisitFits(h, w)
    BY <1>1, <1>6, <2>4, ContextGrows DEF VisitFits
  <2>9. /\ \A x \in h.met : x \in k.met \/ CandidateFits(h, x)
        /\ \A l \in h.own : l \in k.own \/ LocalFits(h, l)
        /\ \A x \in h.todo : x \in k.todo \/ VisitFits(h, x)
    BY <1>8, <2>5, <2>8 DEF Moves, c, a
  <2> QED
    BY <2>4, <2>7, <2>9, StatementGrows
<1>9. CASE a = Nothing
  <2>1. Promises(h, w, n, m)
    BY DEF Promises, n
  <2>2. Known(h, n, m)
    BY <1>2, <1>4, <2>1 DEF Known, IsRelation
  <2>3. h.met = k.met /\ h.scope = k.scope /\ h.own = k.own
    BY <1>9 DEF Moves, a
  <2>4. Grows(k, h, v)
    BY <1>5, <1>7, <1>9, <2>2, <2>3 DEF Grows, Moves, Promises
  <2>5. VisitFits(h, w)
    BY <1>1, <1>6, <2>4, ContextGrows DEF VisitFits
  <2>6. \A x \in h.todo : x \in k.todo \/ VisitFits(h, x)
    BY <2>5 DEF Moves
  <2> QED
    BY <2>3, <2>4, <2>6, StatementGrows
<1> QED
  BY <1>8, <1>9

(* A derived table.                                                         *)
LEMMA DerivedVisited ==
  ASSUME NEW k, NEW h, NEW v, StatementFits(k), VisitFits(k, v), v.kind = "factor",
         v.node.query # Nothing, v.node.alias # Nothing,
         NEW w, w.kind = "query", w.node = v.node.query, w.context = v.context,
         NEW m, m = FromRelation(v.node, v.context.relations, k.at),
         NEW l, l.name = v.node.alias,
         Moves(k, h, v, {TableCandidate(k.at, v.node.alias, m)}, {l}, {w}),
         h.scope = Put(k.scope, v.node.alias, v.node.alias)
  PROVE  StatementFits(h)
<1> DEFINE a == v.node.alias
           c == TableCandidate(k.at, a, m)
<1>0. IsPut(h.scope, k.scope, a, a)
  BY PutFacts
<1>1. RelationsFit(k, v.context.relations) /\ ContextFits(k, v.context)
      /\ IsFactor(v.node) /\ v.node.query \in Queries
  BY DEF VisitFits, IsNode, ContextFits, IsFactor
<1>2. /\ IsRelation(k, m) /\ a \in Names /\ a # Nothing /\ RangeName(v.node) = a
      /\ m.name = a /\ IsLocal(m)
  BY <1>1, FromFacts DEF Moves
<1>3. c.kind = "table" /\ c.at = k.at /\ c.name = a /\ c.means = m
  BY TableFacts
<1>4. h.at = k.at /\ k.at # None /\ c \in h.met /\ l \in h.own /\ w \in h.todo
  BY DEF Moves
<1>5. a \in DOMAIN h.scope /\ h.scope[a] = a
  BY <1>0 DEF IsPut
<1>6. l.name = a
  OBVIOUS
<1>7. IsNode(w)
  BY <1>1 DEF IsNode
<1>8. m # Unknown
  BY <1>2, UnknownFacts
<1> HIDE DEF a, c
<1>9. Known(h, a, m)
  BY <1>2, <1>3, <1>4, <1>5, <1>6 DEF Known, Bound, Named, IsRelation
<1>10. Grows(k, h, v)
  BY <1>0, <1>2, <1>9 DEF IsPut, Grows, Moves, Promises, a
<1>11. CandidateFits(h, c)
  BY <1>3, <1>4, <1>9 DEF CandidateFits
<1>12. ScopeFits(h, a)
  BY <1>2, <1>3, <1>4, <1>5, <1>8 DEF ScopeFits, Leads
<1>13. LocalFits(h, l)
  BY <1>2, <1>3, <1>4, <1>5, <1>6 DEF LocalFits
<1>14. VisitFits(h, w)
  BY <1>1, <1>7, <1>10, ContextGrows DEF VisitFits
<1>15. \A x \in DOMAIN h.scope : (x \in DOMAIN k.scope /\ h.scope[x] = k.scope[x]) \/ ScopeFits(h, x)
  BY <1>0, <1>12 DEF IsPut
<1>16. /\ \A x \in h.met : x \in k.met \/ CandidateFits(h, x)
       /\ \A x \in h.own : x \in k.own \/ LocalFits(h, x)
       /\ \A x \in h.todo : x \in k.todo \/ VisitFits(h, x)
  BY <1>11, <1>13, <1>14 DEF Moves, c, a
<1> QED
  BY <1>10, <1>15, <1>16, StatementGrows

(* A derived table without an alias: its query is visited and nothing else.     *)
LEMMA NamelessVisited ==
  ASSUME NEW k, NEW h, NEW v, StatementFits(k), VisitFits(k, v), v.kind = "factor",
         v.node.query # Nothing, v.node.alias = Nothing,
         NEW w, w.kind = "query", w.node = v.node.query, w.context = v.context,
         Moves(k, h, v, {}, {}, {w}), h.scope = k.scope
  PROVE  StatementFits(h)
<1>1. ContextFits(k, v.context) /\ IsFactor(v.node)
  BY DEF VisitFits, IsNode
<1>2. v.node.query \in Queries /\ RangeName(v.node) = Nothing
  BY <1>1 DEF IsFactor, RangeName
<1>3. Grows(k, h, v)
  BY <1>2 DEF Grows, Moves, Promises
<1>4. VisitFits(h, w)
  BY <1>1, <1>2, <1>3, ContextGrows DEF VisitFits, IsNode
<1>5. /\ \A x \in h.met : x \in k.met
      /\ \A x \in h.own : x \in k.own
      /\ \A x \in h.todo : x \in k.todo \/ VisitFits(h, x)
  BY <1>4 DEF Moves
<1> QED
  BY <1>3, <1>5, StatementGrows
-----------------------------------------------------------------------------
(* Short lists.                                                             *)
LEMMA ShortLists ==
  /\ IsList(<<>>) /\ ToSet(<<>>) = {}
  /\ \A x : IsList(<<x>>) /\ ToSet(<<x>>) = {x}
  /\ \A x, y : IsList(<<x, y>>) /\ ToSet(<<x, y>>) = {x, y}
<1>1. IsList(<<>>) /\ ToSet(<<>>) = {}
  BY DEF ToSet, IsList
<1>2. ASSUME NEW x PROVE IsList(<<x>>) /\ ToSet(<<x>>) = {x}
  <2>1. <<x>> \in Seq({x}) /\ DOMAIN <<x>> = {1} /\ <<x>>[1] = x
    OBVIOUS
  <2>2. ToSet(<<x>>) = {x}
    BY <2>1 DEF ToSet
  <2> QED
    BY <2>1, <2>2 DEF IsList
<1>3. ASSUME NEW x, NEW y PROVE IsList(<<x, y>>) /\ ToSet(<<x, y>>) = {x, y}
  <2>1. <<x, y>> \in Seq({x, y}) /\ DOMAIN <<x, y>> = {1, 2}
        /\ <<x, y>>[1] = x /\ <<x, y>>[2] = y
    OBVIOUS
  <2>2. ToSet(<<x, y>>) = {x, y}
    BY <2>1 DEF ToSet
  <2> QED
    BY <2>1, <2>2 DEF IsList
<1> QED
  BY <1>1, <1>2, <1>3

(* What a column reference means is among the ranges.                         *)
LEMMA OwnerFits ==
  ASSUME NEW h, NEW ranges, RangesFit(h, ranges), NEW column
  PROVE  \/ OnlyOwner(column, ranges).name = Nothing
         \/ \E n : Known(h, n, OnlyOwner(column, ranges))
<1> DEFINE owners == {r \in {ranges[n] : n \in DOMAIN ranges} : column \in r.columns}
<1>1. OnlyOwner(column, ranges) =
        IF Cardinality(owners) = 1 THEN CHOOSE r \in owners : TRUE ELSE Unknown
  BY DEF OnlyOwner
<1>2. CASE Cardinality(owners) = 1
  <2>1. owners # {}
    BY <1>2, FS_EmptySet
  <2>2. OnlyOwner(column, ranges) \in owners
    BY <1>1, <1>2, <2>1
  <2> QED
    BY <2>2 DEF RangesFit
<1> QED
  BY <1>1, <1>2, UnknownFacts

LEMMA ReferenceFits ==
  ASSUME NEW h, NEW ref, ref.column # Nothing, NEW ranges, RangesFit(h, ranges),
         ToSet(Reference(h.at, ref, ranges)) \subseteq h.met
  PROVE  /\ IsList(Reference(h.at, ref, ranges))
         /\ \A c \in ToSet(Reference(h.at, ref, ranges)) : CandidateFits(h, c)
<1> DEFINE q == ref.qualifier
           m == Look(ranges, q)
           u == OnlyOwner(ref.column, ranges)
           t == TableCandidate(h.at, q, m)
           c == ColumnCandidate(h.at, q, ref.column, m)
           d == ColumnCandidate(h.at, Nothing, ref.column, u)
<1>1. CASE ref.column = Star
  <2>1. Reference(h.at, ref, ranges) = <<>>
    BY <1>1 DEF Reference
  <2> QED
    BY <2>1, ShortLists
<1>2. CASE ref.column # Star /\ q = Nothing
  <2>1. Reference(h.at, ref, ranges) = <<d>>
    BY <1>2 DEF Reference
  <2>2. IsList(<<d>>) /\ ToSet(<<d>>) = {d}
    BY ShortLists
  <2>3. d.kind = "column" /\ d.at = h.at /\ d.qualifier = Nothing /\ d.name = ref.column
        /\ d.means = u
    BY ColumnFacts
  <2>4. u.name = Nothing \/ \E n : Known(h, n, u)
    BY OwnerFits
  <2> HIDE DEF d, u
  <2>5. CandidateFits(h, d)
    BY <2>3, <2>4 DEF CandidateFits
  <2> QED
    BY <2>1, <2>2, <2>5
<1>3. CASE ref.column # Star /\ q # Nothing
  <2>1. Reference(h.at, ref, ranges) = <<t, c>>
    BY <1>3 DEF Reference
  <2>2. IsList(<<t, c>>) /\ ToSet(<<t, c>>) = {t, c}
    BY ShortLists
  <2>3. c.kind = "column" /\ c.at = h.at /\ c.qualifier = q /\ c.name = ref.column /\ c.means = m
    BY ColumnFacts
  <2>4. t.kind = "table" /\ t.at = h.at /\ t.name = q /\ t.means = m
    BY TableFacts
  <2>5. m = Unknown \/ (q \in DOMAIN ranges /\ m = ranges[q])
    BY DEF Look
  <2> HIDE DEF t, c, m, q
  <2>6. Known(h, q, m)
    <3>1. CASE m = Unknown
      <4>1. t \in h.met
        BY <2>1, <2>2
      <4> QED
        BY <2>4, <3>1, <4>1, UnknownFacts DEF Known, Bound, Named, IsRelation
    <3> QED
      BY <1>3, <2>5, <3>1 DEF RangesFit, q
  <2>7. CandidateFits(h, t) /\ CandidateFits(h, c)
    BY <1>3, <2>3, <2>4, <2>6 DEF CandidateFits
  <2> QED
    BY <2>1, <2>2, <2>7
<1> QED
  BY <1>1, <1>2, <1>3

(* An expression.                                                            *)
LEMMA ExprVisited ==
  ASSUME NEW k, NEW h, NEW v, StatementFits(k), VisitFits(k, v), v.kind = "expr",
         Moves(k, h, v, ToSet(Reference(k.at, v.node, v.context.ranges)), {}, {}),
         h.scope = k.scope
  PROVE  StatementFits(h)
<1> DEFINE ranges == v.context.ranges
<1>1. v.node.column # Nothing /\ RangesFit(k, ranges)
  BY DEF VisitFits, IsNode, ContextFits
<1>2. h.at = k.at /\ ToSet(Reference(k.at, v.node, ranges)) \subseteq h.met
  BY DEF Moves
<1>3. Grows(k, h, v)
  BY DEF Grows, Moves, Promises
<1> HIDE DEF ranges
<1>4. RangesFit(h, ranges)
  BY <1>1, <1>3, ContextGrows
<1>5. \A c \in ToSet(Reference(h.at, v.node, ranges)) : CandidateFits(h, c)
  BY <1>1, <1>2, <1>4, ReferenceFits
<1>6. /\ \A x \in h.met : x \in k.met \/ CandidateFits(h, x)
      /\ \A x \in DOMAIN h.scope :
           (x \in DOMAIN k.scope /\ h.scope[x] = k.scope[x]) \/ ScopeFits(h, x)
      /\ \A x \in h.own : x \in k.own \/ LocalFits(h, x)
      /\ \A x \in h.todo : x \in k.todo \/ VisitFits(h, x)
  BY <1>2, <1>5 DEF Moves, ranges
<1> QED
  BY <1>3, <1>6, StatementGrows

(* Common table expressions: the relations that are visible after each.        *)
LEMMA SeenFacts ==
  ASSUME NEW k, k.at # None, NEW relations, RelationsFit(k, relations),
         NEW query \in Queries,
         \A i \in 1..Len(query.ctes) : \E l \in k.own : l.name = query.ctes[i].name
  PROVE  /\ \A i \in 0..Len(query.ctes) :
              RelationsFit(k, WithRelations(query, relations, k.at)[i])
         /\ \A i \in 1..Len(query.ctes) :
              LET n == query.ctes[i].name
                  m == WithRelations(query, relations, k.at)[i][n]
              IN  m = [name |-> n, columns |-> m.columns, at |-> k.at]
<1> DEFINE ctes == query.ctes
           Columns(r, i) == IF ctes[i].columns # {} THEN ctes[i].columns
                            ELSE ColumnsOf(ctes[i].query, r)
           Also(r, i) == [n \in DOMAIN r \cup {ctes[i].name} |->
                            IF n = ctes[i].name
                            THEN [name |-> n, columns |-> Columns(r, i), at |-> k.at]
                            ELSE r[n]]
           Step(f, i) == IF i = 0 THEN relations ELSE Also(f[i - 1], i)
           seen == CHOOSE f : f = [i \in 0..Len(ctes) |-> Step(f, i)]
<1>1. Len(ctes) \in Nat /\ \A i \in 1..Len(ctes) : ctes[i].name \in Names
  BY ResolutionAssumption, ListFacts DEF IsQuery
<1>2. WithRelations(query, relations, k.at) = seen
  BY DEF WithRelations
<1> HIDE DEF Also
<1>3. seen = [i \in 0..Len(ctes) |-> Step(seen, i)]
  <2> DEFINE N == {n \in Nat : \E f : f = [i \in 0..n |-> Step(f, i)]}
  <2>1. 0 \in N
    <3>1. [i \in 0..0 |-> relations] = [i \in 0..0 |-> Step([j \in 0..0 |-> relations], i)]
      OBVIOUS
    <3> QED
      BY <3>1
  <2>2. ASSUME NEW n \in Nat, n \in N PROVE n + 1 \in N
    <3>1. PICK f : f = [i \in 0..n |-> Step(f, i)]
      BY <2>2
    <3>2. \A i \in 0..n : f[i] = Step(f, i)
      <4> HIDE DEF Step
      <4> QED
        BY <3>1
    <3> DEFINE g == [i \in 0..(n + 1) |-> IF i = n + 1 THEN Step(f, i) ELSE f[i]]
    <3>3. \A i \in 0..(n + 1) : g[i] = Step(g, i)
      <4> TAKE i \in 0..(n + 1)
      <4>1. CASE i = 0
        BY <3>1, <4>1
      <4>2. CASE i # 0
        <5>1. i - 1 \in 0..n /\ g[i - 1] = f[i - 1]
          BY <4>2
        <5>2. Step(g, i) = Step(f, i)
          BY <5>1
        <5>3. i # n + 1 => f[i] = Step(f, i)
          BY <3>2
        <5> QED
          BY <5>2, <5>3
      <4> QED
        BY <4>1, <4>2
    <3>4. g = [i \in 0..(n + 1) |-> Step(g, i)]
      BY <3>3
    <3> HIDE DEF g
    <3> QED
      BY <3>4
  <2> HIDE DEF N
  <2>3. Len(ctes) \in N
    BY <1>1, <2>1, <2>2, CountUp
  <2> QED
    BY <2>3 DEF N
<1> HIDE DEF seen, Step
<1>4. \A i \in 0..Len(ctes) : seen[i] = Step(seen, i)
  BY <1>3
<1>5. ASSUME NEW i \in 1..Len(ctes)
      PROVE  /\ DOMAIN seen[i] = DOMAIN seen[i - 1] \cup {ctes[i].name}
             /\ seen[i][ctes[i].name] =
                  [name |-> ctes[i].name, columns |-> Columns(seen[i - 1], i), at |-> k.at]
             /\ \A n \in DOMAIN seen[i] : n # ctes[i].name => seen[i][n] = seen[i - 1][n]
  <2>1. i \in 0..Len(ctes) /\ i # 0
    BY <1>1
  <2>2. seen[i] = Step(seen, i)
    BY <1>4, <2>1
  <2> HIDE DEF Columns
  <2> QED
    BY <2>1, <2>2 DEF Step, Also
<1> HIDE DEF Columns
<1>6. ASSUME NEW i \in 1..Len(ctes)
      PROVE  seen[i][ctes[i].name] =
               [name |-> ctes[i].name, columns |-> seen[i][ctes[i].name].columns, at |-> k.at]
  <2> DEFINE r == seen[i][ctes[i].name]
             n == ctes[i].name
             x == Columns(seen[i - 1], i)
  <2>1. r = [name |-> n, columns |-> x, at |-> k.at]
    BY <1>5
  <2> HIDE DEF r, n, x
  <2>2. r.columns = x
    BY <2>1
  <2>3. r = [name |-> n, columns |-> r.columns, at |-> k.at]
    BY <2>1, <2>2
  <2> QED
    BY <2>3 DEF r, n
<1>7. \A n \in Nat : n <= Len(ctes) => RelationsFit(k, seen[n])
  <2> DEFINE N == {n \in Nat : n <= Len(ctes) => RelationsFit(k, seen[n])}
  <2>1. 0 \in N
    <3>1. 0 \in 0..Len(ctes)
      BY <1>1
    <3>2. seen[0] = relations
      BY <1>4, <3>1 DEF Step
    <3> QED
      BY <3>2
  <2>2. ASSUME NEW n \in Nat, n \in N PROVE n + 1 \in N
    <3> SUFFICES ASSUME n + 1 <= Len(ctes) PROVE RelationsFit(k, seen[n + 1])
      OBVIOUS
    <3>1. n + 1 \in 1..Len(ctes) /\ (n + 1) - 1 = n /\ n <= Len(ctes)
      BY <1>1
    <3>2. RelationsFit(k, seen[n])
      BY <2>2, <3>1
    <3> DEFINE name == ctes[n + 1].name
               new == seen[n + 1]
               old == seen[n]
    <3>3. /\ DOMAIN new = DOMAIN old \cup {name}
          /\ \A x \in DOMAIN new : x # name => new[x] = old[x]
      BY <1>5, <3>1
    <3>4. /\ new[name] = [name |-> name, columns |-> new[name].columns, at |-> k.at]
          /\ name \in Names /\ \E l \in k.own : l.name = name
      BY <1>1, <1>6, <3>1
    <3> HIDE DEF new, old, name
    <3>5. RelationsFit(k, new)
      BY <3>2, <3>3, <3>4 DEF RelationsFit, old
    <3> QED
      BY <3>5 DEF new
  <2> HIDE DEF N
  <2>3. \A n \in Nat : n \in N
    BY <2>1, <2>2, CountUp
  <2> QED
    BY <2>3 DEF N
<1>8. \A i \in 0..Len(ctes) : RelationsFit(k, seen[i])
  BY <1>1, <1>7
<1> QED
  BY <1>2, <1>6, <1>8
-----------------------------------------------------------------------------
LEMMA VisitsFacts ==
  ASSUME NEW kind, NEW nodes, IsList(nodes), NEW context
  PROVE  /\ IsList(Visits(kind, nodes, context))
         /\ \A w \in ToSet(Visits(kind, nodes, context)) :
              w.kind = kind /\ w.node \in ToSet(nodes) /\ w.context = context
         /\ \A x \in ToSet(nodes) : \E w \in ToSet(Visits(kind, nodes, context)) :
              w.kind = kind /\ w.node = x /\ w.context = context
<1> DEFINE f == [i \in 1..Len(nodes) |->
                   [kind |-> kind, node |-> nodes[i], context |-> context]]
<1>1. Len(nodes) \in Nat /\ DOMAIN nodes = 1..Len(nodes)
      /\ ToSet(nodes) = {nodes[i] : i \in 1..Len(nodes)}
  BY ListFacts DEF ToSet
<1>2. Visits(kind, nodes, context) = f
  BY <1>1 DEF Visits
<1>3. \A i \in 1..Len(nodes) : f[i].kind = kind /\ f[i].node = nodes[i] /\ f[i].context = context
  OBVIOUS
<1>4. f = [i \in 1..Len(nodes) |-> f[i]]
  OBVIOUS
<1> HIDE DEF f
<1>5. IsList(f) /\ ToSet(f) = {f[i] : i \in 1..Len(nodes)}
  BY <1>1, <1>4, ListMade
<1> QED
  BY <1>1, <1>2, <1>3, <1>5

(* FROM items are visible that are visited.                                   *)
LEMMA RangesFacts ==
  ASSUME NEW k, k.at # None, NEW context, ContextFits(k, context), NEW from,
         \A f \in ToSet(from) : IsFactor(f),
         \A f \in ToSet(from) : \E w \in k.todo :
            w.kind = "factor" /\ w.node = f /\ w.context.relations = context.relations
  PROVE  ContextFits(k, WithRanges(from, context, k.at))
<1> DEFINE own == {RangeName(f) : f \in ToSet(from)}
           Of(n) == CHOOSE f \in ToSet(from) : RangeName(f) = n
           old == context.ranges
           nameless == NamelessRelation(from, context, k.at)
           ranges == [n \in DOMAIN old \cup own |->
                        IF n = Nothing THEN nameless
                        ELSE IF n \in own THEN FromRelation(Of(n), context.relations, k.at)
                        ELSE old[n]]
           new == WithRanges(from, context, k.at)
<1>1. context = [relations |-> context.relations, ranges |-> old]
      /\ RelationsFit(k, context.relations) /\ RangesFit(k, old)
  BY DEF ContextFits
<1>2. new = [context EXCEPT !.ranges = ranges]
  BY DEF WithRanges
<1>3. \A n \in own : Of(n) \in ToSet(from) /\ RangeName(Of(n)) = n
  OBVIOUS
<1>4. /\ DOMAIN ranges = DOMAIN old \cup own
      /\ \A n \in own : n # Nothing => ranges[n] = FromRelation(Of(n), context.relations, k.at)
      /\ \A n \in DOMAIN old \ own : n # Nothing => ranges[n] = old[n]
      /\ Nothing \in DOMAIN ranges => ranges[Nothing] = nameless
  OBVIOUS
<1>0. nameless.name = Nothing
  BY DEF NamelessRelation
<1> HIDE DEF own, Of, old, new, ranges, nameless
<1>5. new = [relations |-> context.relations, ranges |-> ranges]
  BY <1>1, <1>2
<1>6. new.relations = context.relations /\ new.ranges = ranges
  BY <1>5
<1>7. ASSUME NEW n \in own, n # Nothing PROVE Known(k, n, ranges[n])
  <2> DEFINE f == Of(n)
             m == FromRelation(f, context.relations, k.at)
  <2>1. f \in ToSet(from) /\ RangeName(f) = n /\ ranges[n] = m
    BY <1>3, <1>4, <1>7
  <2>2. PICK w \in k.todo : w.kind = "factor" /\ w.node = f /\ w.context.relations = context.relations
    BY <2>1
  <2>3. Promises(k, w, n, m)
    BY <1>7, <2>1, <2>2 DEF Promises
  <2> HIDE DEF f
  <2>4. IsRelation(k, m)
    BY <1>1, <2>1, FromFacts
  <2> QED
    BY <2>1, <2>3, <2>4 DEF Known
<1>8. RangesFit(k, ranges)
  <2>1. SUFFICES ASSUME NEW n \in DOMAIN ranges, n # Nothing PROVE Known(k, n, ranges[n])
    BY <1>0, <1>4 DEF RangesFit
  <2>2. CASE n \in own
    BY <1>7, <2>1, <2>2
  <2>3. CASE n \notin own
    <3>1. n \in DOMAIN old /\ ranges[n] = old[n]
      BY <1>4, <2>1, <2>3
    <3> QED
      BY <1>1, <2>1, <3>1 DEF RangesFit
  <2> QED
    BY <2>2, <2>3
<1> QED
  BY <1>1, <1>5, <1>6, <1>8 DEF ContextFits, new

(* A query: its common table expressions are local relations.                 *)
IsCtes(k, h, query, C, L) ==
  /\ DOMAIN k.scope \subseteq DOMAIN h.scope
  /\ \A n \in DOMAIN h.scope : \/ n \in DOMAIN k.scope /\ h.scope[n] = k.scope[n]
                               \/ /\ h.scope[n] = n
                                  /\ \E i \in 1..Len(query.ctes) : n = query.ctes[i].name
  /\ \A l \in L : \E i \in 1..Len(query.ctes) : l.name = query.ctes[i].name
  /\ \A i \in 1..Len(query.ctes) : \E l \in L : l.name = query.ctes[i].name
  /\ \A i \in 1..Len(query.ctes) : query.ctes[i].name \in DOMAIN h.scope
  /\ \A i \in 1..Len(query.ctes) : \E c \in C : c.name = query.ctes[i].name
  /\ \A c \in C : /\ c.kind = "table" /\ c.at = k.at
                  /\ c.means = [name |-> c.name, columns |-> c.means.columns, at |-> k.at]
                  /\ \E i \in 1..Len(query.ctes) : c.name = query.ctes[i].name

LEMMA CtesRecorded ==
  ASSUME NEW k, NEW h, NEW v, StatementFits(k), VisitFits(k, v), v.kind = "query",
         NEW C, NEW L, NEW W, Moves(k, h, v, C, L, W), IsCtes(k, h, v.node, C, L)
  PROVE  /\ Grows(k, h, v)
         /\ \A c \in C : CandidateFits(h, c)
         /\ \A n \in DOMAIN h.scope :
              (n \in DOMAIN k.scope /\ h.scope[n] = k.scope[n]) \/ ScopeFits(h, n)
         /\ \A l \in L : LocalFits(h, l)
<1> DEFINE ctes == v.node.ctes
           I == 1..Len(ctes)
<1>1. \A i \in I : ctes[i].name \in Names
  BY ResolutionAssumption, ListFacts DEF IsQuery, VisitFits, IsNode
<1>2. h.at = k.at /\ k.at # None /\ C \subseteq h.met /\ L \subseteq h.own
  BY DEF Moves
<1>3. Grows(k, h, v)
  BY DEF Grows, Moves, IsCtes, Promises
<1>4. ASSUME NEW c \in C
      PROVE  /\ c.kind = "table" /\ c.at = h.at /\ c.means.name = c.name /\ IsLocal(c.means)
             /\ c.means # Unknown /\ IsRelation(h, c.means)
  <2> DEFINE m == c.means
             x == c.name
  <2>1. m = [name |-> x, columns |-> m.columns, at |-> k.at]
    BY <1>4 DEF IsCtes
  <2> HIDE DEF m, x
  <2>2. m.name = x /\ m.at = k.at
    BY <2>1
  <2>3. IsLocal(m) /\ m # Unknown
    BY <1>2, <2>2, UnknownFacts DEF IsLocal
  <2>4. IsRelation(h, m)
    BY <1>2, <2>1, <2>2 DEF IsRelation
  <2>5. c.kind = "table" /\ c.at = k.at
    BY <1>4 DEF IsCtes
  <2> QED
    BY <1>2, <2>2, <2>3, <2>4, <2>5 DEF m, x
<1>5. ASSUME NEW c \in C PROVE CandidateFits(h, c)
  <2>1. PICK i \in I : c.name = ctes[i].name
    BY <1>5 DEF IsCtes
  <2>2. c.name \in DOMAIN h.scope /\ \E l \in L : l.name = c.name
    BY <2>1 DEF IsCtes
  <2>3. Known(h, c.name, c.means)
    BY <1>2, <1>4, <1>5, <2>2 DEF Known, Bound, Named
  <2> QED
    BY <1>4, <1>5, <2>3 DEF CandidateFits
<1>6. ASSUME NEW i \in I
      PROVE  /\ ctes[i].name \in DOMAIN h.scope
             /\ \E c \in h.met : /\ c.kind = "table" /\ c.name = ctes[i].name
                                 /\ c.means.name = ctes[i].name /\ IsLocal(c.means)
                                 /\ c.means # Unknown
  <2>1. PICK c \in C : c.name = ctes[i].name
    BY <1>6 DEF IsCtes
  <2>2. ctes[i].name \in DOMAIN h.scope
    BY <1>6 DEF IsCtes
  <2> QED
    BY <1>2, <1>4, <2>1, <2>2
<1>7. ASSUME NEW n \in DOMAIN h.scope, ~(n \in DOMAIN k.scope /\ h.scope[n] = k.scope[n])
      PROVE  ScopeFits(h, n)
  <2>1. h.scope[n] = n /\ \E i \in I : n = ctes[i].name
    BY <1>7 DEF IsCtes
  <2>2. PICK i \in I : n = ctes[i].name
    BY <2>1
  <2> QED
    BY <1>1, <1>6, <2>1, <2>2 DEF ScopeFits, Leads
<1>8. ASSUME NEW l \in L PROVE LocalFits(h, l)
  <2>1. PICK i \in I : l.name = ctes[i].name
    BY <1>8 DEF IsCtes
  <2> QED
    BY <1>6, <2>1 DEF LocalFits
<1> QED
  BY <1>3, <1>5, <1>7, <1>8

LEMMA ContextWith ==
  ASSUME NEW k, NEW context, ContextFits(k, context), NEW relations, RelationsFit(k, relations)
  PROVE  /\ ContextFits(k, [context EXCEPT !.relations = relations])
         /\ [context EXCEPT !.relations = relations].relations = relations
<1> DEFINE new == [context EXCEPT !.relations = relations]
<1>1. context = [relations |-> context.relations, ranges |-> context.ranges]
      /\ RangesFit(k, context.ranges)
  BY DEF ContextFits
<1>2. new = [relations |-> relations, ranges |-> context.ranges]
  BY <1>1
<1> HIDE DEF new
<1>3. new.relations = relations /\ new.ranges = context.ranges
  BY <1>2
<1> QED
  BY <1>1, <1>2, <1>3 DEF ContextFits, new

(* What is visible in a query fits each of its parts.                         *)
LEMMA ChildrenFit ==
  ASSUME NEW k, k.at # None, NEW query \in Queries, NEW context, ContextFits(k, context),
         \A i \in 1..Len(query.ctes) : \E l \in k.own : l.name = query.ctes[i].name,
         ToSet(QueryChildren(query, context, k.at)) \subseteq k.todo
  PROVE  /\ IsList(QueryChildren(query, context, k.at))
         /\ \A w \in ToSet(QueryChildren(query, context, k.at)) : VisitFits(k, w)
<1> DEFINE ctes == query.ctes
           seen == WithRelations(query, context.relations, k.at)
           At(i) == [context EXCEPT !.relations = seen[i]]
           inner == At(Len(ctes))
           body == WithRanges(query.from, inner, k.at)
           A == [i \in 1..Len(ctes) |-> [kind |-> "query", node |-> ctes[i].query,
                                         context |-> At(i - 1)]]
           X == Visits("expr", query.items, body)
           F == Visits("factor", query.from, inner)
           Q == Visits("query", query.nested, body)
           W == QueryChildren(query, context, k.at)
<1>1. /\ IsList(ctes) /\ IsList(query.from) /\ IsList(query.items) /\ IsList(query.nested)
      /\ \A cte \in ToSet(ctes) : cte.query \in Queries
      /\ \A f \in ToSet(query.from) : IsFactor(f)
      /\ \A item \in ToSet(query.items) : item.column # Nothing
      /\ ToSet(query.nested) \subseteq Queries
  BY ResolutionAssumption DEF IsQuery
<1>2. /\ Len(ctes) \in Nat /\ DOMAIN ctes = 1..Len(ctes)
      /\ \A i \in 1..Len(ctes) : ctes[i].query \in Queries
  BY <1>1, ListFacts
<1>3. W = A \o X \o F \o Q
  BY <1>2 DEF QueryChildren
<1>4. \A i \in 0..Len(ctes) : RelationsFit(k, seen[i])
  BY SeenFacts DEF ContextFits
<1>5. \A i \in 0..Len(ctes) : ContextFits(k, At(i))
  BY <1>4, ContextWith
<1>6. Len(ctes) \in 0..Len(ctes) /\ \A i \in 1..Len(ctes) : i - 1 \in 0..Len(ctes)
  BY <1>2
<1>7. /\ A = [i \in 1..Len(ctes) |-> A[i]]
      /\ \A i \in 1..Len(ctes) : /\ A[i].kind = "query" /\ A[i].node = ctes[i].query
                                 /\ A[i].context = At(i - 1)
  OBVIOUS
<1> HIDE DEF A, At, X, F, Q, body, W, ctes, seen
<1>8. IsList(A) /\ ToSet(A) = {A[i] : i \in 1..Len(ctes)}
  BY <1>2, <1>7, ListMade
<1>9. IsList(X) /\ IsList(F) /\ IsList(Q)
  BY <1>1, VisitsFacts DEF X, F, Q
<1>10. IsList(A \o X) /\ ToSet(A \o X) = ToSet(A) \cup ToSet(X)
  BY <1>8, <1>9, ConcatList
<1>11. IsList((A \o X) \o F) /\ ToSet((A \o X) \o F) = ToSet(A \o X) \cup ToSet(F)
  BY <1>9, <1>10, ConcatList
<1>12. IsList(((A \o X) \o F) \o Q) /\ ToSet(((A \o X) \o F) \o Q) = ToSet((A \o X) \o F) \cup ToSet(Q)
  BY <1>9, <1>11, ConcatList
<1>13. IsList(W) /\ ToSet(W) = ToSet(A) \cup ToSet(X) \cup ToSet(F) \cup ToSet(Q)
  BY <1>3, <1>10, <1>11, <1>12
<1>14. ContextFits(k, inner)
  BY <1>5, <1>6
<1> HIDE DEF inner
<1>15. ToSet(F) \subseteq k.todo
  BY <1>13 DEF W
<1>16. \A f \in ToSet(query.from) : \E w \in k.todo :
          w.kind = "factor" /\ w.node = f /\ w.context.relations = inner.relations
  BY <1>1, <1>15, VisitsFacts DEF F
<1>17. ContextFits(k, body)
  BY <1>1, <1>14, <1>16, RangesFacts DEF body
<1>18. ASSUME NEW w \in ToSet(A) PROVE VisitFits(k, w)
  BY <1>2, <1>5, <1>6, <1>7, <1>8, <1>18 DEF VisitFits, IsNode
<1>19. ASSUME NEW w \in ToSet(X) PROVE VisitFits(k, w)
  <2>1. w.kind = "expr" /\ w.node \in ToSet(query.items) /\ w.context = body
    BY <1>1, <1>19, VisitsFacts DEF X
  <2> QED
    BY <1>1, <1>17, <2>1 DEF VisitFits, IsNode
<1>20. ASSUME NEW w \in ToSet(F) PROVE VisitFits(k, w)
  <2>1. w.kind = "factor" /\ w.node \in ToSet(query.from) /\ w.context = inner
    BY <1>1, <1>20, VisitsFacts DEF F
  <2> QED
    BY <1>1, <1>14, <2>1 DEF VisitFits, IsNode
<1>21. ASSUME NEW w \in ToSet(Q) PROVE VisitFits(k, w)
  <2>1. w.kind = "query" /\ w.node \in ToSet(query.nested) /\ w.context = body
    BY <1>1, <1>21, VisitsFacts DEF Q
  <2> QED
    BY <1>1, <1>17, <2>1 DEF VisitFits, IsNode
<1> QED
  BY <1>13, <1>18, <1>19, <1>20, <1>21 DEF W

LEMMA QueryVisited ==
  ASSUME NEW k, NEW h, NEW v, StatementFits(k), VisitFits(k, v), v.kind = "query",
         NEW C, NEW L, IsCtes(k, h, v.node, C, L),
         Moves(k, h, v, C, L, ToSet(QueryChildren(v.node, v.context, k.at)))
  PROVE  /\ IsList(QueryChildren(v.node, v.context, k.at))
         /\ StatementFits(h)
<1> DEFINE W == QueryChildren(v.node, v.context, k.at)
<1>1. /\ Grows(k, h, v)
      /\ \A c \in C : CandidateFits(h, c)
      /\ \A n \in DOMAIN h.scope :
           (n \in DOMAIN k.scope /\ h.scope[n] = k.scope[n]) \/ ScopeFits(h, n)
      /\ \A l \in L : LocalFits(h, l)
  BY CtesRecorded
<1>2. h.at = k.at /\ h.at # None /\ L \subseteq h.own /\ ToSet(W) \subseteq h.todo
  BY DEF Moves
<1>3. v.node \in Queries /\ ContextFits(k, v.context)
  BY DEF VisitFits, IsNode
<1>4. ContextFits(h, v.context)
  BY <1>1, <1>3, ContextGrows
<1>5. \A i \in 1..Len(v.node.ctes) : \E l \in h.own : l.name = v.node.ctes[i].name
  BY <1>2 DEF IsCtes
<1>6. IsList(W) /\ \A w \in ToSet(W) : VisitFits(h, w)
  BY <1>2, <1>3, <1>4, <1>5, ChildrenFit
<1> HIDE DEF W
<1>7. /\ \A x \in h.met : x \in k.met \/ CandidateFits(h, x)
      /\ \A x \in h.own : x \in k.own \/ LocalFits(h, x)
      /\ \A x \in h.todo : x \in k.todo \/ VisitFits(h, x)
  BY <1>1, <1>6 DEF Moves, W
<1> QED
  BY <1>1, <1>6, <1>7, StatementGrows DEF W
-----------------------------------------------------------------------------
LEMMA FlattenList ==
  ASSUME NEW seqs, IsList(seqs), \A i \in 1..Len(seqs) : IsList(seqs[i])
  PROVE  /\ IsList(FlattenSeq(seqs))
         /\ \A x : x \in ToSet(FlattenSeq(seqs)) <=> \E i \in 1..Len(seqs) : x \in ToSet(seqs[i])
<1> DEFINE Step(f, i) == IF i = 1 THEN seqs[i] ELSE f[i - 1] \o seqs[i]
           flatten == CHOOSE f : f = [i \in 1..Len(seqs) |-> Step(f, i)]
<1>1. Len(seqs) \in Nat
  BY ListFacts
<1>2. CASE Len(seqs) = 0
  <2>1. FlattenSeq(seqs) = seqs /\ seqs = <<>>
    BY <1>2 DEF FlattenSeq, IsList
  <2> QED
    BY <1>2, <2>1, ShortLists
<1>3. CASE Len(seqs) # 0
  <2>1. FlattenSeq(seqs) = flatten[Len(seqs)]
    BY <1>3 DEF FlattenSeq
  <2>2. flatten = [i \in 1..Len(seqs) |-> Step(flatten, i)]
    <3> DEFINE N == {n \in Nat : \E f : f = [i \in 1..n |-> Step(f, i)]}
    <3>1. 0 \in N
      <4>1. [i \in 1..0 |-> 0] = [i \in 1..0 |-> Step([j \in 1..0 |-> 0], i)]
        OBVIOUS
      <4> QED
        BY <4>1
    <3>2. ASSUME NEW n \in Nat, n \in N PROVE n + 1 \in N
      <4>1. PICK f : f = [i \in 1..n |-> Step(f, i)]
        BY <3>2
      <4>2. \A i \in 1..n : f[i] = Step(f, i)
        <5> HIDE DEF Step
        <5> QED
          BY <4>1
      <4> DEFINE g == [i \in 1..(n + 1) |-> IF i = n + 1 THEN Step(f, i) ELSE f[i]]
      <4>3. \A i \in 1..(n + 1) : g[i] = Step(g, i)
        <5> TAKE i \in 1..(n + 1)
        <5>1. CASE i = 1
          BY <4>1, <4>2, <5>1
        <5>2. CASE i # 1
          <6>1. i - 1 \in 1..n /\ g[i - 1] = f[i - 1]
            BY <5>2
          <6>2. Step(g, i) = Step(f, i)
            BY <6>1
          <6>3. i # n + 1 => f[i] = Step(f, i)
            BY <4>2
          <6> QED
            BY <6>2, <6>3
        <5> QED
          BY <5>1, <5>2
      <4>4. g = [i \in 1..(n + 1) |-> Step(g, i)]
        BY <4>3
      <4> HIDE DEF g, Step
      <4>5. \E e : e = [i \in 1..(n + 1) |-> Step(e, i)]
        BY <4>4
      <4> QED
        BY <4>5
    <3> HIDE DEF N
    <3>3. Len(seqs) \in N
      BY <1>1, <3>1, <3>2, CountUp
    <3> QED
      BY <3>3 DEF N
  <2> HIDE DEF flatten
  <2>3. /\ flatten[1] = seqs[1]
        /\ \A i \in 1..Len(seqs) : i # 1 => flatten[i] = flatten[i - 1] \o seqs[i]
    <3>1. \A i \in 1..Len(seqs) : flatten[i] = Step(flatten, i)
      <4> HIDE DEF Step
      <4> QED
        BY <2>2
    <3>2. 1 \in 1..Len(seqs)
      BY <1>1, <1>3
    <3> QED
      BY <3>1, <3>2
  <2> DEFINE Flat(n) == /\ IsList(flatten[n])
                        /\ \A x : x \in ToSet(flatten[n]) <=> \E i \in 1..n : x \in ToSet(seqs[i])
             N == {n \in Nat : n + 1 <= Len(seqs) => Flat(n + 1)}
  <2>4. 0 \in N
    <3>1. 0 + 1 = 1 /\ 1..1 = {1} /\ 1 \in 1..Len(seqs)
      BY <1>1, <1>3
    <3>2. Flat(1)
      BY <2>3, <3>1
    <3> QED
      BY <3>1, <3>2
  <2>5. ASSUME NEW n \in Nat, n \in N PROVE n + 1 \in N
    <3> DEFINE p == n + 1
    <3> SUFFICES ASSUME p + 1 <= Len(seqs) PROVE Flat(p + 1)
      OBVIOUS
    <3>1. p <= Len(seqs) /\ p + 1 \in 1..Len(seqs) /\ p + 1 # 1 /\ (p + 1) - 1 = p
          /\ 1..(p + 1) = (1..p) \cup {p + 1}
      BY <1>1
    <3>2. Flat(p)
      BY <2>5, <3>1
    <3> HIDE DEF p
    <3>3. flatten[p + 1] = flatten[p] \o seqs[p + 1] /\ IsList(seqs[p + 1])
      BY <2>3, <3>1
    <3>4. IsList(flatten[p + 1])
          /\ ToSet(flatten[p + 1]) = ToSet(flatten[p]) \cup ToSet(seqs[p + 1])
      BY <3>2, <3>3, ConcatList
    <3> QED
      BY <3>1, <3>2, <3>4
  <2> HIDE DEF Flat
  <2>6. \A n \in Nat : n \in N
    <3> HIDE DEF N
    <3> QED
      BY <2>4, <2>5, CountUp
  <2>7. Flat(Len(seqs))
    <3>1. Len(seqs) - 1 \in Nat /\ (Len(seqs) - 1) + 1 = Len(seqs)
      BY <1>1, <1>3
    <3>2. Len(seqs) - 1 \in N
      BY <2>6, <3>1
    <3> QED
      BY <3>1, <3>2
  <2> QED
    BY <2>1, <2>7 DEF Flat
<1> QED
  BY <1>2, <1>3

LEMMA ReferenceList ==
  ASSUME NEW s, NEW ref, NEW ranges
  PROVE  IsList(Reference(s, ref, ranges))
BY ShortLists DEF Reference

(* The schema is visible everywhere.                                         *)
LEMMA SchemaFits ==
  ASSUME NEW k
  PROVE  ContextFits(k, StatementContext)
<1> DEFINE relations == [t \in DOMAIN Schema |-> Stored(t)]
           ranges == [n \in {} |-> Unknown]
<1>1. StatementContext = [relations |-> relations, ranges |-> ranges]
  BY DEF StatementContext
<1>2. DOMAIN relations = DOMAIN Schema /\ \A t \in DOMAIN Schema : relations[t] = Stored(t)
  OBVIOUS
<1>3. DOMAIN ranges = {}
  OBVIOUS
<1>4. DOMAIN Schema \subseteq Names
  BY ResolutionAssumption
<1> HIDE DEF relations, ranges
<1>5. StatementContext.relations = relations /\ StatementContext.ranges = ranges
  BY <1>1
<1>6. RelationsFit(k, relations)
  BY <1>2, <1>4 DEF RelationsFit
<1>7. RangesFit(k, ranges)
  BY <1>3 DEF RangesFit
<1> QED
  BY <1>1, <1>5, <1>6, <1>7 DEF ContextFits

(* A statement begins: k is what is known of it then.                        *)
LEMMA StatementVisited ==
  ASSUME NEW s, s # None, NEW t, IsStatement(t), NEW k, k.at = s,
         k.met = ToSet(ColumnDefs(s, t)) \cup ToSet(AssignmentTargets(s, t)),
         DOMAIN k.scope = {}, k.own = {}, k.todo = ToSet(StatementChildren(t, s))
  PROVE  /\ IsList(ColumnDefs(s, t)) /\ IsList(AssignmentTargets(s, t))
         /\ IsList(StatementChildren(t, s))
         /\ StatementFits(k)
<1> DEFINE context == StatementContext
           target == t.target
           body == WithRanges(<<target>>, context, s)
           F == Visits("factor", <<target>>, context)
           R == Visits("relation", <<target>>, context)
           X == Visits("expr", t.body.items, body)
           Q == Visits("query", t.body.nested, body)
           B == Visits("query", <<t.body>>, context)
           D == ColumnDefs(s, t)
           A == AssignmentTargets(s, t)
           W == StatementChildren(t, s)
<1>1. ContextFits(k, context) /\ RelationsFit(k, context.relations)
  BY SchemaFits DEF ContextFits
<1>2. /\ t.kind \in {"query", "create", "insert", "update"}
      /\ t.kind # "query" => IsFactor(target) /\ target.query = Nothing
                             /\ target.relation \in Names /\ target.relation # Nothing
      /\ IsList(t.columns) /\ Nothing \notin ToSet(t.columns)
      /\ t.columns # <<>> => t.kind \in {"create", "insert"}
      /\ IsList(t.sets) /\ \A item \in ToSet(t.sets) : item.column # Nothing
      /\ t.body \in Queries
  BY ResolutionAssumption DEF IsStatement, IsFactor
<1>3. /\ IsList(t.body.items) /\ IsList(t.body.nested)
      /\ \A item \in ToSet(t.body.items) : item.column # Nothing
      /\ ToSet(t.body.nested) \subseteq Queries
  BY <1>2, ResolutionAssumption DEF IsQuery
<1>4. /\ IsList(<<>>) /\ ToSet(<<>>) = {}
      /\ IsList(<<target>>) /\ ToSet(<<target>>) = {target}
      /\ IsList(<<t.body>>) /\ ToSet(<<t.body>>) = {t.body}
  BY ShortLists
<1>5. IsList(F) /\ IsList(R) /\ IsList(X) /\ IsList(Q) /\ IsList(B)
  BY <1>3, <1>4, VisitsFacts
<1>6. /\ \A w \in ToSet(F) : w.kind = "factor" /\ w.node = target /\ w.context = context
      /\ \A w \in ToSet(R) : w.kind = "relation" /\ w.node = target /\ w.context = context
      /\ \A w \in ToSet(X) : w.kind = "expr" /\ w.node \in ToSet(t.body.items) /\ w.context = body
      /\ \A w \in ToSet(Q) : w.kind = "query" /\ w.node \in ToSet(t.body.nested) /\ w.context = body
      /\ \A w \in ToSet(B) : w.kind = "query" /\ w.node = t.body /\ w.context = context
      /\ \E w \in ToSet(F) : w.kind = "factor" /\ w.node = target /\ w.context = context
      /\ \E w \in ToSet(R) : w.kind = "relation" /\ w.node = target /\ w.context = context
  <2> HIDE DEF context, body, target
  <2>1. /\ \A w \in ToSet(F) : w.kind = "factor" /\ w.node \in ToSet(<<target>>) /\ w.context = context
        /\ \A w \in ToSet(R) : w.kind = "relation" /\ w.node \in ToSet(<<target>>) /\ w.context = context
        /\ \A w \in ToSet(B) : w.kind = "query" /\ w.node \in ToSet(<<t.body>>) /\ w.context = context
    BY <1>4, VisitsFacts
  <2>2. /\ \A w \in ToSet(X) : w.kind = "expr" /\ w.node \in ToSet(t.body.items) /\ w.context = body
        /\ \A w \in ToSet(Q) : w.kind = "query" /\ w.node \in ToSet(t.body.nested) /\ w.context = body
    BY <1>3, VisitsFacts
  <2>3. target \in ToSet(<<target>>)
    BY <1>4
  <2>4. /\ \E w \in ToSet(F) : w.kind = "factor" /\ w.node = target /\ w.context = context
        /\ \E w \in ToSet(R) : w.kind = "relation" /\ w.node = target /\ w.context = context
    BY <1>4, <2>3, VisitsFacts
  <2> QED
    BY <1>4, <2>1, <2>2, <2>4
<1>7. W = IF t.kind = "update" THEN F \o X \o Q
          ELSE (IF t.kind = "query" THEN <<>> ELSE R) \o B
  BY DEF StatementChildren
<1>8. D = [i \in DOMAIN t.columns |->
             ColumnCandidate(s, target.relation, t.columns[i],
                             Look(context.relations, target.relation))]
  BY DEF ColumnDefs
<1>9. A = IF t.kind # "update" THEN <<>>
          ELSE FlattenSeq([i \in DOMAIN t.sets |-> Reference(s, t.sets[i], body.ranges)])
  BY DEF AssignmentTargets
<1> HIDE DEF context, target, body, F, R, X, Q, B, D, A, W
<1>10. /\ IsList(W)
       /\ t.kind = "update" => ToSet(W) = ToSet(F) \cup ToSet(X) \cup ToSet(Q)
       /\ t.kind = "query" => ToSet(W) = ToSet(B)
       /\ t.kind \in {"create", "insert"} => ToSet(W) = ToSet(R) \cup ToSet(B)
  <2>1. IsList(F \o X) /\ ToSet(F \o X) = ToSet(F) \cup ToSet(X)
    BY <1>5, ConcatList
  <2>2. IsList((F \o X) \o Q) /\ ToSet((F \o X) \o Q) = ToSet(F \o X) \cup ToSet(Q)
    BY <1>5, <2>1, ConcatList
  <2>3. IsList(R \o B) /\ ToSet(R \o B) = ToSet(R) \cup ToSet(B)
    BY <1>5, ConcatList
  <2>4. IsList(<<>> \o B) /\ ToSet(<<>> \o B) = ToSet(<<>>) \cup ToSet(B)
    BY <1>4, <1>5, ConcatList
  <2> QED
    BY <1>2, <1>4, <1>7, <2>1, <2>2, <2>3, <2>4
<1>11. k.todo = ToSet(W)
  BY DEF W
<1>12. /\ IsList(D)
       /\ \A c \in ToSet(D) : CandidateFits(k, c)
  <2> DEFINE m == Look(context.relations, target.relation)
             f == [i \in 1..Len(t.columns) |-> ColumnCandidate(s, target.relation, t.columns[i], m)]
  <2>1. Len(t.columns) \in Nat /\ DOMAIN t.columns = 1..Len(t.columns)
        /\ \A i \in 1..Len(t.columns) : t.columns[i] # Nothing
    BY <1>2, ListFacts
  <2>2. D = f
    BY <1>8, <2>1
  <2>3. /\ f = [i \in 1..Len(t.columns) |-> f[i]]
        /\ \A i \in 1..Len(t.columns) :
             /\ f[i].kind = "column" /\ f[i].at = s /\ f[i].qualifier = target.relation
             /\ f[i].name = t.columns[i] /\ f[i].means = m
    BY ColumnFacts
  <2> HIDE DEF f, m
  <2>4. IsList(f) /\ ToSet(f) = {f[i] : i \in 1..Len(t.columns)}
    BY <2>1, <2>3, ListMade
  <2>5. ASSUME NEW i \in 1..Len(t.columns) PROVE CandidateFits(k, f[i])
    <3>1. t.columns # <<>>
      BY <2>1, <2>5
    <3>2. PICK w \in k.todo : w.kind = "relation" /\ w.node = target /\ w.context = context
      BY <1>2, <1>6, <1>10, <1>11, <3>1
    <3>3. Promises(k, w, target.relation, m)
      BY <3>2 DEF Promises, m
    <3>4. IsRelation(k, m)
      BY <1>1, LookFacts DEF m
    <3>5. Known(k, target.relation, m)
      BY <3>2, <3>3, <3>4 DEF Known
    <3>6. target.relation # Nothing
      BY <1>2, <3>1
    <3> QED
      BY <2>1, <2>3, <3>5, <3>6 DEF CandidateFits
  <2> QED
    BY <2>2, <2>4, <2>5
<1>13. ASSUME t.kind = "update" PROVE ContextFits(k, body)
  <2>1. IsFactor(target)
    BY <1>2, <1>13
  <2>2. \E w \in k.todo : w.kind = "factor" /\ w.node = target /\ w.context = context
    BY <1>6, <1>10, <1>11, <1>13
  <2>3. \A f \in ToSet(<<target>>) : \E w \in k.todo :
          w.kind = "factor" /\ w.node = f /\ w.context.relations = context.relations
    BY <1>4, <2>2
  <2>4. \A f \in ToSet(<<target>>) : IsFactor(f)
    BY <1>4, <2>1
  <2>5. ContextFits(k, WithRanges(<<target>>, context, k.at))
    BY <1>1, <2>3, <2>4, RangesFacts
  <2> QED
    BY <2>5 DEF body
<1>14. /\ IsList(A)
       /\ ToSet(A) \subseteq k.met => \A c \in ToSet(A) : CandidateFits(k, c)
  <2>1. CASE t.kind # "update"
    BY <1>4, <1>9, <2>1
  <2>2. CASE t.kind = "update"
    <3> DEFINE f == [i \in 1..Len(t.sets) |-> Reference(s, t.sets[i], body.ranges)]
    <3>1. Len(t.sets) \in Nat /\ DOMAIN t.sets = 1..Len(t.sets)
          /\ \A i \in 1..Len(t.sets) : t.sets[i].column # Nothing
      BY <1>2, ListFacts
    <3>2. A = FlattenSeq(f)
      BY <1>9, <2>2, <3>1
    <3>3. f \in Seq(ToSet(f)) /\ Len(f) = Len(t.sets) /\ f = [i \in 1..Len(t.sets) |-> f[i]]
      BY <3>1, ListMade DEF IsList
    <3>4. \A i \in 1..Len(t.sets) : f[i] = Reference(s, t.sets[i], body.ranges) /\ IsList(f[i])
      BY ReferenceList
    <3> HIDE DEF f
    <3>5. /\ IsList(A)
          /\ \A x : x \in ToSet(A) <=> \E i \in 1..Len(t.sets) : x \in ToSet(f[i])
      BY <3>2, <3>3, <3>4, FlattenList DEF IsList
    <3>6. ASSUME ToSet(A) \subseteq k.met, NEW c \in ToSet(A) PROVE CandidateFits(k, c)
      <4>1. PICK i \in 1..Len(t.sets) : c \in ToSet(f[i])
        BY <3>5, <3>6
      <4>2. ToSet(f[i]) \subseteq k.met
        BY <3>5, <3>6
      <4>3. RangesFit(k, body.ranges) /\ t.sets[i].column # Nothing
        BY <1>13, <2>2, <3>1 DEF ContextFits
      <4>4. f[i] = Reference(k.at, t.sets[i], body.ranges)
        BY <3>4
      <4> QED
        BY <4>1, <4>2, <4>3, <4>4, ReferenceFits
    <3> QED
      BY <3>5, <3>6
  <2> QED
    BY <2>1, <2>2
<1>15. \A c \in k.met : CandidateFits(k, c)
  BY <1>12, <1>14 DEF A, D
<1>16. \A w \in ToSet(B) : VisitFits(k, w)
  BY <1>1, <1>2, <1>6 DEF VisitFits, IsNode
<1>17. t.kind \in {"create", "insert"} => \A w \in ToSet(R) : VisitFits(k, w)
  BY <1>1, <1>2, <1>6 DEF VisitFits, IsNode
<1>18. t.kind = "update" => \A w \in ToSet(F) : VisitFits(k, w)
  BY <1>1, <1>2, <1>6 DEF VisitFits, IsNode
<1>19. t.kind = "update" => \A w \in ToSet(X) : VisitFits(k, w)
  BY <1>3, <1>6, <1>13 DEF VisitFits, IsNode
<1>20. t.kind = "update" => \A w \in ToSet(Q) : VisitFits(k, w)
  BY <1>3, <1>6, <1>13 DEF VisitFits, IsNode
<1>21. \A w \in k.todo : VisitFits(k, w)
  BY <1>2, <1>10, <1>11, <1>16, <1>17, <1>18, <1>19, <1>20
<1>22. StatementFits(k)
  BY <1>15, <1>21 DEF StatementFits
<1> QED
  BY <1>10, <1>12, <1>14, <1>22 DEF A, D, W
-----------------------------------------------------------------------------
(* The steps.                                                               *)
LEMMA NowFacts ==
  ASSUME NEW s
  PROVE  /\ Now(s).at = s /\ Now(s).met = Mentions(s) /\ Now(s).scope = scopes[s]
         /\ Now(s).own = ToSet(locals[s])
         /\ Now(s).todo = IF s = current THEN ToSet(todo) ELSE {}
BY DEF Now

LEMMA NowPrimed ==
  ASSUME NEW s
  PROVE  /\ Now(s)'.at = s' /\ Now(s)'.met = Mentions(s)' /\ Now(s)'.scope = scopes'[s']
         /\ Now(s)'.own = ToSet(locals'[s'])
         /\ Now(s)'.todo = IF s' = current' THEN ToSet(todo') ELSE {}
BY DEF Now

LEMMA StatementFacts ==
  ASSUME document \in Documents, NEW s \in Statements
  PROVE  /\ s = <<s[1], s[2]>> /\ s[1] \in Nat \ {0} /\ s[2] \in Nat \ {0} /\ s # None
         /\ s[1] \in DOMAIN document /\ s[2] \in DOMAIN document[s[1]]
         /\ IsStatement(document[s[1]][s[2]])
<1>1. IsList(document) /\ \A region \in ToSet(document) :
                             IsList(region) /\ \A t \in ToSet(region) : IsStatement(t)
  BY ResolutionAssumption
<1>2. PICK r \in DOMAIN document : s \in {r} \X DOMAIN document[r]
  BY DEF Statements
<1>3. s = <<s[1], s[2]>> /\ s[1] \in DOMAIN document /\ s[2] \in DOMAIN document[s[1]]
  BY <1>2
<1>4. s[1] \in Nat \ {0} /\ document[s[1]] \in ToSet(document)
  BY <1>1, <1>3, ListFacts DEF ToSet
<1>5. document[s[1]][s[2]] \in ToSet(document[s[1]]) /\ s[2] \in Nat \ {0}
  BY <1>1, <1>3, <1>4, ListFacts DEF ToSet
<1>6. s # None
  BY <1>3, <1>4 DEF None
<1> QED
  BY <1>1, <1>2, <1>3, <1>4, <1>5, <1>6

(* A visit of a node of the current statement.                               *)
Visit(C, W) ==
  /\ todo # <<>>
  /\ document' = document /\ current' = current
  /\ IsList(C) /\ IsList(W)
  /\ candidates' = candidates \o C
  /\ \A c \in ToSet(C) : c.at = current
  /\ todo' = W \o Tail(todo)
  /\ DOMAIN scopes' = DOMAIN scopes /\ DOMAIN locals' = DOMAIN locals
  /\ \A s \in DOMAIN scopes : s # current => scopes'[s] = scopes[s] /\ locals'[s] = locals[s]
  /\ IsList(locals'[current])

LEMMA VisitLists ==
  ASSUME Sound, NEW C, NEW W, Visit(C, W)
  PROVE  /\ IsList(candidates') /\ ToSet(candidates') = ToSet(candidates) \cup ToSet(C)
         /\ IsList(todo') /\ ToSet(todo') = ToSet(W) \cup ToSet(Tail(todo))
         /\ ToSet(todo) \subseteq ToSet(Tail(todo)) \cup {Head(todo)}
         /\ ToSet(Tail(todo)) \subseteq ToSet(todo)
         /\ Head(todo) \in ToSet(todo)
         /\ current # None /\ current \in DOMAIN scopes
<1>1. /\ IsList(candidates) /\ IsList(todo)
      /\ current # None /\ current \in DOMAIN scopes
  BY DEF Sound, Shaped, Visit
<1>2. todo # <<>> /\ IsList(C) /\ IsList(W) /\ candidates' = candidates \o C
      /\ todo' = W \o Tail(todo)
  BY DEF Visit
<1>3. /\ IsList(Tail(todo)) /\ Head(todo) \in ToSet(todo)
      /\ ToSet(Tail(todo)) \subseteq ToSet(todo)
      /\ ToSet(todo) \subseteq ToSet(Tail(todo)) \cup {Head(todo)}
  BY <1>1, <1>2, TailList
<1>4. IsList(candidates \o C) /\ ToSet(candidates \o C) = ToSet(candidates) \cup ToSet(C)
  BY <1>1, <1>2, ConcatList
<1>5. IsList(W \o Tail(todo)) /\ ToSet(W \o Tail(todo)) = ToSet(W) \cup ToSet(Tail(todo))
  BY <1>2, <1>3, ConcatList
<1> QED
  BY <1>1, <1>2, <1>3, <1>4, <1>5

LEMMA VisitMoves ==
  ASSUME Sound, NEW C, NEW W, Visit(C, W),
         NEW L, ToSet(locals'[current]) = ToSet(locals[current]) \cup L
  PROVE  /\ Moves(Now(current), Now(current)', Head(todo), ToSet(C), L, ToSet(W))
         /\ StatementFits(Now(current)) /\ VisitFits(Now(current), Head(todo))
         /\ Now(current).at = current /\ Now(current)'.scope = scopes'[current]
         /\ Now(current).scope = scopes[current]
<1> DEFINE k == Now(current)
           h == Now(current)'
<1>1. current' = current
  BY DEF Visit
<1>2. /\ ToSet(candidates') = ToSet(candidates) \cup ToSet(C)
      /\ ToSet(todo') = ToSet(W) \cup ToSet(Tail(todo))
      /\ ToSet(todo) \subseteq ToSet(Tail(todo)) \cup {Head(todo)}
      /\ ToSet(Tail(todo)) \subseteq ToSet(todo)
      /\ Head(todo) \in ToSet(todo)
      /\ current # None /\ current \in DOMAIN scopes
  BY VisitLists
<1>3. /\ k.at = current /\ k.met = Mentions(current) /\ k.scope = scopes[current]
      /\ k.own = ToSet(locals[current]) /\ k.todo = ToSet(todo)
  BY NowFacts
<1>4. /\ h.at = current /\ h.met = Mentions(current)' /\ h.scope = scopes'[current]
      /\ h.own = ToSet(locals'[current]) /\ h.todo = ToSet(todo')
  BY <1>1, NowPrimed
<1>5. Mentions(current)' = Mentions(current) \cup ToSet(C)
  <2>1. \A c \in ToSet(C) : c.at = current
    BY DEF Visit
  <2>2. Mentions(current)' = {c \in ToSet(candidates') : c.at = current}
    BY <1>1 DEF Mentions
  <2> QED
    BY <1>2, <2>1, <2>2 DEF Mentions
<1> HIDE DEF k, h
<1>6. Moves(k, h, Head(todo), ToSet(C), L, ToSet(W))
  BY <1>2, <1>3, <1>4, <1>5 DEF Moves
<1>7. StatementFits(k)
  BY <1>2 DEF Sound, k
<1>8. VisitFits(k, Head(todo))
  BY <1>2, <1>3, <1>7 DEF StatementFits
<1> QED
  BY <1>3, <1>4, <1>6, <1>7, <1>8 DEF k, h

LEMMA VisitStep ==
  ASSUME Sound, NEW C, NEW W, Visit(C, W), StatementFits(Now(current)')
  PROVE  Sound'
<1>1. document' = document /\ current' = current /\ Statements' = Statements
  BY DEF Visit, Statements
<1>2. /\ IsList(candidates') /\ ToSet(candidates') = ToSet(candidates) \cup ToSet(C)
      /\ IsList(todo')
      /\ current # None /\ current \in DOMAIN scopes
  BY VisitLists
<1>3. /\ DOMAIN scopes' = DOMAIN scopes /\ DOMAIN locals' = DOMAIN locals
      /\ \A s \in DOMAIN scopes : s # current => scopes'[s] = scopes[s] /\ locals'[s] = locals[s]
      /\ IsList(locals'[current])
      /\ \A c \in ToSet(C) : c.at = current
  BY DEF Visit
<1>4. Shaped'
  <2>1. \A s \in DOMAIN scopes' : NotLater(s, current') /\ IsList(locals'[s])
    BY <1>1, <1>3 DEF Sound, Shaped
  <2>2. \A c \in ToSet(candidates') : c.at \in DOMAIN scopes'
    BY <1>2, <1>3 DEF Sound, Shaped
  <2> QED
    BY <1>1, <1>2, <1>3, <2>1, <2>2 DEF Sound, Shaped
<1>5. ASSUME NEW s \in DOMAIN scopes' PROVE StatementFits(Now(s))'
  <2>1. CASE s = current
    BY <1>1, <2>1
  <2>2. CASE s # current
    <3>1. Mentions(s)' = Mentions(s)
      <4>1. Mentions(s)' = {c \in ToSet(candidates') : c.at = s}
        BY DEF Mentions
      <4> QED
        BY <1>2, <1>3, <2>2, <4>1 DEF Mentions
    <3>2. Now(s)' = Now(s)
      BY <1>1, <1>3, <2>2, <3>1 DEF Now
    <3>3. StatementFits(Now(s))
      BY <1>3 DEF Sound
    <3>4. StatementFits(Now(s)')
      BY <3>2, <3>3
    <3> QED
      BY <3>4
  <2> QED
    BY <2>1, <2>2
<1> QED
  BY <1>4, <1>5 DEF Sound

LEMMA AppendList ==
  ASSUME NEW s, IsList(s), NEW x
  PROVE  Append(s, x) = s \o <<x>>
<1> DEFINE S == ToSet(s) \cup {x}
<1>1. s \in Seq(S) /\ x \in S
  BY SeqMonotonic DEF IsList
<1> HIDE DEF S
<1> QED
  BY <1>1, AppendIsConcat

LEMMA RelationStep ==
  ASSUME Sound, VisitRelation
  PROVE  Sound'
<1> DEFINE v == Head(todo)
           n == v.node.relation
           m == Look(v.context.relations, n)
           c == TableCandidate(current, n, m)
<1>1. /\ todo # <<>> /\ v.kind = "relation"
      /\ document' = document /\ current' = current /\ locals' = locals
      /\ scopes' = [scopes EXCEPT ![current] = Put(@, n, n)]
      /\ candidates' = Append(candidates, c)
      /\ todo' = <<>> \o Tail(todo)
  BY DEF VisitRelation, Visiting, VisitNext, Scope
<1>2. current \in DOMAIN scopes /\ IsList(candidates) /\ IsList(locals[current])
  BY <1>1 DEF Sound, Shaped
<1>3. candidates' = candidates \o <<c>>
  BY <1>1, <1>2, AppendList
<1>4. c.at = current
  BY TableFacts
<1> HIDE DEF c
<1>5. /\ IsList(<<>>) /\ ToSet(<<>>) = {}
      /\ IsList(<<c>>) /\ ToSet(<<c>>) = {c}
  BY ShortLists
<1>6. Visit(<<c>>, <<>>)
  BY <1>1, <1>2, <1>3, <1>4, <1>5 DEF Visit
<1>7. /\ Moves(Now(current), Now(current)', v, {c}, {}, {})
      /\ StatementFits(Now(current)) /\ VisitFits(Now(current), v)
      /\ Now(current).at = current /\ Now(current)'.scope = scopes'[current]
      /\ Now(current).scope = scopes[current]
  <2>1. ToSet(locals'[current]) = ToSet(locals[current]) \cup {}
    BY <1>1
  <2> QED
    BY <1>5, <1>6, <2>1, VisitMoves
<1>8. Now(current)'.scope = Put(Now(current).scope, n, n)
  BY <1>1, <1>2, <1>7
<1>9. StatementFits(Now(current)')
  BY <1>1, <1>7, <1>8, RelationVisited DEF c
<1> QED
  BY <1>6, <1>9, VisitStep

LEMMA TableStep ==
  ASSUME Sound, VisitTable
  PROVE  Sound'
<1> DEFINE v == Head(todo)
           n == v.node.relation
           a == v.node.alias
           m == Look(v.context.relations, n)
           c == TableCandidate(current, a, m)
           C == IF a # Nothing THEN <<c>> ELSE <<>>
           W == Visits("relation", <<v.node>>, v.context)
<1>1. /\ todo # <<>> /\ v.kind = "factor" /\ v.node.query = Nothing
      /\ document' = document /\ current' = current /\ locals' = locals
      /\ scopes' = IF a # Nothing THEN [scopes EXCEPT ![current] = Put(@, a, n)] ELSE scopes
      /\ candidates' = IF a # Nothing THEN Append(candidates, c) ELSE candidates
      /\ todo' = W \o Tail(todo)
  BY DEF VisitTable, Visiting, VisitNext, Scope
<1>2. current \in DOMAIN scopes /\ IsList(candidates) /\ IsList(locals[current])
  BY <1>1 DEF Sound, Shaped
<1>3. candidates' = candidates \o C
  <2>1. candidates \o <<>> = candidates
    BY <1>2 DEF IsList
  <2>2. Append(candidates, c) = candidates \o <<c>>
    BY <1>2, AppendList
  <2> HIDE DEF c
  <2> QED
    BY <1>1, <2>1, <2>2
<1>4. c.at = current
  BY TableFacts
<1> HIDE DEF c, C, W
<1>5. IsList(C) /\ ToSet(C) = IF a # Nothing THEN {c} ELSE {}
  BY ShortLists DEF C
<1>6. PICK w \in ToSet(W) : w.kind = "relation" /\ w.node = v.node /\ w.context = v.context
  <2>1. IsList(<<v.node>>) /\ ToSet(<<v.node>>) = {v.node}
    BY ShortLists
  <2> QED
    BY <2>1, VisitsFacts DEF W
<1>7. IsList(W) /\ ToSet(W) = {w}
  <2> DEFINE x == [kind |-> "relation", node |-> v.node, context |-> v.context]
  <2>1. W = <<x>>
    BY DEF W, Visits
  <2> HIDE DEF x
  <2> QED
    BY <1>6, <2>1, ShortLists
<1>8. Visit(C, W)
  BY <1>1, <1>2, <1>3, <1>4, <1>5, <1>7 DEF Visit
<1>9. /\ Moves(Now(current), Now(current)', v, ToSet(C), {}, {w})
      /\ StatementFits(Now(current)) /\ VisitFits(Now(current), v)
      /\ Now(current).at = current /\ Now(current)'.scope = scopes'[current]
      /\ Now(current).scope = scopes[current]
  <2>1. ToSet(locals'[current]) = ToSet(locals[current]) \cup {}
    BY <1>1
  <2> QED
    BY <1>7, <1>8, <2>1, VisitMoves
<1>10. Now(current)'.scope = IF a # Nothing THEN Put(Now(current).scope, a, n)
                             ELSE Now(current).scope
  BY <1>1, <1>2, <1>9
<1>11. ToSet(C) = IF a # Nothing THEN {TableCandidate(Now(current).at, a, m)} ELSE {}
  BY <1>5, <1>9 DEF c
<1>12. StatementFits(Now(current)')
  <2> DEFINE k == Now(current)
             h == Now(current)'
             D == ToSet(C)
  <2> HIDE DEF k, h, D
  <2>1. /\ Moves(k, h, v, D, {}, {w}) /\ StatementFits(k) /\ VisitFits(k, v)
        /\ D = IF a # Nothing THEN {TableCandidate(k.at, a, m)} ELSE {}
        /\ h.scope = IF a # Nothing THEN Put(k.scope, a, n) ELSE k.scope
    BY <1>9, <1>10, <1>11 DEF k, h, D
  <2>2. StatementFits(h)
    BY <1>1, <1>6, <2>1, TableVisited
  <2> QED
    BY <2>2 DEF h
<1> QED
  BY <1>8, <1>12, VisitStep

LEMMA DerivedStep ==
  ASSUME Sound, VisitDerived
  PROVE  Sound'
<1> DEFINE v == Head(todo)
           a == v.node.alias
           m == FromRelation(v.node, v.context.relations, current)
           l == [name |-> a, columns |-> DeriveQueryColumns(v.node.query)]
           c == TableCandidate(current, a, m)
           W == Visits("query", <<v.node.query>>, v.context)
<1>1. /\ todo # <<>> /\ v.kind = "factor" /\ v.node.query # Nothing /\ a # Nothing
      /\ document' = document /\ current' = current
      /\ scopes' = [scopes EXCEPT ![current] = Put(@, a, a)]
      /\ locals' = [locals EXCEPT ![current] = Append(@, l)]
      /\ candidates' = Append(candidates, c)
      /\ todo' = W \o Tail(todo)
  BY DEF VisitDerived, Visiting, VisitNext, Scope
<1>2. current \in DOMAIN scopes /\ DOMAIN locals = DOMAIN scopes
      /\ IsList(candidates) /\ IsList(locals[current])
  BY <1>1 DEF Sound, Shaped
<1>3. candidates' = candidates \o <<c>>
  BY <1>1, <1>2, AppendList
<1>4. c.at = current /\ l.name = a
  BY TableFacts
<1> HIDE DEF c, W, l
<1>5. IsList(<<c>>) /\ ToSet(<<c>>) = {c} /\ IsList(<<l>>) /\ ToSet(<<l>>) = {l}
  BY ShortLists
<1>6. /\ IsList(locals'[current])
      /\ ToSet(locals'[current]) = ToSet(locals[current]) \cup {l}
  <2>1. locals'[current] = locals[current] \o <<l>>
    BY <1>1, <1>2, AppendList
  <2> QED
    BY <1>2, <1>5, <2>1, ConcatList
<1>7. PICK w \in ToSet(W) : w.kind = "query" /\ w.node = v.node.query /\ w.context = v.context
  <2>1. IsList(<<v.node.query>>) /\ ToSet(<<v.node.query>>) = {v.node.query}
    BY ShortLists
  <2> QED
    BY <2>1, VisitsFacts DEF W
<1>8. IsList(W) /\ ToSet(W) = {w}
  <2> DEFINE x == [kind |-> "query", node |-> v.node.query, context |-> v.context]
  <2>1. W = <<x>>
    BY DEF W, Visits
  <2> HIDE DEF x
  <2> QED
    BY <1>7, <2>1, ShortLists
<1>9. Visit(<<c>>, W)
  BY <1>1, <1>2, <1>3, <1>4, <1>5, <1>6, <1>8 DEF Visit
<1>10. /\ Moves(Now(current), Now(current)', v, {c}, {l}, {w})
       /\ StatementFits(Now(current)) /\ VisitFits(Now(current), v)
       /\ Now(current).at = current /\ Now(current)'.scope = scopes'[current]
       /\ Now(current).scope = scopes[current]
  BY <1>5, <1>6, <1>8, <1>9, VisitMoves
<1>11. Now(current)'.scope = Put(Now(current).scope, a, a)
  BY <1>1, <1>2, <1>10
<1>12. StatementFits(Now(current)')
  <2> DEFINE k == Now(current)
             h == Now(current)'
  <2> HIDE DEF k, h
  <2>1. /\ Moves(k, h, v, {TableCandidate(k.at, a, m)}, {l}, {w})
        /\ StatementFits(k) /\ VisitFits(k, v)
        /\ h.scope = Put(k.scope, a, a) /\ m = FromRelation(v.node, v.context.relations, k.at)
    BY <1>10, <1>11 DEF k, h, c
  <2>2. StatementFits(h)
    BY <1>1, <1>4, <1>7, <2>1, DerivedVisited
  <2> QED
    BY <2>2 DEF h
<1> QED
  BY <1>9, <1>12, VisitStep

LEMMA NamelessStep ==
  ASSUME Sound, VisitNameless
  PROVE  Sound'
<1> DEFINE v == Head(todo)
           W == Visits("query", <<v.node.query>>, v.context)
<1>1. /\ todo # <<>> /\ v.kind = "factor" /\ v.node.query # Nothing /\ v.node.alias = Nothing
      /\ document' = document /\ current' = current
      /\ scopes' = scopes /\ locals' = locals /\ candidates' = candidates
      /\ todo' = W \o Tail(todo)
  BY DEF VisitNameless, Visiting, VisitNext
<1>2. current \in DOMAIN scopes /\ IsList(candidates) /\ IsList(locals[current])
  BY <1>1 DEF Sound, Shaped
<1>3. candidates' = candidates \o <<>>
  BY <1>1, <1>2 DEF IsList
<1>4. IsList(<<>>) /\ ToSet(<<>>) = {}
  BY ShortLists
<1> HIDE DEF W
<1>5. PICK w \in ToSet(W) : w.kind = "query" /\ w.node = v.node.query /\ w.context = v.context
  <2>1. IsList(<<v.node.query>>) /\ ToSet(<<v.node.query>>) = {v.node.query}
    BY ShortLists
  <2> QED
    BY <2>1, VisitsFacts DEF W
<1>6. IsList(W) /\ ToSet(W) = {w}
  <2> DEFINE x == [kind |-> "query", node |-> v.node.query, context |-> v.context]
  <2>1. W = <<x>>
    BY DEF W, Visits
  <2> HIDE DEF x
  <2> QED
    BY <1>5, <2>1, ShortLists
<1>7. Visit(<<>>, W)
  BY <1>1, <1>2, <1>3, <1>4, <1>6 DEF Visit
<1>8. /\ Moves(Now(current), Now(current)', v, {}, {}, {w})
      /\ StatementFits(Now(current)) /\ VisitFits(Now(current), v)
      /\ Now(current)'.scope = scopes'[current] /\ Now(current).scope = scopes[current]
  <2>1. ToSet(locals'[current]) = ToSet(locals[current]) \cup {}
    BY <1>1
  <2> QED
    BY <1>4, <1>6, <1>7, <2>1, VisitMoves
<1>9. StatementFits(Now(current)')
  <2> DEFINE k == Now(current)
             h == Now(current)'
  <2> HIDE DEF k, h
  <2>1. /\ Moves(k, h, v, {}, {}, {w}) /\ StatementFits(k) /\ VisitFits(k, v)
        /\ h.scope = k.scope
    BY <1>1, <1>8 DEF k, h
  <2>2. StatementFits(h)
    BY <1>1, <1>5, <2>1, NamelessVisited
  <2> QED
    BY <2>2 DEF h
<1> QED
  BY <1>7, <1>9, VisitStep

LEMMA ExprStep ==
  ASSUME Sound, VisitExpr
  PROVE  Sound'
<1> DEFINE v == Head(todo)
           C == Reference(current, v.node, v.context.ranges)
<1>1. /\ todo # <<>> /\ v.kind = "expr"
      /\ document' = document /\ current' = current /\ scopes' = scopes /\ locals' = locals
      /\ candidates' = candidates \o C
      /\ todo' = <<>> \o Tail(todo)
  BY DEF VisitExpr, Visiting, VisitNext
<1>2. current \in DOMAIN scopes /\ IsList(candidates) /\ IsList(locals[current])
  BY <1>1 DEF Sound, Shaped
<1>3. IsList(C) /\ \A c \in ToSet(C) : c.at = current
  <2>1. IsList(C)
    BY ReferenceList
  <2>2. \A n, q, m : /\ TableCandidate(current, n, m).at = current
                     /\ ColumnCandidate(current, q, n, m).at = current
    BY TableFacts, ColumnFacts
  <2>3. \A c \in ToSet(C) : c.at = current
    BY <2>2, ShortLists DEF Reference
  <2> QED
    BY <2>1, <2>3
<1> HIDE DEF C
<1>4. IsList(<<>>) /\ ToSet(<<>>) = {}
  BY ShortLists
<1>5. Visit(C, <<>>)
  BY <1>1, <1>2, <1>3, <1>4 DEF Visit
<1>6. /\ Moves(Now(current), Now(current)', v, ToSet(C), {}, {})
      /\ StatementFits(Now(current)) /\ VisitFits(Now(current), v)
      /\ Now(current).at = current /\ Now(current)'.scope = Now(current).scope
  <2>1. ToSet(locals'[current]) = ToSet(locals[current]) \cup {}
    BY <1>1
  <2> QED
    BY <1>1, <1>4, <1>5, <2>1, VisitMoves
<1>7. StatementFits(Now(current)')
  BY <1>1, <1>6, ExprVisited DEF C
<1> QED
  BY <1>5, <1>7, VisitStep

LEMMA ChildrenList ==
  ASSUME NEW query \in Queries, NEW context, NEW s
  PROVE  IsList(QueryChildren(query, context, s))
<1> DEFINE ctes == query.ctes
           seen == WithRelations(query, context.relations, s)
           inner == [context EXCEPT !.relations = seen[Len(ctes)]]
           body == WithRanges(query.from, inner, s)
           A == [i \in 1..Len(ctes) |->
                   [kind |-> "query", node |-> ctes[i].query,
                    context |-> [context EXCEPT !.relations = seen[i - 1]]]]
           X == Visits("expr", query.items, body)
           F == Visits("factor", query.from, inner)
           Q == Visits("query", query.nested, body)
<1>1. IsList(ctes) /\ IsList(query.from) /\ IsList(query.items) /\ IsList(query.nested)
  BY ResolutionAssumption DEF IsQuery
<1>2. Len(ctes) \in Nat /\ DOMAIN ctes = 1..Len(ctes)
  BY <1>1, ListFacts
<1>3. QueryChildren(query, context, s) = ((A \o X) \o F) \o Q
  BY <1>2 DEF QueryChildren
<1>4. A = [i \in 1..Len(ctes) |-> A[i]]
  OBVIOUS
<1> HIDE DEF A, inner, body
<1>5. IsList(A)
  BY <1>2, <1>4, ListMade
<1>6. IsList(X) /\ IsList(F) /\ IsList(Q)
  BY <1>1, VisitsFacts
<1> HIDE DEF X, F, Q
<1> QED
  BY <1>3, <1>5, <1>6, ConcatList

LEMMA QueryStep ==
  ASSUME Sound, VisitQuery
  PROVE  Sound'
<1> DEFINE v == Head(todo)
           query == v.node
           ctes == query.ctes
           seen == WithRelations(query, v.context.relations, current)
           names == {ctes[i].name : i \in 1..Len(ctes)}
           C == [i \in 1..Len(ctes) |->
                   TableCandidate(current, ctes[i].name, seen[i][ctes[i].name])]
           L == CteLocals(query)
           W == QueryChildren(query, v.context, current)
           scope == scopes[current]
           k == Now(current)
           h == Now(current)'
<1>1. todo # <<>> /\ v.kind = "query"
  BY DEF VisitQuery, Visiting
<1>2. /\ current \in DOMAIN scopes /\ DOMAIN locals = DOMAIN scopes
      /\ IsList(candidates) /\ IsList(locals[current])
      /\ StatementFits(k) /\ v \in ToSet(todo) /\ k.todo = ToSet(todo)
  BY <1>1, TailList, NowFacts DEF Sound, Shaped
<1>3. query \in Queries
  BY <1>1, <1>2 DEF StatementFits, VisitFits, IsNode
<1>4. IsList(ctes) /\ Len(ctes) \in Nat /\ DOMAIN ctes = 1..Len(ctes)
  BY <1>3, ResolutionAssumption, ListFacts DEF IsQuery
<1>5. /\ document' = document /\ current' = current
      /\ scopes' = [scopes EXCEPT ![current] =
                      [n \in DOMAIN @ \cup names |-> IF n \in names THEN n ELSE @[n]]]
      /\ locals' = [locals EXCEPT ![current] = @ \o L]
      /\ candidates' = candidates \o C
      /\ todo' = W \o Tail(todo)
  BY <1>4 DEF VisitQuery, VisitNext, CteScope
<1>6. IsList(W)
  BY <1>3, ChildrenList
<1>7. /\ IsList(C) /\ ToSet(C) = {C[i] : i \in 1..Len(ctes)}
      /\ \A i \in 1..Len(ctes) :
           /\ C[i].kind = "table" /\ C[i].at = current /\ C[i].name = ctes[i].name
           /\ C[i].means = seen[i][ctes[i].name]
  <2>1. C = [i \in 1..Len(ctes) |-> C[i]]
    OBVIOUS
  <2>2. \A i \in 1..Len(ctes) :
           C[i] = TableCandidate(current, ctes[i].name, seen[i][ctes[i].name])
    OBVIOUS
  <2> HIDE DEF C, seen
  <2>3. \A i \in 1..Len(ctes) :
           /\ C[i].kind = "table" /\ C[i].at = current /\ C[i].name = ctes[i].name
           /\ C[i].means = seen[i][ctes[i].name]
    BY <2>2, TableFacts
  <2> QED
    BY <1>4, <2>1, <2>3, ListMade
<1>8. /\ IsList(L) /\ ToSet(L) = {L[i] : i \in 1..Len(ctes)}
      /\ \A i \in 1..Len(ctes) : L[i].name = ctes[i].name
  <2> DEFINE columns == [i \in 1..Len(ctes) |->
               IF ctes[i].columns # {} THEN ctes[i].columns ELSE DeriveQueryColumns(ctes[i].query)]
  <2>1. L = [i \in 1..Len(ctes) |-> [name |-> ctes[i].name, columns |-> columns[i]]]
    BY <1>4 DEF CteLocals
  <2> HIDE DEF L, columns
  <2>2. L = [i \in 1..Len(ctes) |-> L[i]] /\ \A i \in 1..Len(ctes) : L[i].name = ctes[i].name
    BY <2>1
  <2> QED
    BY <1>4, <2>2, ListMade
<1> HIDE DEF C, L, W, seen
<1>9. /\ IsList(locals'[current])
      /\ ToSet(locals'[current]) = ToSet(locals[current]) \cup ToSet(L)
  <2>1. locals'[current] = locals[current] \o L
    BY <1>2, <1>5
  <2> QED
    BY <1>2, <1>8, <2>1, ConcatList
<1>10. Visit(C, W)
  <2>1. \A s \in DOMAIN scopes : s # current => scopes'[s] = scopes[s] /\ locals'[s] = locals[s]
    BY <1>2, <1>5
  <2>2. DOMAIN scopes' = DOMAIN scopes /\ DOMAIN locals' = DOMAIN locals
    BY <1>2, <1>5
  <2>3. \A c \in ToSet(C) : c.at = current
    BY <1>7
  <2> QED
    BY <1>1, <1>5, <1>6, <1>7, <1>9, <2>1, <2>2, <2>3 DEF Visit
<1>11. /\ Moves(k, h, v, ToSet(C), ToSet(L), ToSet(W))
       /\ StatementFits(k) /\ VisitFits(k, v)
       /\ k.at = current /\ h.scope = scopes'[current] /\ k.scope = scope
  BY <1>9, <1>10, VisitMoves
<1>12. /\ DOMAIN h.scope = DOMAIN scope \cup names
       /\ \A n \in DOMAIN h.scope : h.scope[n] = IF n \in names THEN n ELSE scope[n]
  <2>1. h.scope = [n \in DOMAIN scope \cup names |-> IF n \in names THEN n ELSE scope[n]]
    BY <1>2, <1>5, <1>11
  <2> HIDE DEF names, h
  <2> QED
    BY <2>1
<1> HIDE DEF h, k, scope
<1>13. h.at = k.at /\ h.at # None /\ k.own \subseteq h.own /\ ToSet(L) \subseteq h.own
  BY <1>11 DEF Moves
<1>14. RelationsFit(h, v.context.relations)
  <2>1. RelationsFit(k, v.context.relations)
    BY <1>11 DEF VisitFits, ContextFits
  <2> QED
    BY <1>13, <2>1 DEF RelationsFit
<1>15. \A i \in 1..Len(ctes) : \E l \in h.own : l.name = ctes[i].name
  BY <1>8, <1>13
<1>16. ASSUME NEW i \in 1..Len(ctes)
       PROVE  C[i].means = [name |-> C[i].name, columns |-> C[i].means.columns, at |-> k.at]
  <2> DEFINE relations == v.context.relations
  <2>1. LET n == ctes[i].name
            m == WithRelations(query, relations, h.at)[i][n]
        IN  m = [name |-> n, columns |-> m.columns, at |-> h.at]
    <3>1. h.at # None /\ RelationsFit(h, relations) /\ query \in Queries
          /\ \A j \in 1..Len(query.ctes) : \E l \in h.own : l.name = query.ctes[j].name
      BY <1>3, <1>13, <1>14, <1>15
    <3> HIDE DEF relations, query
    <3>2. \A j \in 1..Len(query.ctes) :
            LET n == query.ctes[j].name
                m == WithRelations(query, relations, h.at)[j][n]
            IN  m = [name |-> n, columns |-> m.columns, at |-> h.at]
      BY <3>1, SeenFacts
    <3> QED
      BY <3>2
  <2> QED
    BY <1>7, <1>11, <1>13, <2>1 DEF seen
<1>17. IsCtes(k, h, query, ToSet(C), ToSet(L))
  BY <1>7, <1>8, <1>11, <1>12, <1>16 DEF IsCtes
<1>18. StatementFits(h)
  <2>1. W = QueryChildren(v.node, v.context, k.at)
    BY <1>11 DEF W
  <2> QED
    BY <1>1, <1>11, <1>17, <2>1, QueryVisited
<1> QED
  BY <1>10, <1>18, VisitStep DEF h

LEMMA StatementStep ==
  ASSUME Sound, VisitStatement
  PROVE  Sound'
<1> DEFINE s == After(current)
           t == document[s[1]][s[2]]
           D == ColumnDefs(s, t)
           A == AssignmentTargets(s, t)
           W == StatementChildren(t, s)
           empty == [n \in {} |-> n]
           M == ToSet(D) \cup ToSet(A)
           k == [at |-> s, met |-> M, scope |-> empty, own |-> ToSet(<<>>), todo |-> ToSet(W)]
<1>1. /\ todo = <<>> /\ s \in Statements
      /\ document' = document /\ current' = s
      /\ scopes' = Put(scopes, s, empty) /\ locals' = Put(locals, s, <<>>)
      /\ candidates' = (candidates \o D) \o A
      /\ todo' = W
  BY DEF VisitStatement
<1>2. /\ document \in Documents /\ IsList(candidates)
      /\ current \in Statements \cup {None}
      /\ DOMAIN scopes \subseteq Statements /\ DOMAIN locals = DOMAIN scopes
      /\ \A r \in DOMAIN scopes : NotLater(r, current) /\ IsList(locals[r])
      /\ \A c \in ToSet(candidates) : c.at \in DOMAIN scopes
      /\ \A r \in DOMAIN scopes : StatementFits(Now(r))
  BY DEF Sound, Shaped
<1>3. s # None /\ IsStatement(t)
  BY <1>1, <1>2, StatementFacts
<1>4. IsList(<<>>) /\ ToSet(<<>>) = {} /\ DOMAIN empty = {}
  BY ShortLists
<1>5. s = <<current[1], current[2] + 1>> \/ s = <<current[1] + 1, 1>>
  BY DEF After
<1> HIDE DEF s, t, D, A, W, M, empty
<1>6. /\ k.at = s /\ k.met = M /\ k.scope = empty /\ k.own = {} /\ k.todo = ToSet(W)
  BY <1>4
<1>7. /\ IsList(D) /\ IsList(A) /\ IsList(W) /\ StatementFits(k)
  <2> HIDE DEF k
  <2> QED
    BY <1>3, <1>4, <1>6, StatementVisited DEF M, D, A, W
<1>8. \A c \in M : c.at = s
  BY <1>6, <1>7 DEF StatementFits, CandidateFits
<1>9. IsList(candidates') /\ ToSet(candidates') = ToSet(candidates) \cup M
  <2>1. IsList(candidates \o D) /\ ToSet(candidates \o D) = ToSet(candidates) \cup ToSet(D)
    BY <1>2, <1>7, ConcatList
  <2>2. /\ IsList((candidates \o D) \o A)
        /\ ToSet((candidates \o D) \o A) = ToSet(candidates \o D) \cup ToSet(A)
    BY <1>7, <2>1, ConcatList
  <2> QED
    BY <1>1, <2>1, <2>2 DEF M
<1>10. ASSUME NEW r \in DOMAIN scopes PROVE NotLater(r, s) /\ r # s
  <2>1. r[1] \in Nat /\ r[2] \in Nat
    BY <1>2, StatementFacts
  <2>2. current[1] \in Nat /\ current[2] \in Nat
    BY <1>2, StatementFacts DEF None
  <2>3. r[1] < current[1] \/ (r[1] = current[1] /\ r[2] <= current[2])
    BY <1>2 DEF NotLater
  <2>4. CASE s = <<current[1], current[2] + 1>>
    <3>1. s[1] = current[1] /\ s[2] = current[2] + 1
      BY <2>4
    <3>2. r[1] < s[1] \/ (r[1] = s[1] /\ r[2] < s[2])
      BY <2>1, <2>2, <2>3, <3>1
    <3>3. s[1] \in Nat /\ s[2] \in Nat
      BY <2>2, <3>1
    <3> QED
      BY <2>1, <3>2, <3>3 DEF NotLater
  <2>5. CASE s = <<current[1] + 1, 1>>
    <3>1. s[1] = current[1] + 1
      BY <2>5
    <3>2. r[1] < s[1] /\ s[1] \in Nat
      BY <2>1, <2>2, <2>3, <3>1
    <3> QED
      BY <2>1, <3>2 DEF NotLater
  <2> QED
    BY <1>5, <2>4, <2>5
<1>11. IsPut(scopes', scopes, s, empty) /\ IsPut(locals', locals, s, <<>>)
  BY <1>1, PutFacts
<1>12. Statements' = Statements
  BY <1>1 DEF Statements
<1>13. Shaped'
  <2>1. NotLater(s, s)
    BY <1>1, <1>2, StatementFacts DEF NotLater
  <2>2. \A r \in DOMAIN scopes' : NotLater(r, current') /\ IsList(locals'[r])
    <3> TAKE r \in DOMAIN scopes'
    <3>1. CASE r = s
      BY <1>1, <1>4, <1>11, <2>1, <3>1 DEF IsPut
    <3>2. CASE r # s
      <4>1. r \in DOMAIN scopes /\ r \in DOMAIN locals /\ locals'[r] = locals[r]
        BY <1>2, <1>11, <3>2 DEF IsPut
      <4> QED
        BY <1>1, <1>2, <1>10, <4>1
    <3> QED
      BY <3>1, <3>2
  <2>3. \A c \in ToSet(candidates') : c.at \in DOMAIN scopes'
    BY <1>2, <1>8, <1>9, <1>11 DEF IsPut
  <2>4. DOMAIN scopes' \subseteq Statements' /\ DOMAIN locals' = DOMAIN scopes'
        /\ current' \in Statements' \cup {None} /\ current' \in DOMAIN scopes'
        /\ document' \in Documents /\ current' # None /\ IsList(todo')
    BY <1>1, <1>2, <1>3, <1>7, <1>11, <1>12 DEF IsPut
  <2> QED
    BY <1>9, <2>2, <2>3, <2>4 DEF Shaped
<1>14. ASSUME NEW r \in DOMAIN scopes' PROVE StatementFits(Now(r))'
  <2>0. Mentions(r)' = {c \in ToSet(candidates') : c.at = r}
    BY DEF Mentions
  <2>1. CASE r = s
    <3>1. Mentions(r)' = M
      BY <1>2, <1>8, <1>9, <1>10, <2>0, <2>1
    <3>2. Now(r)' = k
      <4>1. scopes'[r] = empty /\ locals'[r] = <<>>
        BY <1>11, <2>1 DEF IsPut
      <4>2. Now(r)' = [at |-> r, met |-> Mentions(r)', scope |-> scopes'[r],
                       own |-> ToSet(locals'[r]),
                       todo |-> IF r = current' THEN ToSet(todo') ELSE {}]
        BY DEF Now
      <4> QED
        BY <1>1, <2>1, <3>1, <4>1, <4>2
    <3>3. StatementFits(Now(r)')
      BY <1>7, <3>2
    <3> QED
      BY <3>3
  <2>2. CASE r # s
    <3>1. r \in DOMAIN scopes /\ scopes'[r] = scopes[r] /\ locals'[r] = locals[r]
      BY <1>2, <1>11, <2>2 DEF IsPut
    <3>2. Mentions(r)' = Mentions(r)
      BY <1>8, <1>9, <2>0, <2>2 DEF Mentions
    <3>3. Now(r)' = Now(r)
      BY <1>1, <1>4, <2>2, <3>1, <3>2 DEF Now
    <3>4. StatementFits(Now(r)')
      BY <1>2, <3>1, <3>3
    <3> QED
      BY <3>4
  <2> QED
    BY <2>1, <2>2
<1> QED
  BY <1>13, <1>14 DEF Sound

LEMMA SoundInvariant == Spec => []Sound
<1>1. Init => Sound
  <2> SUFFICES ASSUME Init PROVE Sound
    OBVIOUS
  <2>1. /\ document \in Documents /\ current = None /\ todo = <<>> /\ candidates = <<>>
        /\ DOMAIN scopes = {} /\ DOMAIN locals = {}
    BY DEF Init
  <2>2. IsList(<<>>) /\ ToSet(<<>>) = {}
    BY ShortLists
  <2> QED
    BY <2>1, <2>2 DEF Sound, Shaped
<1>2. Sound /\ [Next]_vars => Sound'
  <2> SUFFICES ASSUME Sound, [Next]_vars PROVE Sound'
    OBVIOUS
  <2>1. CASE VisitStatement
    BY <2>1, StatementStep
  <2>2. CASE VisitQuery
    BY <2>2, QueryStep
  <2>3. CASE VisitRelation
    BY <2>3, RelationStep
  <2>4. CASE VisitTable
    BY <2>4, TableStep
  <2>5. CASE VisitDerived
    BY <2>5, DerivedStep
  <2>6. CASE VisitExpr
    BY <2>6, ExprStep
  <2>8. CASE VisitNameless
    BY <2>8, NamelessStep
  <2>7. CASE UNCHANGED vars
    <3>1. /\ Shaped' <=> Shaped
          /\ scopes' = scopes /\ \A s : Now(s)' = Now(s)
      BY <2>7 DEF vars, Shaped, Now, Mentions, Statements
    <3> QED
      BY <3>1 DEF Sound
  <2> QED
    BY <2>1, <2>2, <2>3, <2>4, <2>5, <2>6, <2>7, <2>8 DEF Next
<1> QED
  BY <1>1, <1>2, PTL DEF Spec

(* The scope of a statement leads names to names, and the local relations of    *)
(* it are in it (resolve.rs, StatementScope).                                *)
THEOREM TypeCorrect == Spec => []TypeOK
<1>1. Sound => TypeOK
  <2> SUFFICES ASSUME Sound PROVE TypeOK
    OBVIOUS
  <2>1. ASSUME NEW s \in DOMAIN scopes
        PROVE  /\ DOMAIN scopes[s] \subseteq Names
               /\ \A n \in DOMAIN scopes[s] : scopes[s][n] \in Names
               /\ \A l \in ToSet(locals[s]) : l.name \in DOMAIN scopes[s]
               /\ \A c \in ToSet(candidates) : c.at = s => c.kind \in {"table", "column"}
    <3>1. StatementFits(Now(s))
      BY DEF Sound
    <3>2. \A c \in ToSet(candidates) : c.at = s => c \in Now(s).met
      BY NowFacts DEF Mentions
    <3> QED
      BY <3>1, <3>2, NowFacts DEF StatementFits, ScopeFits, LocalFits, CandidateFits
  <2>2. ASSUME NEW v \in ToSet(todo)
        PROVE  v.kind \in {"query", "relation", "factor", "expr"}
    <3>1. todo # <<>>
      BY <2>2, ShortLists
    <3>2. current \in DOMAIN scopes
      BY <3>1 DEF Sound, Shaped
    <3>3. StatementFits(Now(current)) /\ v \in Now(current).todo
      BY <3>2, NowFacts DEF Sound
    <3> QED
      BY <3>3 DEF StatementFits, VisitFits, IsNode
  <2>3. \A c \in ToSet(candidates) : c.kind \in {"table", "column"} /\ c.at \in DOMAIN scopes
    BY <2>1 DEF Sound, Shaped
  <2> QED
    BY <2>1, <2>2, <2>3 DEF Sound, Shaped, TypeOK
<1> QED
  BY <1>1, SoundInvariant, PTL
-----------------------------------------------------------------------------
(* Lookups.                                                                 *)
LocalAs(s, l) == [name |-> l.name, columns |-> l.columns, at |-> s]

(* The local relation of a name, and the one that has a column.               *)
OwnNamed(s, n)       == FirstLocal(s, LAMBDA r : r.name = n)
OwnHaving(s, column) == FirstLocal(s, LAMBDA r : column \in r.columns)

LEMMA LocalByName ==
  ASSUME NEW s, IsList(locals[s]), NEW n
  PROVE  \/ OwnNamed(s, n) = Unknown /\ \A l \in ToSet(locals[s]) : l.name # n
         \/ \E l \in ToSet(locals[s]) : l.name = n /\ OwnNamed(s, n) = LocalAs(s, l)
<1> DEFINE I == {i \in 1..Len(locals[s]) : locals[s][i].name = n}
           p == IF I # {} THEN Min(I) ELSE 0
           own == OwnNamed(s, n)
<1>1. Len(locals[s]) \in Nat /\ ToSet(locals[s]) = {locals[s][i] : i \in 1..Len(locals[s])}
  BY ListFacts DEF ToSet
<1>2. own = IF p = 0 THEN Unknown ELSE LocalAs(s, locals[s][p])
  BY DEF OwnNamed, FirstLocal, SelectInSeq, LocalAs
<1>3. I \subseteq Nat /\ \A i \in I : i # 0 /\ i \in 1..Len(locals[s]) /\ locals[s][i].name = n
  BY <1>1
<1>4. I = {} => \A i \in 1..Len(locals[s]) : locals[s][i].name # n
  OBVIOUS
<1> HIDE DEF I, own
<1>5. I # {} => p \in I
  BY <1>3, MinIsLeast
<1>6. CASE I = {}
  BY <1>1, <1>2, <1>4, <1>6 DEF own
<1>7. CASE I # {}
  <2> HIDE DEF p
  <2> QED
    BY <1>1, <1>2, <1>3, <1>5, <1>7 DEF own
<1> QED
  BY <1>6, <1>7

LEMMA LocalByColumn ==
  ASSUME NEW s, IsList(locals[s]), NEW column
  PROVE  \/ OwnHaving(s, column) = Unknown /\ \A l \in ToSet(locals[s]) : column \notin l.columns
         \/ \E l \in ToSet(locals[s]) :
              column \in l.columns /\ OwnHaving(s, column) = LocalAs(s, l)
<1> DEFINE I == {i \in 1..Len(locals[s]) : column \in locals[s][i].columns}
           p == IF I # {} THEN Min(I) ELSE 0
           own == OwnHaving(s, column)
<1>1. Len(locals[s]) \in Nat /\ ToSet(locals[s]) = {locals[s][i] : i \in 1..Len(locals[s])}
  BY ListFacts DEF ToSet
<1>2. own = IF p = 0 THEN Unknown ELSE LocalAs(s, locals[s][p])
  BY DEF OwnHaving, FirstLocal, SelectInSeq, LocalAs
<1>3. I \subseteq Nat /\ \A i \in I : i # 0 /\ i \in 1..Len(locals[s]) /\ column \in locals[s][i].columns
  BY <1>1
<1>4. I = {} => \A i \in 1..Len(locals[s]) : column \notin locals[s][i].columns
  OBVIOUS
<1> HIDE DEF I, own
<1>5. I # {} => p \in I
  BY <1>3, MinIsLeast
<1>6. CASE I = {}
  BY <1>1, <1>2, <1>4, <1>6 DEF own
<1>7. CASE I # {}
  <2> HIDE DEF p
  <2> QED
    BY <1>1, <1>2, <1>3, <1>5, <1>7 DEF own
<1> QED
  BY <1>6, <1>7

LEMMA LocalAsFacts ==
  ASSUME NEW s, s # None, NEW l
  PROVE  /\ LocalAs(s, l).name = l.name /\ LocalAs(s, l).columns = l.columns
         /\ LocalAs(s, l).at = s /\ LocalAs(s, l) # Unknown
<1>1. LocalAs(s, l).name = l.name /\ LocalAs(s, l).columns = l.columns /\ LocalAs(s, l).at = s
  BY DEF LocalAs
<1> QED
  BY <1>1, UnknownFacts

LEMMA IndexedFacts ==
  ASSUME NEW t
  PROVE  /\ t \in DOMAIN Schema => Indexed(t) = Stored(t) /\ Indexed(t) # Unknown
         /\ t \notin DOMAIN Schema => Indexed(t) = Unknown
<1>1. CASE t \in DOMAIN Schema
  BY <1>1, StoredFacts
<1>2. CASE t \notin DOMAIN Schema
  BY <1>2 DEF Indexed
<1> QED
  BY <1>1, <1>2

(* Everything is visited: n is a name of m in the statement.                  *)
IsMeant(s, n, m) == Bound(Now(s), n, m) /\ IsRelation(Now(s), m)

LEMMA Settled ==
  ASSUME Sound, Collected, NEW s \in Statements
  PROVE  /\ s # None /\ IsList(locals[s]) /\ Now(s).at = s
         /\ \A n \in DOMAIN scopes[s] : \E c \in Mentions(s) :
              c.kind = "table" /\ c.name = n /\ Leads(c.means, scopes[s][n])
         /\ DOMAIN scopes[s] \subseteq Names
         /\ \A l \in ToSet(locals[s]) : \E c \in Mentions(s) :
              /\ c.kind = "table" /\ c.name = l.name
              /\ c.means.name = l.name /\ IsLocal(c.means)
         /\ \A c \in Mentions(s) :
              /\ c.kind \in {"table", "column"}
              /\ c.kind = "table" => IsMeant(s, c.name, c.means)
              /\ c.kind = "column" =>
                   /\ c.name # Nothing
                   /\ IF c.qualifier # Nothing THEN IsMeant(s, c.qualifier, c.means)
                      ELSE c.means.name = Nothing \/ \E n : IsMeant(s, n, c.means)
<1> DEFINE k == Now(s)
<1>1. s \in DOMAIN scopes /\ s # None /\ todo = <<>> /\ IsList(locals[s])
  BY StatementFacts DEF Collected, Sound, Shaped
<1>2. /\ k.at = s /\ k.met = Mentions(s) /\ k.scope = scopes[s]
      /\ k.own = ToSet(locals[s]) /\ k.todo = {}
  BY <1>1, NowFacts, ShortLists
<1>3. StatementFits(k)
  BY <1>1 DEF Sound
<1>4. \A n, m : Known(k, n, m) => IsMeant(s, n, m)
  BY <1>2 DEF Known, IsMeant
<1> HIDE DEF k
<1>5. /\ \A c \in Mentions(s) : CandidateFits(k, c)
      /\ \A n \in DOMAIN scopes[s] : ScopeFits(k, n)
      /\ \A l \in ToSet(locals[s]) : LocalFits(k, l)
  BY <1>2, <1>3 DEF StatementFits
<1>6. \A n \in DOMAIN scopes[s] :
        /\ n \in Names
        /\ \E c \in Mentions(s) : c.kind = "table" /\ c.name = n /\ Leads(c.means, scopes[s][n])
  BY <1>2, <1>5 DEF ScopeFits
<1>7. \A l \in ToSet(locals[s]) : \E c \in Mentions(s) :
        c.kind = "table" /\ c.name = l.name /\ c.means.name = l.name /\ IsLocal(c.means)
  BY <1>2, <1>5 DEF LocalFits
<1>8. \A c \in Mentions(s) :
        /\ c.kind \in {"table", "column"}
        /\ c.kind = "table" => IsMeant(s, c.name, c.means)
        /\ c.kind = "column" =>
             /\ c.name # Nothing
             /\ IF c.qualifier # Nothing THEN IsMeant(s, c.qualifier, c.means)
                ELSE c.means.name = Nothing \/ \E n : IsMeant(s, n, c.means)
  BY <1>4, <1>5 DEF CandidateFits
<1> QED
  BY <1>1, <1>2, <1>6, <1>7, <1>8 DEF k

(* In a statement with plain names.                                          *)
LEMMA PlainFacts ==
  ASSUME NEW s, Plain(s)
  PROVE  /\ \A c, d \in Mentions(s) :
              c.kind = "table" /\ d.kind = "table" /\ c.name = d.name => c.means = d.means
         /\ \A c \in Mentions(s) :
              c.kind = "table" /\ IsLocal(c.means) => c.name = c.means.name
         /\ \A c \in Mentions(s) : \A l \in ToSet(locals[s]) :
              c.kind = "table" /\ IsLocal(c.means) /\ c.means.name = l.name
              => c.means.columns = l.columns
<1>1. \A c, d \in Mentions(s) :
        c.kind = "table" /\ d.kind = "table" /\ c.name = d.name => c.means = d.means
  BY DEF Plain, ReusedName
<1>2. \A c \in Mentions(s) : c.kind = "table" /\ IsLocal(c.means) => c.name = c.means.name
  BY DEF Plain, AliasedLocal
<1>3. \A c \in Mentions(s) : \A l \in ToSet(locals[s]) :
        c.kind = "table" /\ IsLocal(c.means) /\ c.means.name = l.name
        => c.means.columns = l.columns
  BY DEF Plain, UnderivedColumns, Relations
<1> QED
  BY <1>1, <1>2, <1>3

LEMMA MeantFacts ==
  ASSUME NEW s, s # None, Now(s).at = s, NEW n, NEW m, IsMeant(s, n, m)
  PROVE  /\ \E c \in Mentions(s) : c.kind = "table" /\ c.name = n /\ c.means = m
         /\ m # Unknown => n \in DOMAIN scopes[s]
         /\ IsLocal(m) => /\ \E l \in ToSet(locals[s]) : l.name = m.name
                          /\ m = [name |-> m.name, columns |-> m.columns, at |-> s]
                          /\ m.at = s /\ m # Unknown
         /\ ~IsLocal(m) /\ m # Unknown => \E t \in DOMAIN Schema : m = Stored(t)
<1> DEFINE k == Now(s)
<1>1. /\ k.at = s /\ k.met = Mentions(s) /\ k.scope = scopes[s] /\ k.own = ToSet(locals[s])
  BY NowFacts
<1>2. Bound(k, n, m) /\ IsRelation(k, m)
  BY DEF IsMeant
<1> HIDE DEF k
<1> QED
  BY <1>1, <1>2, RelationFacts DEF Bound, Named

(* What a name leads to.                                                     *)
LEMMA ViaIsMeant ==
  ASSUME Sound, Collected, NEW s \in Statements, Plain(s), NEW n, NEW m, IsMeant(s, n, m)
  PROVE  TableViaScope(s, n) = KnownAs(n, m)
<1> DEFINE own == OwnNamed(s, n)
           via == IF n \in DOMAIN scopes[s] THEN Indexed(scopes[s][n]) ELSE Unknown
<1>1. TableViaScope(s, n) = IF own # Unknown THEN own ELSE IF via # Unknown THEN via ELSE Indexed(n)
  BY DEF TableViaScope, OwnNamed
<1>2. s # None /\ IsList(locals[s]) /\ Now(s).at = s
  BY Settled
<1>3. \/ own = Unknown /\ \A l \in ToSet(locals[s]) : l.name # n
      \/ \E l \in ToSet(locals[s]) : l.name = n /\ own = LocalAs(s, l)
  BY <1>2, LocalByName
<1>4. PICK c \in Mentions(s) : c.kind = "table" /\ c.name = n /\ c.means = m
  BY <1>2, MeantFacts
<1> HIDE DEF own
<1>5. CASE \E l \in ToSet(locals[s]) : l.name = n /\ own = LocalAs(s, l)
  <2>1. PICK l \in ToSet(locals[s]) : l.name = n /\ own = LocalAs(s, l)
    BY <1>5
  <2>2. PICK d \in Mentions(s) : d.kind = "table" /\ d.name = n /\ d.means.name = n /\ IsLocal(d.means)
    BY <2>1, Settled
  <2>3. m = d.means
    BY <1>4, <2>2, PlainFacts
  <2>4. m.columns = l.columns
    BY <1>4, <2>1, <2>2, <2>3, PlainFacts
  <2>5. m = [name |-> m.name, columns |-> m.columns, at |-> s] /\ m # Unknown
    BY <1>2, <2>2, <2>3, MeantFacts
  <2>6. own = m /\ own # Unknown
    BY <2>1, <2>2, <2>3, <2>4, <2>5 DEF LocalAs
  <2> QED
    BY <1>1, <2>6 DEF KnownAs
<1>6. CASE own = Unknown /\ \A l \in ToSet(locals[s]) : l.name # n
  <2>1. ~IsLocal(m)
    <3>1. SUFFICES ASSUME IsLocal(m) PROVE FALSE
      OBVIOUS
    <3>2. n = m.name
      BY <1>4, <3>1, PlainFacts
    <3>3. \E l \in ToSet(locals[s]) : l.name = m.name
      BY <1>2, <3>1, MeantFacts
    <3> QED
      BY <1>6, <3>2, <3>3
  <2>2. n \in DOMAIN scopes[s] => Leads(m, scopes[s][n])
    <3>1. SUFFICES ASSUME n \in DOMAIN scopes[s] PROVE Leads(m, scopes[s][n])
      OBVIOUS
    <3>2. PICK d \in Mentions(s) : d.kind = "table" /\ d.name = n /\ Leads(d.means, scopes[s][n])
      BY <3>1, Settled
    <3>3. d.means = m
      BY <1>4, <3>2, PlainFacts
    <3> QED
      BY <3>2, <3>3
  <2>3. CASE m = Unknown
    <3>1. via = Unknown
      BY <2>2, <2>3, IndexedFacts DEF Leads
    <3> QED
      BY <1>1, <1>6, <2>3, <3>1 DEF KnownAs
  <2>4. CASE m # Unknown
    <3>1. PICK t \in DOMAIN Schema : m = Stored(t)
      BY <1>2, <2>1, <2>4, MeantFacts
    <3>2. n \in DOMAIN scopes[s] /\ scopes[s][n] = t
      BY <1>2, <2>2, <2>4, <3>1, MeantFacts, StoredFacts DEF Leads
    <3>3. via = m
      BY <3>1, <3>2, IndexedFacts
    <3> QED
      BY <1>1, <1>6, <2>4, <3>3 DEF KnownAs
  <2> QED
    BY <2>3, <2>4
<1> QED
  BY <1>3, <1>5, <1>6

(* A set of names has a first in alphabetical order.                          *)
LEMMA FirstIsOne ==
  ASSUME NEW ns, ns \subseteq Names, ns # {}
  PROVE  First(ns) \in ns
<1> DEFINE I == {i \in 1..Len(Alphabet) : Alphabet[i] \in ns}
           p == Min(I)
<1>1. /\ Len(Alphabet) \in Nat /\ DOMAIN Alphabet = 1..Len(Alphabet)
      /\ \A x : x \in Names <=> \E i \in 1..Len(Alphabet) : Alphabet[i] = x
      /\ \A i, j \in 1..Len(Alphabet) : Alphabet[i] = Alphabet[j] => i = j
  BY ResolutionAssumption, ListFacts DEF Names
<1>2. I \subseteq Nat /\ I # {}
  BY <1>1
<1>3. p \in I /\ \A i \in I : p <= i
  <2> HIDE DEF I
  <2> QED
    BY <1>2, MinIsLeast
<1> HIDE DEF p
<1>4. ASSUME NEW i \in DOMAIN Alphabet, Alphabet[i] = Alphabet[p]
      PROVE  \A j \in 1..(i - 1) : Alphabet[j] \notin ns
  <2>1. i = p
    BY <1>1, <1>3, <1>4
  <2>2. ASSUME NEW j \in 1..(p - 1), Alphabet[j] \in ns PROVE FALSE
    <3>1. j \in I /\ j < p
      BY <1>1, <1>3, <2>2
    <3> QED
      BY <1>1, <1>3, <3>1
  <2> QED
    BY <2>1, <2>2
<1>5. \E n \in ns : \A i \in DOMAIN Alphabet :
        Alphabet[i] = n => \A j \in 1..(i - 1) : Alphabet[j] \notin ns
  BY <1>3, <1>4
<1> QED
  BY <1>5 DEF First

(* An unqualified column belongs to the only relation that has it.            *)
LEMMA ColumnIsMeant ==
  ASSUME Sound, Collected, NEW s \in Statements, Plain(s),
         NEW n, NEW m, IsMeant(s, n, m), m # Unknown, NEW column, column \in m.columns,
         \A r \in Relations(s) : column \in r.columns => r = m,
         \A r \in Relations(s) : column \in Indexed(r.name).columns => Indexed(r.name) = m
  PROVE  TableOfColumn(s, column) = m
<1> DEFINE own == OwnHaving(s, column)
           inUse == {x \in DOMAIN scopes[s] : column \in Indexed(scopes[s][x]).columns}
           x0 == First(inUse)
<1>1. own # Unknown => TableOfColumn(s, column) = own
  BY DEF TableOfColumn, OwnHaving
<1>2. own = Unknown /\ inUse # {} => TableOfColumn(s, column) = Indexed(scopes[s][x0])
  BY DEF TableOfColumn, OwnHaving
<1>3. s # None /\ IsList(locals[s]) /\ Now(s).at = s /\ DOMAIN scopes[s] \subseteq Names
  BY Settled
<1>4. \/ own = Unknown /\ \A l \in ToSet(locals[s]) : column \notin l.columns
      \/ \E l \in ToSet(locals[s]) : column \in l.columns /\ own = LocalAs(s, l)
  BY <1>3, LocalByColumn
<1>5. PICK c \in Mentions(s) : c.kind = "table" /\ c.name = n /\ c.means = m
  BY <1>3, MeantFacts
<1>6. \A d \in Mentions(s) : d.kind = "table" => d.means \in Relations(s)
  BY DEF Relations
<1>7. \A x \in inUse : x \in DOMAIN scopes[s] /\ column \in Indexed(scopes[s][x]).columns
  OBVIOUS
<1>8. \A x \in DOMAIN scopes[s] : column \in Indexed(scopes[s][x]).columns => x \in inUse
  OBVIOUS
<1> HIDE DEF own, inUse
<1>9. CASE \E l \in ToSet(locals[s]) : column \in l.columns /\ own = LocalAs(s, l)
  <2>1. PICK l \in ToSet(locals[s]) : column \in l.columns /\ own = LocalAs(s, l)
    BY <1>9
  <2>2. PICK d \in Mentions(s) : /\ d.kind = "table" /\ d.name = l.name
                                 /\ d.means.name = l.name /\ IsLocal(d.means)
    BY <2>1, Settled
  <2>3. d.means.columns = l.columns
    BY <2>1, <2>2, PlainFacts
  <2>4. d.means = m
    BY <1>6, <2>1, <2>2, <2>3
  <2>5. m = [name |-> m.name, columns |-> m.columns, at |-> s]
    BY <1>3, <2>2, <2>4, MeantFacts
  <2>6. own = m
    BY <2>1, <2>2, <2>3, <2>4, <2>5 DEF LocalAs
  <2> QED
    BY <1>1, <2>6
<1>10. CASE own = Unknown /\ \A l \in ToSet(locals[s]) : column \notin l.columns
  <2>1. ~IsLocal(m)
    <3>1. SUFFICES ASSUME IsLocal(m) PROVE FALSE
      OBVIOUS
    <3>2. PICK l \in ToSet(locals[s]) : l.name = m.name
      BY <1>3, <3>1, MeantFacts
    <3>3. m.columns = l.columns
      BY <1>5, <3>1, <3>2, PlainFacts
    <3> QED
      BY <1>10, <3>2, <3>3
  <2>2. PICK t \in DOMAIN Schema : m = Stored(t)
    BY <1>3, <2>1, MeantFacts
  <2>3. n \in DOMAIN scopes[s]
    BY <1>3, MeantFacts
  <2>4. PICK d \in Mentions(s) : d.kind = "table" /\ d.name = n /\ Leads(d.means, scopes[s][n])
    BY <2>3, Settled
  <2>5. d.means = m
    BY <1>5, <2>4, PlainFacts
  <2>6. scopes[s][n] = t
    BY <2>2, <2>4, <2>5, StoredFacts DEF Leads
  <2>7. n \in inUse
    BY <1>8, <2>2, <2>3, <2>6, IndexedFacts
  <2>8. ASSUME NEW x \in inUse PROVE Indexed(scopes[s][x]) = m
    <3>1. x \in DOMAIN scopes[s] /\ column \in Indexed(scopes[s][x]).columns
      BY <1>7
    <3>2. PICK e \in Mentions(s) : e.kind = "table" /\ e.name = x /\ Leads(e.means, scopes[s][x])
      BY <3>1, Settled
    <3>3. e.means # Unknown
      BY <3>1, <3>2, IndexedFacts, UnknownFacts DEF Leads
    <3>4. scopes[s][x] = e.means.name
      BY <3>2, <3>3 DEF Leads
    <3> QED
      BY <1>6, <3>1, <3>2, <3>4
  <2>9. x0 \in inUse
    <3>1. inUse \subseteq Names /\ inUse # {}
      BY <1>3, <1>7, <2>7
    <3> QED
      BY <3>1, FirstIsOne
  <2> QED
    BY <1>2, <1>10, <2>7, <2>8, <2>9
<1> QED
  BY <1>4, <1>9, <1>10

(* The code resolves what is clear as SQL does.                               *)
LEMMA OwnerIsMeant ==
  ASSUME Sound, Collected, NEW s \in Statements, Plain(s), NEW c \in Mentions(s), Clear(c)
  PROVE  /\ Owner(c) = c.means /\ Resolves(c)
         /\ \E n : IsMeant(s, n, c.means)
<1>1. c.means # Unknown /\ c.at = s
      /\ (c.kind = "column" => c.name \in c.means.columns /\ (c.qualifier = Nothing => OneOwner(c)))
  BY DEF Clear, Mentions
<1>2. c.kind \in {"table", "column"}
  BY Settled
<1>3. KnownAs(c.name, c.means) = c.means /\ KnownAs(c.qualifier, c.means) = c.means
  BY <1>1 DEF KnownAs
<1>4. CASE c.kind = "table"
  <2>1. IsMeant(s, c.name, c.means)
    BY <1>4, Settled
  <2>2. TableViaScope(s, c.name) = c.means
    BY <1>3, <2>1, ViaIsMeant
  <2> QED
    BY <1>1, <1>4, <2>1, <2>2 DEF Owner, Resolves
<1>5. CASE c.kind = "column" /\ c.qualifier # Nothing
  <2>1. IsMeant(s, c.qualifier, c.means)
    BY <1>5, Settled
  <2>2. TableViaScope(s, c.qualifier) = c.means
    BY <1>3, <2>1, ViaIsMeant
  <2> QED
    BY <1>1, <1>5, <2>1, <2>2 DEF Owner, Resolves
<1>6. CASE c.kind = "column" /\ c.qualifier = Nothing
  <2>1. PICK n : IsMeant(s, n, c.means)
    <3>1. c.means \in Relations(s) \cup {Indexed(r.name) : r \in Relations(s)}
      BY <1>1, <1>6 DEF OneOwner
    <3>2. CASE c.means \in Relations(s)
      <4>1. PICK d \in Mentions(s) : d.kind = "table" /\ d.means = c.means
        BY <3>2 DEF Relations
      <4> QED
        BY <4>1, Settled
    <3>3. CASE \E r \in Relations(s) : c.means = Indexed(r.name)
      <4>1. c.means.name # Nothing
        BY <1>1, <3>3, IndexedFacts, StoredFacts
      <4> QED
        BY <1>6, <4>1, Settled
    <3> QED
      BY <3>1, <3>2, <3>3
  <2>2. /\ \A r \in Relations(s) : c.name \in r.columns => r = c.means
        /\ \A r \in Relations(s) : c.name \in Indexed(r.name).columns => Indexed(r.name) = c.means
    BY <1>1, <1>6 DEF OneOwner
  <2>3. TableOfColumn(s, c.name) = c.means
    BY <1>1, <1>6, <2>1, <2>2, ColumnIsMeant
  <2> QED
    BY <1>1, <1>6, <2>1, <2>3 DEF Owner, Resolves
<1> QED
  BY <1>2, <1>4, <1>5, <1>6
-----------------------------------------------------------------------------
(* The reports.                                                              *)
ReportsHere ==
  \A i \in Candidates :
    LET c == candidates[i]
    IN  Plain(c.at) /\ ~IsDdl(c.at) => (i \in UnresolvedReferences <=> Mistaken(c))

LEMMA ReportsByTheWay ==
  ASSUME Sound, Collected, DOMAIN Schema # {}
  PROVE  ReportsHere
<1> SUFFICES ASSUME NEW i \in Candidates, Plain(candidates[i].at), ~IsDdl(candidates[i].at)
             PROVE  i \in UnresolvedReferences <=> Mistaken(candidates[i])
  BY DEF ReportsHere
<1> DEFINE c == candidates[i]
           s == c.at
<1>1. c \in ToSet(candidates)
  BY DEF Candidates, ToSet
<1>2. s \in Statements
  BY <1>1 DEF Sound, Shaped, Collected
<1>3. c \in Mentions(s)
  BY <1>1 DEF Mentions
<1>4. i \in UnresolvedReferences <=> UnresolvedTable(c) \/ UnresolvedColumn(c)
  BY DEF UnresolvedReferences
<1> HIDE DEF c
<1>5. c.kind \in {"table", "column"}
  BY <1>2, <1>3, Settled
<1>6. CASE c.kind = "table"
  <2>1. IsMeant(s, c.name, c.means)
    BY <1>2, <1>3, <1>6, Settled
  <2>2. TableViaScope(s, c.name) = KnownAs(c.name, c.means)
    BY <1>2, <2>1, ViaIsMeant DEF c
  <2>3. UnresolvedTable(c) <=> KnownAs(c.name, c.means) = Unknown
    BY <1>6, <2>2 DEF UnresolvedTable
  <2>4. ~UnresolvedColumn(c)
    BY <1>6 DEF UnresolvedColumn
  <2>5. Mistaken(c) <=> KnownAs(c.name, c.means) = Unknown
    BY <1>6 DEF Mistaken
  <2> QED
    BY <1>4, <2>3, <2>4, <2>5 DEF c
<1>7. CASE c.kind = "column"
  <2>1. ~UnresolvedTable(c)
    BY <1>7 DEF UnresolvedTable
  <2>2. CASE c.qualifier = Nothing
    <3>1. ~UnresolvedColumn(c) /\ ~Mistaken(c)
      BY <1>7, <2>2 DEF UnresolvedColumn, Mistaken
    <3> QED
      BY <1>4, <2>1, <3>1 DEF c
  <2>3. CASE c.qualifier # Nothing
    <3>1. IsMeant(s, c.qualifier, c.means)
      BY <1>2, <1>3, <1>7, <2>3, Settled
    <3>2. TableViaScope(s, c.qualifier) = KnownAs(c.qualifier, c.means)
      BY <1>2, <3>1, ViaIsMeant DEF c
    <3>3. UnresolvedColumn(c) <=> Mistaken(c)
      BY <1>7, <2>3, <3>2 DEF UnresolvedColumn, Mistaken
    <3> QED
      BY <1>4, <2>1, <3>3 DEF c
  <2> QED
    BY <2>2, <2>3
<1> QED
  BY <1>5, <1>6, <1>7

(* In a statement with plain names just the mistakes are reported, given that   *)
(* there is a schema at all: without one the code reports nothing (resolve.rs,  *)
(* unresolved_references).                                                   *)
THEOREM Reports ==
  ASSUME DOMAIN Schema # {}
  PROVE  Spec => []ReportsAreTheMistakes
<1>1. Sound => ReportsAreTheMistakes
  BY ReportsByTheWay DEF ReportsAreTheMistakes, ReportsHere
<1> QED
  BY <1>1, SoundInvariant, PTL

(* The references.                                                           *)
LEMMA TargetFacts ==
  ASSUME NEW c
  PROVE  /\ ReferenceTarget(c).relation = Owner(c).name
         /\ ReferenceTarget(c).column = IF c.kind = "column" THEN c.name ELSE Nothing
         /\ ReferenceTarget(c).local = IsLocal(Owner(c))
         /\ ReferenceTarget(c).statement = IF IsLocal(Owner(c)) THEN c.at[2] ELSE 0
         /\ \A d : /\ ReferenceTarget(c).relation = ReferenceTarget(d).relation
                   /\ ReferenceTarget(c).column = ReferenceTarget(d).column
                   /\ ReferenceTarget(c).local = ReferenceTarget(d).local
                   /\ ReferenceTarget(c).statement = ReferenceTarget(d).statement
                   => ReferenceTarget(c) = ReferenceTarget(d)
BY DEF ReferenceTarget

(* Two clear candidates have one target, and stand in one region if it is a    *)
(* local one, just if they are of the same thing.                             *)
LEMMA SameTarget ==
  ASSUME Sound, Collected, \A s \in Statements : Plain(s),
         NEW c \in ToSet(candidates), Clear(c), NEW d \in ToSet(candidates), Clear(d)
  PROVE  (/\ ReferenceTarget(d) = ReferenceTarget(c)
          /\ IsLocal(Owner(c)) => d.at[1] = c.at[1])
         <=> SameThing(d, c)
<1>1. /\ c.at \in Statements /\ d.at \in Statements
      /\ c \in Mentions(c.at) /\ d \in Mentions(d.at)
  BY DEF Sound, Shaped, Collected, Mentions
<1>2. Owner(c) = c.means /\ Owner(d) = d.means
  BY <1>1, OwnerIsMeant
<1>3. /\ c.kind \in {"table", "column"} /\ d.kind \in {"table", "column"}
      /\ c.kind = "column" => c.name # Nothing
      /\ d.kind = "column" => d.name # Nothing
  BY <1>1, Settled
<1>4. PICK m : IsMeant(c.at, m, c.means)
  BY <1>1, OwnerIsMeant
<1>5. PICK n : IsMeant(d.at, n, d.means)
  BY <1>1, OwnerIsMeant
<1>6. c.at # None /\ Now(c.at).at = c.at /\ d.at # None /\ Now(d.at).at = d.at
  BY <1>1, Settled
<1>7. c.at = <<c.at[1], c.at[2]>> /\ d.at = <<d.at[1], d.at[2]>>
  BY <1>1, StatementFacts DEF Sound, Shaped
<1>8. c.means # Unknown /\ d.means # Unknown
  BY DEF Clear
<1>9. /\ \E e \in Mentions(c.at) : e.kind = "table" /\ e.name = m /\ e.means = c.means
      /\ IsLocal(c.means) => c.means.at = c.at
      /\ ~IsLocal(c.means) => \E t \in DOMAIN Schema : c.means = Stored(t)
  BY <1>4, <1>6, <1>8, MeantFacts
<1>10. /\ \E e \in Mentions(d.at) : e.kind = "table" /\ e.name = n /\ e.means = d.means
       /\ IsLocal(d.means) => d.means.at = d.at
       /\ ~IsLocal(d.means) => \E t \in DOMAIN Schema : d.means = Stored(t)
  BY <1>5, <1>6, <1>8, MeantFacts
<1>11. ASSUME SameThing(d, c)
       PROVE  ReferenceTarget(d) = ReferenceTarget(c) /\ (IsLocal(Owner(c)) => d.at[1] = c.at[1])
  <2>1. d.kind = c.kind /\ d.means = c.means /\ (d.kind = "column" => d.name = c.name)
    BY <1>11 DEF SameThing
  <2>2. IsLocal(c.means) => d.at = c.at
    BY <1>9, <1>10, <2>1
  <2>3. Owner(d) = Owner(c)
    BY <1>2, <2>1
  <2>4. /\ ReferenceTarget(d).relation = ReferenceTarget(c).relation
        /\ ReferenceTarget(d).local = ReferenceTarget(c).local
    BY <2>3, TargetFacts
  <2>5. ReferenceTarget(d).column = ReferenceTarget(c).column
    <3>1. /\ ReferenceTarget(c).column = IF c.kind = "column" THEN c.name ELSE Nothing
          /\ ReferenceTarget(d).column = IF d.kind = "column" THEN d.name ELSE Nothing
      BY TargetFacts
    <3> QED
      BY <2>1, <3>1
  <2>6. ReferenceTarget(d).statement = ReferenceTarget(c).statement
    <3>1. /\ ReferenceTarget(c).statement = IF IsLocal(Owner(c)) THEN c.at[2] ELSE 0
          /\ ReferenceTarget(d).statement = IF IsLocal(Owner(d)) THEN d.at[2] ELSE 0
      BY TargetFacts
    <3> QED
      BY <1>2, <2>2, <2>3, <3>1
  <2>7. ReferenceTarget(d) = ReferenceTarget(c)
    BY <2>4, <2>5, <2>6, TargetFacts
  <2> QED
    BY <1>2, <2>2, <2>7
<1>12. ASSUME ReferenceTarget(d) = ReferenceTarget(c), IsLocal(Owner(c)) => d.at[1] = c.at[1]
       PROVE  SameThing(d, c)
  <2>1. /\ d.means.name = c.means.name
        /\ IsLocal(d.means) = IsLocal(c.means)
        /\ (IF d.kind = "column" THEN d.name ELSE Nothing)
             = (IF c.kind = "column" THEN c.name ELSE Nothing)
        /\ (IF IsLocal(d.means) THEN d.at[2] ELSE 0) = (IF IsLocal(c.means) THEN c.at[2] ELSE 0)
    BY <1>2, <1>12, TargetFacts
  <2>2. d.kind = c.kind /\ (d.kind = "column" => d.name = c.name)
    BY <1>3, <2>1
  <2>3. CASE ~IsLocal(c.means)
    <3>1. PICK t \in DOMAIN Schema : c.means = Stored(t)
      BY <1>9, <2>3
    <3>2. PICK u \in DOMAIN Schema : d.means = Stored(u)
      BY <1>10, <2>1, <2>3
    <3>3. t = u
      BY <2>1, <3>1, <3>2, StoredFacts
    <3> QED
      BY <2>2, <3>1, <3>2, <3>3 DEF SameThing
  <2>4. CASE IsLocal(c.means)
    <3>1. d.at = c.at /\ IsLocal(d.means)
      BY <1>2, <1>7, <1>12, <2>1, <2>4
    <3>2. PICK e \in Mentions(c.at) : e.kind = "table" /\ e.name = m /\ e.means = c.means
      BY <1>9
    <3>3. PICK f \in Mentions(c.at) : f.kind = "table" /\ f.name = n /\ f.means = d.means
      BY <1>10, <3>1
    <3>4. Plain(c.at)
      BY <1>1
    <3>5. e.name = c.means.name /\ f.name = d.means.name
      BY <2>4, <3>1, <3>2, <3>3, <3>4, PlainFacts
    <3>6. c.means = d.means
      BY <2>1, <3>2, <3>3, <3>4, <3>5, PlainFacts
    <3> QED
      BY <2>2, <3>6 DEF SameThing
  <2> QED
    BY <2>3, <2>4
<1> QED
  BY <1>11, <1>12

LEMMA FindsThemAll ==
  ASSUME Sound, Collected, \A s \in Statements : Plain(s), NEW c \in ToSet(candidates), Clear(c)
  PROVE  FindsAllOf(c)
<1> DEFINE Reach == IF ReferenceTarget(c).local THEN {c.at[1]} ELSE DOMAIN document
<1>1. /\ c.at \in Statements /\ c \in Mentions(c.at)
      /\ \A d \in ToSet(candidates) : d.at \in Statements /\ d \in Mentions(d.at)
      /\ document \in Documents
  BY DEF Sound, Shaped, Collected, Mentions
<1>2. Resolves(c) /\ ReferenceTarget(c).local = IsLocal(Owner(c))
  BY <1>1, OwnerIsMeant, TargetFacts
<1>3. ReferencesAt(c) = UNION {ReferencesTo(r, ReferenceTarget(c)) : r \in Reach}
  BY <1>2 DEF ReferencesAt
<1>4. ASSUME NEW i \in Candidates, Clear(candidates[i])
      PROVE  i \in ReferencesAt(c) <=> SameThing(candidates[i], c)
  <2> DEFINE d == candidates[i]
  <2>1. d \in ToSet(candidates)
    BY DEF Candidates, ToSet
  <2>2. Resolves(d)
    BY <1>1, <1>4, <2>1, OwnerIsMeant
  <2>3. d.at[1] \in DOMAIN document
    BY <1>1, <2>1, StatementFacts
  <2>4. i \in ReferencesAt(c) <=> d.at[1] \in Reach /\ ReferenceTarget(d) = ReferenceTarget(c)
    BY <1>3, <2>2 DEF ReferencesTo
  <2>5. d.at[1] \in Reach <=> (IsLocal(Owner(c)) => d.at[1] = c.at[1])
    BY <1>2, <2>3
  <2> HIDE DEF d, Reach
  <2>6. (/\ ReferenceTarget(d) = ReferenceTarget(c)
         /\ IsLocal(Owner(c)) => d.at[1] = c.at[1])
        <=> SameThing(d, c)
    BY <1>4, <2>1, SameTarget DEF d
  <2> QED
    BY <2>4, <2>5, <2>6 DEF d
<1>5. \A i \in ReferencesAt(c) : i \in Candidates
  BY <1>3 DEF ReferencesTo
<1> QED
  BY <1>4, <1>5 DEF FindsAllOf, ClearOccurrences

(* In a document with plain names the references of a thing are its occurrences, *)
(* and nothing else's, across its statements and regions (references_at,       *)
(* references_to).                                                           *)
THEOREM References == Spec => []ReferencesAreOccurrences
<1>1. Sound => ReferencesAreOccurrences
  BY FindsThemAll DEF ReferencesAreOccurrences
<1> QED
  BY <1>1, SoundInvariant, PTL
=============================================================================
