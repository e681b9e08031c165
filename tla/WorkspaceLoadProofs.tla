------------------------- MODULE WorkspaceLoadProofs -------------------------
(***************************************************************************)
(* What a load yields, for any sites, directories and failures.             *)
(*                                                                          *)
(* The argument is in LoadInv: no crate is passed over, a context has what   *)
(* the migrations behind the replay declare, and the merged views have what  *)
(* their crates have.                                                       *)
(***************************************************************************)
EXTENDS WorkspaceLoad, SequenceTheorems, FiniteSetTheorems, WellFoundedInduction, TLAPS

(* Numbers.  Induction comes from their well-founded order, that is, a set of *)
(* numbers has a least; what holds of all numbers is stated as a set.         *)
LEMMA LeastNumber ==
  ASSUME NEW S, S \subseteq Nat, S # {}
  PROVE  \E m \in S : \A k \in S : m <= k
<1>1. PICK m \in S : \A k \in S : <<k, m>> \notin OpToRel(<, Nat)
  BY WFMin, NatLessThanWellFounded
<1>2. \A k \in S : ~(k < m)
  BY <1>1 DEF OpToRel
<1> QED
  BY <1>2

(* A set that has 0 and the successor of each of its numbers has them all.    *)
LEMMA CountUp ==
  ASSUME NEW S, 0 \in S, \A n \in Nat : n \in S => n + 1 \in S
  PROVE  \A n \in Nat : n \in S
<1> DEFINE T == Nat \ S
<1> SUFFICES T = {}
  OBVIOUS
<1>1. SUFFICES ASSUME T # {} PROVE FALSE
  OBVIOUS
<1>2. PICK m \in T : \A k \in T : m <= k
  BY <1>1, LeastNumber
<1>3. m # 0 /\ m - 1 \in Nat /\ m - 1 \in S
  BY <1>2
<1> QED
  BY <1>3

(* A bounded set of numbers has a greatest.                                  *)
LEMMA GreatestNumber ==
  ASSUME NEW S, NEW bound \in Nat, S \subseteq 0..bound, S # {}
  PROVE  Max(S) \in S /\ \A k \in S : k <= Max(S)
<1> DEFINE T == {bound - k : k \in S}
<1>1. T \subseteq Nat /\ T # {}
  <2>1. \A k \in S : bound - k \in Nat
    OBVIOUS
  <2> QED
    BY <2>1
<1>2. PICK t \in T : \A u \in T : t <= u
  BY <1>1, LeastNumber
<1>3. PICK m \in S : t = bound - m
  OBVIOUS
<1>4. \A k \in S : m >= k
  BY <1>2, <1>3
<1>5. /\ Max(S) \in S
      /\ \A k \in S : Max(S) >= k
  BY <1>4 DEF Max
<1> QED
  BY <1>5
-----------------------------------------------------------------------------
(* Configuration and environment.                                           *)

(* The first backend of a set is one of it.                                  *)
LEMMA FirstIsOne ==
  ASSUME NEW S, S \subseteq Kinds, S # {}
  PROVE  FirstOf(S) \in S
<1> DEFINE I == {i \in 1..Len(Backends) : Backends[i] \in S}
<1>1. /\ Len(Backends) \in Nat /\ DOMAIN Backends = 1..Len(Backends)
  BY LoadAssumption
<1>2. I # {}
  <2>1. PICK k \in S : k \in Kinds
    OBVIOUS
  <2>2. PICK i \in DOMAIN Backends : Backends[i] = k
    BY <2>1 DEF Kinds, ToSet
  <2> QED
    BY <1>1, <2>2
<1>3. I \subseteq Nat
  BY <1>1
<1>4. PICK m \in I : \A k \in I : m <= k
  BY <1>2, <1>3, LeastNumber
<1>5. Min(I) \in I
  BY <1>4 DEF Min
<1>6. SelectInSeq(Backends, LAMBDA k : k \in S) = Min(I)
  BY <1>2 DEF SelectInSeq
<1> QED
  BY <1>5, <1>6 DEF FirstOf

LEMMA KindTypes ==
  ASSUME TypeOK
  PROVE  /\ site \in SiteRecords /\ site \in Sites
         /\ GlobalKind \in Kinds
         /\ site.enabled # {} => GlobalKind \in site.enabled
         /\ \A declared \in SUBSET Kinds, url \in Kinds \cup {None} :
               /\ ResolveKind(url, declared) \in Kinds
               /\ declared # {} => ResolveKind(url, declared) \in declared
               /\ declared = {} /\ site.enabled # {} =>
                     ResolveKind(url, declared) \in site.enabled
<1>1. site \in Sites /\ site \in SiteRecords
  BY LoadAssumption DEF TypeOK
<1>2. site.enabled \subseteq Kinds
  BY <1>1 DEF SiteRecords
<1>3. /\ GlobalKind \in Kinds
      /\ site.enabled # {} => GlobalKind \in site.enabled
  BY <1>2, FirstIsOne, LoadAssumption DEF GlobalKind
<1>4. ASSUME NEW declared \in SUBSET Kinds, NEW url \in Kinds \cup {None}
      PROVE  /\ ResolveKind(url, declared) \in Kinds
             /\ declared # {} => ResolveKind(url, declared) \in declared
             /\ declared = {} /\ site.enabled # {} =>
                   ResolveKind(url, declared) \in site.enabled
  <2>1. declared # {} => FirstOf(declared) \in declared
    BY FirstIsOne
  <2> QED
    BY <1>2, <1>3, <2>1 DEF ResolveKind
<1> QED
  BY <1>1, <1>3, <1>4

(* There is one outermost .env file that has a URL.                           *)
LEMMA DepthType == \A d \in Dirs : Depth(d) \in Nat
BY LoadAssumption, FS_CardinalityType DEF Depth

LEMMA UrlType ==
  ASSUME TypeOK, NEW d \in Dirs
  PROVE  DatabaseUrl(d) \in Kinds \cup {None}
<1> DEFINE having == {a \in Ancestors[d] : site.dotenv[a] # None}
<1>1. having \subseteq Dirs
  BY LoadAssumption
<1>2. ASSUME having # {}
      PROVE  \E a \in having : \A b \in having : Depth(a) <= Depth(b)
  <2> DEFINE depths == {Depth(a) : a \in having}
  <2>1. depths \subseteq Nat /\ depths # {}
    BY <1>1, <1>2, DepthType
  <2>2. PICK m \in depths : \A k \in depths : m <= k
    BY <2>1, LeastNumber
  <2> QED
    BY <2>2
<1>3. site.dotenv \in [Dirs -> Kinds \cup {None}]
  BY KindTypes DEF SiteRecords
<1> QED
  BY <1>1, <1>2, <1>3 DEF DatabaseUrl

(* The directories of a crate are directories, and there is one.              *)
LEMMA MigrationDirsType ==
  ASSUME TypeOK, NEW c \in Dirs
  PROVE  MigrationDirsFor(c) \in Seq(Dirs)
<1> DEFINE named == site.invocations[c]
           Target(i) == IF named[i] = "default" THEN site.configured[c] ELSE named[i]
           Found(f, i) ==
              IF i = 0 THEN <<>>
              ELSE IF named[i] = "absolute" \/ Contains(f[i - 1], Target(i))
                   THEN f[i - 1]
                   ELSE Append(f[i - 1], Target(i))
           found == CHOOSE f : f = [i \in 0..Len(named) |-> Found(f, i)]
<1>1. named \in Seq(Dirs \cup {"default", "absolute"}) /\ site.configured[c] \in Dirs
  BY KindTypes DEF SiteRecords
<1>2. Len(named) \in Nat
  BY <1>1
<1>3. \A i \in 1..Len(named) : named[i] = "absolute" \/ Target(i) \in Dirs
  BY <1>1
<1>4. MigrationDirsFor(c) = IF found[Len(named)] = <<>> THEN <<site.configured[c]>>
                            ELSE found[Len(named)]
  BY DEF MigrationDirsFor
<1> HIDE DEF named, Target
<1>5. found = [i \in 0..Len(named) |-> Found(found, i)]
  <2> DEFINE S == {n \in Nat : \E f : f = [i \in 0..n |-> Found(f, i)]}
  <2>1. 0 \in S
    <3>1. [i \in 0..0 |-> <<>>] = [i \in 0..0 |-> Found([j \in 0..0 |-> <<>>], i)]
      OBVIOUS
    <3> QED
      BY <3>1
  <2>2. ASSUME NEW n \in Nat, n \in S PROVE n + 1 \in S
    <3>1. PICK f : f = [i \in 0..n |-> Found(f, i)]
      BY <2>2
    <3>0. \A i \in 0..n : f[i] = Found(f, i)
      <4> HIDE DEF Found
      <4> QED
        BY <3>1
    <3> DEFINE g == [i \in 0..(n + 1) |-> IF i = n + 1 THEN Found(f, i) ELSE f[i]]
    <3>2. \A i \in 0..(n + 1) : g[i] = Found(g, i)
      <4> TAKE i \in 0..(n + 1)
      <4>1. CASE i = 0
        BY <3>1, <4>1
      <4>2. CASE i # 0
        <5>1. i - 1 \in 0..n /\ g[i - 1] = f[i - 1]
          BY <4>2
        <5>2. Found(g, i) = Found(f, i)
          BY <5>1
        <5>3. i # n + 1 => f[i] = Found(f, i)
          BY <3>0
        <5> QED
          BY <5>2, <5>3
      <4> QED
        BY <4>1, <4>2
    <3>3. g = [i \in 0..(n + 1) |-> Found(g, i)]
      BY <3>2
    <3> HIDE DEF g
    <3> QED
      BY <3>3
  <2> HIDE DEF S
  <2>3. Len(named) \in S
    BY <1>2, <2>1, <2>2, CountUp
  <2> QED
    BY <2>3 DEF S
<1> HIDE DEF found, Found
<1>6. \A i \in 0..Len(named) : found[i] = Found(found, i)
  BY <1>5
<1> USE DEF Found
<1>7. \A n \in Nat : n <= Len(named) => found[n] \in Seq(Dirs)
  <2> DEFINE S == {n \in Nat : n <= Len(named) => found[n] \in Seq(Dirs)}
  <2>1. 0 \in S
    <3>1. 0 \in 0..Len(named)
      BY <1>2
    <3>2. found[0] = <<>>
      BY <1>6, <3>1
    <3>3. <<>> \in Seq(Dirs)
      OBVIOUS
    <3> QED
      BY <3>2, <3>3
  <2>2. ASSUME NEW n \in Nat, n \in S PROVE n + 1 \in S
    <3> SUFFICES ASSUME n + 1 <= Len(named) PROVE found[n + 1] \in Seq(Dirs)
      OBVIOUS
    <3>1. found[n] \in Seq(Dirs)
      BY <1>2, <2>2
    <3>2. found[n + 1] = Found(found, n + 1)
      BY <1>2, <1>6
    <3>3. named[n + 1] = "absolute" \/ Target(n + 1) \in Dirs
      BY <1>2, <1>3
    <3> QED
      BY <3>1, <3>2, <3>3
  <2> HIDE DEF S
  <2>3. \A n \in Nat : n \in S
    BY <2>1, <2>2, CountUp
  <2> QED
    BY <2>3 DEF S
<1> QED
  BY <1>1, <1>2, <1>4, <1>7
-----------------------------------------------------------------------------
(* Types.                                                                   *)

LEMMA SchemaDomains ==
  \A s \in Schemas : DOMAIN s \subseteq Names /\ \A n \in DOMAIN s : s[n] \in Tables
BY DEF Schemas

LEMMA ContextFields ==
  \A c \in Contexts :
     c.root \in Dirs \cup {None} /\ c.kind \in Kinds /\ c.schema \in Schemas
BY DEF Contexts

LEMMA EmptySchema == <<>> \in Schemas /\ DOMAIN <<>> = {}
<1>1. <<>> \in [{} -> Tables]
  OBVIOUS
<1> QED
  BY <1>1 DEF Schemas

(* What the changes of a schema do to its relations.                         *)
LEMMA PutType ==
  ASSUME NEW s \in Schemas, NEW n \in Names, NEW t \in Tables
  PROVE  /\ Put(s, n, t) \in Schemas
         /\ DOMAIN Put(s, n, t) = DOMAIN s \cup {n}
         /\ Put(s, n, t)[n] = t
         /\ \A m \in DOMAIN s : m # n => Put(s, n, t)[m] = s[m]
<1>1. Put(s, n, t) \in [DOMAIN s \cup {n} -> Tables]
  BY SchemaDomains DEF Put
<1>2. DOMAIN s \cup {n} \in SUBSET Names
  BY SchemaDomains
<1> QED
  BY <1>1, <1>2 DEF Put, Schemas

LEMMA DropType ==
  ASSUME NEW s \in Schemas, NEW n
  PROVE  /\ Restrict(s, DOMAIN s \ {n}) \in Schemas
         /\ DOMAIN Restrict(s, DOMAIN s \ {n}) = DOMAIN s \ {n}
         /\ \A m \in DOMAIN s \ {n} : Restrict(s, DOMAIN s \ {n})[m] = s[m]
<1>1. Restrict(s, DOMAIN s \ {n}) \in [DOMAIN s \ {n} -> Tables]
  BY SchemaDomains DEF Restrict
<1>2. DOMAIN s \ {n} \in SUBSET Names
  BY SchemaDomains
<1> QED
  BY <1>1, <1>2 DEF Restrict, Schemas

LEMMA IntrospectType ==
  ASSUME TypeOK, context.root \in Dirs, NEW s \in Schemas
  PROVE  /\ MergeDatabaseTables(s) \in Schemas
         /\ DOMAIN MergeDatabaseTables(s) = DOMAIN s \cup site.live
         /\ \A n \in DOMAIN s : MergeDatabaseTables(s)[n] = s[n]
         /\ \A n \in site.live \ DOMAIN s :
               MergeDatabaseTables(s)[n].origin = "database"
<1>1. site.live \subseteq Names
  BY KindTypes DEF SiteRecords
<1>2. [origin |-> "database", from |-> context.root] \in Tables
  BY DEF Tables
<1>3. MergeDatabaseTables(s) \in [DOMAIN s \cup site.live -> Tables]
  BY <1>2, SchemaDomains DEF MergeDatabaseTables
<1>4. DOMAIN s \cup site.live \in SUBSET Names
  BY <1>1, SchemaDomains
<1> QED
  BY <1>3, <1>4 DEF MergeDatabaseTables, Schemas

LEMMA MergeType ==
  ASSUME NEW s \in Schemas, NEW others \in Seq(Contexts)
  PROVE  /\ MergeAll(s, others) \in Schemas
         /\ DOMAIN MergeAll(s, others) =
               DOMAIN s \cup UNION {DOMAIN others[i].schema : i \in DOMAIN others}
<1> DEFINE having(n) == {i \in DOMAIN others : n \in DOMAIN others[i].schema}
           all == DOMAIN s \cup UNION {DOMAIN others[i].schema : i \in DOMAIN others}
<1>1. \A i \in DOMAIN others : others[i].schema \in Schemas
  <2>1. \A i \in DOMAIN others : others[i] \in Contexts
    OBVIOUS
  <2> QED
    BY <2>1, ContextFields
<1>2. all \in SUBSET Names
  BY <1>1, SchemaDomains
<1>3. ASSUME NEW n \in all
      PROVE  (IF having(n) = {} THEN s[n] ELSE others[Max(having(n))].schema[n])
                \in Tables
  <2>1. CASE having(n) = {}
    <3>1. n \in DOMAIN s
      BY <1>3, <2>1
    <3> QED
      BY <2>1, <3>1, SchemaDomains
  <2>2. CASE having(n) # {}
    <3>1. Len(others) \in Nat /\ having(n) \subseteq 0..Len(others)
      OBVIOUS
    <3> HIDE DEF having
    <3>2. Max(having(n)) \in having(n)
      BY <2>2, <3>1, GreatestNumber
    <3> USE DEF having
    <3>3. /\ Max(having(n)) \in DOMAIN others
          /\ n \in DOMAIN others[Max(having(n))].schema
      BY <3>2
    <3> QED
      BY <1>1, <2>2, <3>3, SchemaDomains
  <2> QED
    BY <2>1, <2>2
<1>4. MergeAll(s, others) =
         [n \in all |-> IF having(n) = {} THEN s[n]
                        ELSE others[Max(having(n))].schema[n]]
  BY DEF MergeAll
<1> HIDE DEF having, all
<1>5. MergeAll(s, others) \in [all -> Tables]
  BY <1>3, <1>4
<1>6. MergeAll(s, others) \in Schemas
  BY <1>2, <1>5 DEF Schemas
<1> QED
  BY <1>5, <1>6 DEF all

LEMMA InitType == Init => TypeOK /\ InPlace
<1> SUFFICES ASSUME Init PROVE TypeOK /\ InPlace
  OBVIOUS
<1>1. site.roots \in Seq(Dirs)
  BY LoadAssumption DEF Init, SiteRecords
<1>2. Nowhere \in Contexts
  BY EmptySchema, LoadAssumption DEF Nowhere, Contexts
<1> QED
  BY <1>1, <1>2 DEF Init, TypeOK, InPlace, Building, Loaded

(* The steps keep the types, and the context in hand is the next one's.        *)
LEMMA StartType ==
  ASSUME TypeOK, NEW d \in Dirs, NEW declared \in SUBSET Kinds,
         NEW found \in Seq(Dirs), Start(d, declared, found)
  PROVE  /\ context' \in Contexts /\ dirs' \in Seq(Spellings)
         /\ context'.root = d /\ files' = {} /\ applied' = {} /\ pc' = "open"
<1>1. ResolveKind(DatabaseUrl(d), declared) \in Kinds
  BY UrlType, KindTypes
<1>2. Spelled(d, found) \in Seq(Spellings)
  <2>1. \A i \in 1..Len(found) : [crate |-> d, dir |-> found[i]] \in Spellings
    BY DEF Spellings
  <2>2. /\ Len(found) \in Nat
        /\ Spelled(d, found) = [i \in 1..Len(found) |-> [crate |-> d, dir |-> found[i]]]
    BY DEF Spelled
  <2> QED
    BY <2>1, <2>2, IsASeq
<1> QED
  BY <1>1, <1>2, EmptySchema DEF Start, Contexts

LEMMA StartsType ==
  ASSUME TypeOK, InPlace, DetectFolder \/ StartCrate \/ StartFolder
  PROVE  TypeOK' /\ InPlace'
<1>0. site \in SiteRecords
  BY KindTypes
<1> USE DEF result, building
<1>1. CASE DetectFolder
  <2>1. Head(folders) \in Dirs
    BY <1>1 DEF DetectFolder, TypeOK
  <2>2. site.detected[Head(folders)] \in Seq(Dirs)
    BY <1>0, <2>1 DEF SiteRecords
  <2> QED
    BY <1>1, <2>2 DEF DetectFolder, TypeOK, InPlace, Building, Loaded
<1>2. CASE StartCrate
  <2>1. Head(crates) \in Dirs
    BY <1>2 DEF StartCrate, TypeOK
  <2>2. site.drivers[Head(crates)] \in SUBSET Kinds
    BY <1>0, <2>1 DEF SiteRecords
  <2>3. /\ context' \in Contexts /\ dirs' \in Seq(Spellings)
        /\ context'.root = Head(crates)
        /\ files' = {} /\ applied' = {} /\ pc' = "open"
    BY <1>2, <2>1, <2>2, StartType, MigrationDirsType DEF StartCrate
  <2> QED
    BY <1>2, <2>3 DEF StartCrate, TypeOK, InPlace, Building, Loaded
<1>3. CASE StartFolder
  <2>1. Head(folders) \in Dirs
    BY <1>3 DEF StartFolder, TypeOK, InPlace
  <2>2. <<site.configured[Head(folders)]>> \in Seq(Dirs)
    BY <1>0, <2>1 DEF SiteRecords
  <2>3. /\ context' \in Contexts /\ dirs' \in Seq(Spellings)
        /\ context'.root = Head(folders)
        /\ files' = {} /\ applied' = {} /\ pc' = "open"
    BY <1>3, <2>1, <2>2, StartType DEF StartFolder
  <2> QED
    BY <1>3, <2>3 DEF StartFolder, TypeOK, InPlace, Building, Loaded
<1> QED
  BY <1>1, <1>2, <1>3

LEMMA RootType ==
  ASSUME TypeOK, InPlace, Building
  PROVE  context.root \in Dirs /\ folders # <<>>
BY DEF InPlace, TypeOK

LEMMA ReplayType ==
  ASSUME TypeOK, InPlace, Replay
  PROVE  TypeOK' /\ InPlace'
<1>0. site \in SiteRecords
  BY KindTypes
<1>1. Building /\ context.root \in Dirs
  BY RootType
     DEF Replay, Building, OpenDirectory, PassDirectory, CloseDirectory,
         EndReplay, LoadingTaskFails, ApplyMigration, FailMigration
<1>2. dirs # <<>> => Head(dirs) \in Spellings /\ Tail(dirs) \in Seq(Spellings)
  BY DEF TypeOK
<1> USE DEF result, building, InReplay
<1>3. CASE OpenDirectory
  <2>1. files' \subseteq Files
    BY <1>0, <1>2, <1>3 DEF OpenDirectory, SiteRecords, Spellings
  <2> QED
    BY <1>1, <1>3, <2>1 DEF OpenDirectory, TypeOK, InPlace, Building, Loaded
<1>4. CASE PassDirectory
  BY <1>1, <1>2, <1>4 DEF PassDirectory, TypeOK, InPlace, Building, Loaded, Warn
<1>5. CASE CloseDirectory
  BY <1>1, <1>2, <1>5 DEF CloseDirectory, TypeOK, InPlace, Building, Loaded
<1>6. CASE EndReplay
  BY <1>1, <1>6 DEF EndReplay, TypeOK, InPlace, Building, Loaded
<1>7. CASE LoadingTaskFails
  <2>1. context' \in Contexts /\ context'.root = context.root
    BY <1>7, EmptySchema, KindTypes DEF LoadingTaskFails, TypeOK, Contexts
  <2> QED
    BY <1>1, <1>7, <2>1
       DEF LoadingTaskFails, TypeOK, InPlace, Building, Loaded, Warn
<1>8. ASSUME NEW f \in files, ApplyMigration(f) PROVE TypeOK' /\ InPlace'
  <2>1. f.name \in Names
    BY DEF TypeOK, Files
  <2>2. [origin |-> "migration", from |-> Head(dirs).dir] \in Tables
    BY <1>2, <1>8 DEF ApplyMigration, InPlace, Spellings, Tables
  <2>3. context.schema \in Schemas
    BY DEF TypeOK, Contexts
  <2>4. context' \in Contexts /\ context'.root = context.root
    BY <1>8, <2>1, <2>2, <2>3, PutType, DropType
       DEF ApplyMigration, TypeOK, Contexts
  <2>5. files' \subseteq Files
    BY <1>8 DEF ApplyMigration, TypeOK
  <2> QED
    BY <1>1, <1>8, <2>4, <2>5
       DEF ApplyMigration, TypeOK, InPlace, Building, Loaded
<1>9. ASSUME NEW f \in files, FailMigration(f) PROVE TypeOK' /\ InPlace'
  BY <1>1, <1>2, <1>9
     DEF FailMigration, TypeOK, InPlace, Building, Loaded, Warn
<1> QED
  BY <1>3, <1>4, <1>5, <1>6, <1>7, <1>8, <1>9 DEF Replay

LEMMA EndsType ==
  ASSUME TypeOK, InPlace,
         \/ Introspect \/ GoOnWithout \/ EndCrate \/ EndFolder \/ EndLoad
  PROVE  TypeOK' /\ InPlace'
<1> USE DEF result, building, InReplay
<1>1. CASE Introspect
  <2>1. context.root \in Dirs /\ folders # <<>>
    BY <1>1, RootType DEF Introspect, Building
  <2>2. context.schema \in Schemas
    BY DEF TypeOK, Contexts
  <2>3. context' \in Contexts /\ context'.root = context.root
    BY <1>1, <2>1, <2>2, IntrospectType DEF Introspect, TypeOK, Contexts
  <2> QED
    BY <1>1, <2>1, <2>3 DEF Introspect, TypeOK, InPlace, Building, Loaded
<1>2. CASE GoOnWithout
  BY <1>2 DEF GoOnWithout, TypeOK, InPlace, Building, Loaded
<1>3. CASE EndCrate
  <2>1. folders # <<>>
    BY <1>3, RootType DEF EndCrate, Building
  <2>2. members' \in Seq(Contexts) /\ crates' \in Seq(Dirs)
    BY <1>3 DEF EndCrate, TypeOK, OfFolder
  <2>3. migrationDirs' \subseteq Spellings
    BY <1>3 DEF EndCrate, TypeOK
  <2> QED
    BY <1>3, <2>1, <2>2, <2>3 DEF EndCrate, TypeOK, InPlace, Building, Loaded
<1>4. CASE EndFolder
  <2>1. folders # <<>>
    BY <1>4, RootType DEF EndFolder, Building
  <2>2. [context EXCEPT !.schema = MergeAll(@, members)] \in Contexts
    BY MergeType DEF TypeOK, Contexts
  <2>3. /\ contexts' \in Seq(Contexts) /\ folderContexts' \in Seq(Contexts)
        /\ folders' \in Seq(Dirs)
    BY <1>4, <2>1, <2>2 DEF EndFolder, TypeOK
  <2>4. migrationDirs' \subseteq Spellings
    BY <1>4 DEF EndFolder, TypeOK
  <2> QED
    BY <1>4, <2>3, <2>4 DEF EndFolder, TypeOK, InPlace, Building, Loaded
<1>5. CASE EndLoad
  <2>1. folderContexts # <<>> => Head(folderContexts).kind \in Kinds
    <3>1. folderContexts # <<>> => Head(folderContexts) \in Contexts
      BY DEF TypeOK
    <3> QED
      BY <3>1, ContextFields
  <2>2. MergeAll(<<>>, folderContexts) \in Schemas
    BY MergeType, EmptySchema DEF TypeOK
  <2>3. fallback' \in Contexts
    BY <1>5, <2>1, <2>2, LoadAssumption DEF EndLoad, Contexts
  <2>4. queries' \subseteq Dirs
    BY <1>5 DEF EndLoad, ScanQueries
  <2> QED
    BY <1>5, <2>3, <2>4 DEF EndLoad, TypeOK, InPlace, Building, Loaded
<1> QED
  BY <1>1, <1>2, <1>3, <1>4, <1>5

LEMMA StepType == TypeOK /\ InPlace /\ [Next]_vars => TypeOK' /\ InPlace'
<1>1. TypeOK /\ InPlace /\ UNCHANGED vars => TypeOK' /\ InPlace'
  BY DEF TypeOK, InPlace, Building, Loaded, vars, building, result
<1> QED
  BY <1>1, StartsType, ReplayType, EndsType DEF Next

(* Every variable of a load keeps its type, whatever is found and fails.       *)
THEOREM TypeCorrect == Spec => []TypeOK
<1> QED
  BY InitType, StepType, PTL DEF Spec
-----------------------------------------------------------------------------
(* No crate is passed over and none is made up.                              *)
LEMMA HeadAndTail ==
  ASSUME NEW S, NEW s \in Seq(S), s # <<>>
  PROVE  ToSet(s) = {Head(s)} \cup ToSet(Tail(s))
<1>1. /\ Len(s) \in Nat /\ Len(s) > 0 /\ DOMAIN s = 1..Len(s) /\ Head(s) = s[1]
      /\ DOMAIN Tail(s) = 1..(Len(s) - 1)
      /\ \A i \in DOMAIN Tail(s) : Tail(s)[i] = s[i + 1]
  OBVIOUS
<1>2. ASSUME NEW i \in DOMAIN s
      PROVE  s[i] \in {Head(s)} \cup ToSet(Tail(s))
  <2>1. CASE i = 1
    BY <1>1, <2>1
  <2>2. CASE i # 1
    <3>1. i - 1 \in DOMAIN Tail(s) /\ Tail(s)[i - 1] = s[i]
      BY <1>1, <2>2
    <3> QED
      BY <3>1 DEF ToSet
  <2> QED
    BY <2>1, <2>2
<1>3. ASSUME NEW i \in DOMAIN Tail(s)
      PROVE  Tail(s)[i] \in ToSet(s)
  <2>1. i + 1 \in DOMAIN s
    BY <1>1
  <2> QED
    BY <1>1, <2>1 DEF ToSet
<1>4. Head(s) \in ToSet(s)
  BY <1>1 DEF ToSet
<1> QED
  BY <1>2, <1>3, <1>4 DEF ToSet

LEMMA AppendElements ==
  ASSUME NEW S, NEW s \in Seq(S), NEW x \in S
  PROVE  /\ ToSet(Append(s, x)) = ToSet(s) \cup {x}
         /\ RootsOf(Append(s, x)) = RootsOf(s) \cup {x.root}
         /\ \A i \in DOMAIN Append(s, x) :
               \/ Append(s, x)[i] = x
               \/ \E j \in DOMAIN s : Append(s, x)[i] = s[j]
<1>1. /\ Len(s) \in Nat /\ DOMAIN s = 1..Len(s)
      /\ DOMAIN Append(s, x) = 1..(Len(s) + 1)
      /\ \A i \in DOMAIN s : Append(s, x)[i] = s[i]
      /\ Append(s, x)[Len(s) + 1] = x
  OBVIOUS
<1>2. /\ \A i \in DOMAIN Append(s, x) : i = Len(s) + 1 \/ i \in DOMAIN s
      /\ \A i \in DOMAIN s : i \in DOMAIN Append(s, x)
      /\ Len(s) + 1 \in DOMAIN Append(s, x)
  BY <1>1
<1> QED
  BY <1>1, <1>2, Zenon DEF ToSet, RootsOf

LEMMA ConcatElements ==
  ASSUME NEW S, NEW s \in Seq(S), NEW t \in Seq(S)
  PROVE  /\ RootsOf(s \o t) = RootsOf(s) \cup RootsOf(t)
         /\ \A i \in DOMAIN (s \o t) :
               \/ \E j \in DOMAIN s : (s \o t)[i] = s[j]
               \/ \E j \in DOMAIN t : (s \o t)[i] = t[j]
<1>1. /\ Len(s) \in Nat /\ DOMAIN s = 1..Len(s)
      /\ Len(t) \in Nat /\ DOMAIN t = 1..Len(t)
      /\ DOMAIN (s \o t) = 1..(Len(s) + Len(t))
      /\ \A i \in DOMAIN s : (s \o t)[i] = s[i]
      /\ \A i \in DOMAIN t : (s \o t)[Len(s) + i] = t[i]
  OBVIOUS
<1>2. /\ \A i \in DOMAIN (s \o t) :
            i \in DOMAIN s \/ \E j \in DOMAIN t : i = Len(s) + j
      /\ \A i \in DOMAIN s : i \in DOMAIN (s \o t)
      /\ \A j \in DOMAIN t : Len(s) + j \in DOMAIN (s \o t)
  <2>1. ASSUME NEW i \in DOMAIN (s \o t), i \notin DOMAIN s
        PROVE  \E j \in DOMAIN t : i = Len(s) + j
    <3>1. i - Len(s) \in DOMAIN t /\ i = Len(s) + (i - Len(s))
      BY <1>1, <2>1
    <3> QED
      BY <3>1
  <2> QED
    BY <1>1, <2>1
<1>3. \A i \in DOMAIN (s \o t) : \/ \E j \in DOMAIN s : (s \o t)[i] = s[j]
                                 \/ \E j \in DOMAIN t : (s \o t)[i] = t[j]
  BY <1>1, <1>2, Zenon
<1>4. \A r \in RootsOf(s \o t) : r \in RootsOf(s) \cup RootsOf(t)
  BY <1>3, Zenon DEF RootsOf
<1>5. \A r \in RootsOf(s) : r \in RootsOf(s \o t)
  BY <1>1, <1>2, Zenon DEF RootsOf
<1>6. \A r \in RootsOf(t) : r \in RootsOf(s \o t)
  BY <1>1, <1>2, Zenon DEF RootsOf
<1> QED
  BY <1>3, <1>4, <1>5, <1>6

LEMMA SiteStays == [Next]_vars => site' = site
BY DEF Next, vars, Replay, InReplay, DetectFolder, StartCrate, StartFolder,
       OpenDirectory, PassDirectory, CloseDirectory, EndReplay,
       LoadingTaskFails, ApplyMigration, FailMigration, Introspect,
       GoOnWithout, EndCrate, EndFolder, EndLoad

LEMMA WarningsStay == [Next]_vars => warned \subseteq warned'
BY DEF Next, vars, Replay, InReplay, DetectFolder, StartCrate, StartFolder,
       OpenDirectory, PassDirectory, CloseDirectory, EndReplay, Warn,
       LoadingTaskFails, ApplyMigration, FailMigration, Introspect,
       GoOnWithout, EndCrate, EndFolder, EndLoad

LEMMA SameDirs ==
  ASSUME site' = site, NEW c
  PROVE  MigrationDirsFor(c)' = MigrationDirsFor(c)
BY DEF MigrationDirsFor

LEMMA SameDeclarations ==
  ASSUME site' = site, NEW c, NEW n
  PROVE  /\ Statements(c, n)' = Statements(c, n)
         /\ Declares(c, n)' <=> Declares(c, n)
BY SameDirs DEF Statements, Consumed, Declares, LastCreates, Earlier, Version
LEMMA RootsAre ==
  ASSUME TypeOK
  PROVE  /\ site.roots \in Seq(Dirs) /\ site.detected \in [Dirs -> Seq(Dirs)]
         /\ ToSet(site.roots) \subseteq Dirs /\ Crates \subseteq Dirs
         /\ \A r \in ToSet(site.roots) : ToSet(site.detected[r]) \subseteq Crates
<1>1. site.roots \in Seq(Dirs) /\ site.detected \in [Dirs -> Seq(Dirs)]
  BY KindTypes DEF SiteRecords
<1>2. ToSet(site.roots) \subseteq Dirs
  BY <1>1 DEF ToSet
<1>3. \A r \in Dirs : ToSet(site.detected[r]) \subseteq Dirs
  <2> TAKE r \in Dirs
  <2>1. site.detected[r] \in Seq(Dirs)
    BY <1>1
  <2> QED
    BY <2>1 DEF ToSet
<1> QED
  BY <1>1, <1>2, <1>3, Zenon DEF Crates

LEMMA SkipInit == Init => NothingIsSkipped
BY DEF Init, NothingIsSkipped, RootsOf, ToSet, Building

LEMMA SkipStep ==
  ASSUME TypeOK, InPlace, NothingIsSkipped, [Next]_vars
  PROVE  NothingIsSkipped'
<1>0. site' = site
  BY SiteStays
<1>a. Crates' = Crates
  BY <1>0 DEF Crates
<1>b. /\ RootsOf(folderContexts) \cup ToSet(folders) = ToSet(site.roots)
      /\ RootsOf(contexts) \subseteq Crates
      /\ \A r \in RootsOf(folderContexts) :
            ToSet(site.detected[r]) \subseteq RootsOf(contexts)
      /\ pc = "crate" \/ Building =>
            ToSet(site.detected[Head(folders)]) = ToSet(crates) \cup RootsOf(members)
  BY DEF NothingIsSkipped
<1> SUFFICES
      /\ RootsOf(folderContexts') \cup ToSet(folders') = ToSet(site.roots)
      /\ RootsOf(contexts') \subseteq Crates
      /\ \A r \in RootsOf(folderContexts') :
            ToSet(site.detected[r]) \subseteq RootsOf(contexts')
      /\ pc' = "crate" \/ Building' =>
            ToSet(site.detected[Head(folders')]) = ToSet(crates') \cup RootsOf(members')
  BY <1>0, <1>a, Zenon DEF NothingIsSkipped, RootsOf
<1> USE DEF result, building, InReplay
<1>1. CASE DetectFolder
  <2>1. RootsOf(<<>>) = {}
    BY DEF RootsOf
  <2> QED
    BY <1>b, <1>1, <2>1 DEF DetectFolder
<1>2. CASE StartCrate \/ StartFolder
  BY <1>b, <1>2 DEF StartCrate, StartFolder
<1>3. CASE Replay \/ Introspect \/ GoOnWithout \/ UNCHANGED vars
  BY <1>b, <1>3
     DEF Replay, Introspect, GoOnWithout, vars, Building, OpenDirectory,
         PassDirectory, CloseDirectory, EndReplay, LoadingTaskFails,
         ApplyMigration, FailMigration
<1>4. CASE EndCrate
  <2>1. context.root = Head(crates) /\ crates # <<>> /\ Building
    BY <1>4 DEF EndCrate, OfFolder, InPlace, Building
  <2>2. ToSet(crates) = {Head(crates)} \cup ToSet(Tail(crates))
    BY <2>1, HeadAndTail DEF TypeOK
  <2>3. RootsOf(Append(members, context)) = RootsOf(members) \cup {context.root}
    BY AppendElements DEF TypeOK
  <2> QED
    BY <1>b, <1>4, <2>1, <2>2, <2>3 DEF EndCrate
<1>5. CASE EndFolder
  <2>1. /\ context.root = Head(folders) /\ folders # <<>> /\ Building
        /\ crates = <<>>
    BY <1>5 DEF EndFolder, OfFolder, InPlace, Building
  <2>2. ToSet(folders) = {Head(folders)} \cup ToSet(Tail(folders))
    BY <2>1, HeadAndTail DEF TypeOK
  <2>3. ToSet(crates) = {}
    BY <2>1 DEF ToSet
  <2>4. RootsOf(contexts \o members) = RootsOf(contexts) \cup RootsOf(members)
    BY ConcatElements DEF TypeOK
  <2>5. [context EXCEPT !.schema = MergeAll(@, members)] \in Contexts
    BY MergeType DEF TypeOK, Contexts
  <2>6. [context EXCEPT !.schema = MergeAll(@, members)].root = context.root
    BY DEF TypeOK, Contexts
  <2>7. RootsOf(folderContexts') = RootsOf(folderContexts) \cup {Head(folders)}
    <3> DEFINE made == [context EXCEPT !.schema = MergeAll(@, members)]
    <3>1. made \in Contexts /\ made.root = Head(folders)
      BY <2>1, <2>5, <2>6
    <3>2. folderContexts' = Append(folderContexts, made)
      BY <1>5 DEF EndFolder
    <3>3. folderContexts \in Seq(Contexts)
      BY DEF TypeOK
    <3> HIDE DEF made
    <3> QED
      BY <3>1, <3>2, <3>3, AppendElements
  <2>8. ToSet(site.detected[Head(folders)]) = RootsOf(members)
    BY <1>b, <2>1, <2>3
  <2>9. RootsOf(members) \subseteq Crates
    BY <1>b, <2>2, <2>8, RootsAre
  <2>10. pc' = "folder"
    BY <1>5 DEF EndFolder
  <2>11. contexts' = contexts \o members /\ folders' = Tail(folders)
    BY <1>5 DEF EndFolder
  <2> QED
    BY <1>b, <2>2, <2>4, <2>7, <2>8, <2>9, <2>10, <2>11 DEF Building
<1>6. CASE EndLoad
  BY <1>b, <1>6 DEF EndLoad, Building
<1> QED
  BY <1>1, <1>2, <1>3, <1>4, <1>5, <1>6 DEF Next
-----------------------------------------------------------------------------
(* Every context speaks the dialect of a driver.                             *)
LEMMA KindStays ==
  ASSUME site' = site, warned \subseteq warned', NEW c, KindFits(c)
  PROVE  KindFits(c)'
BY DEF KindFits

LEMMA StartFits ==
  ASSUME TypeOK, InPlace, NothingIsSkipped, StartCrate
  PROVE  /\ context'.root = Head(crates) /\ context'.schema = <<>>
         /\ KindFits(context)'
<1> DEFINE c == Head(crates)
<1>1. pc = "crate" /\ crates # <<>> /\ c \in Dirs
  BY DEF StartCrate, TypeOK
<1>2. folders # <<>> /\ Head(folders) \in Dirs
  BY <1>1 DEF InPlace, TypeOK
<1>3. site.enabled # {}
  <2>1. c \in ToSet(crates)
    BY <1>1, HeadAndTail DEF TypeOK
  <2>2. ToSet(site.detected[Head(folders)]) # {}
    BY <1>1, <2>1 DEF NothingIsSkipped
  <2>3. site.detected[Head(folders)] # <<>>
    BY <2>2 DEF ToSet
  <2> QED
    BY <1>2, <2>3, KindTypes, LoadAssumption
<1>4. site.drivers[c] \in SUBSET Kinds
  BY <1>1, KindTypes DEF SiteRecords
<1>5. ResolveKind(DatabaseUrl(c), site.drivers[c])
         \in IF site.drivers[c] # {} THEN site.drivers[c] ELSE site.enabled
  BY <1>1, <1>3, <1>4, UrlType, KindTypes
<1>6. /\ context'.root = c /\ context'.schema = <<>> /\ site' = site
      /\ context'.kind = ResolveKind(DatabaseUrl(c), site.drivers[c])
  BY DEF StartCrate, Start
<1> QED
  BY <1>5, <1>6 DEF KindFits
-----------------------------------------------------------------------------
(* The order of the files, and the statements of a crate.                    *)
LEMMA BeforeOrder ==
  ASSUME NEW f \in Files, NEW g \in Files
  PROVE  /\ Version(f) \in Nat /\ f.path \in Nat
         /\ Version(g) \in Nat /\ g.path \in Nat
         /\ Before(f, g) <=> \/ Version(f) < Version(g)
                             \/ Version(f) = Version(g) /\ f.path < g.path
<1>1. /\ f.path \in Nat /\ g.path \in Nat
      /\ f.version \in Nat \cup {None} /\ g.version \in Nat \cup {None}
      /\ None \notin Nat
  BY LoadAssumption DEF Files
<1>2. Version(f) \in Nat /\ Version(g) \in Nat
  BY <1>1 DEF Version
<1>3. CASE f.version = None \/ g.version = None
  BY <1>1, <1>3 DEF Before, Version
<1>4. CASE f.version # None /\ g.version # None
  BY <1>1, <1>4 DEF Before, Version
<1> QED
  BY <1>1, <1>2, <1>3, <1>4

LEMMA StatementFacts ==
  ASSUME TypeOK, NEW c \in Dirs, NEW n
  PROVE  /\ Len(MigrationDirsFor(c)) \in Nat
         /\ \A s \in Statements(c, n) :
               /\ s[1] \in 1..Len(MigrationDirsFor(c))
               /\ MigrationDirsFor(c)[s[1]] \notin site.missing
               /\ s[2] \in Ups(MigrationDirsFor(c)[s[1]])
               /\ s[2] \in Files /\ s[2].name = n
               /\ s = <<s[1], s[2]>>
         /\ \A i \in 1..Len(MigrationDirsFor(c)) : \A f :
               /\ MigrationDirsFor(c)[i] \notin site.missing
               /\ f \in Ups(MigrationDirsFor(c)[i])
               /\ f.name = n
               => <<i, f>> \in Statements(c, n)
<1> DEFINE found == MigrationDirsFor(c)
           all == UNION {site.files[d] : d \in Dirs}
<1>1. found \in Seq(Dirs)
  BY MigrationDirsType
<1>2. /\ Len(found) \in Nat /\ DOMAIN found = 1..Len(found)
      /\ \A i \in 1..Len(found) : found[i] \in Dirs
  BY <1>1
<1>3. \A d \in Dirs : site.files[d] \subseteq Files
  BY KindTypes DEF SiteRecords
<1> HIDE DEF found
<1>4. Consumed(c) = {i \in 1..Len(found) : found[i] \notin site.missing}
  BY <1>2 DEF Consumed, found
<1>5. Statements(c, n) =
        {s \in Consumed(c) \X all : /\ s[2] \in site.files[found[s[1]]]
                                    /\ ~s[2].down
                                    /\ s[2].name = n}
  BY DEF Statements, found
<1>6. \A i \in 1..Len(found) : \A f \in site.files[found[i]] : f \in all /\ f \in Files
  BY <1>2, <1>3
<1> HIDE DEF all
<1>7. \A s \in Statements(c, n) :
         /\ s[1] \in 1..Len(found) /\ found[s[1]] \notin site.missing
         /\ s[2] \in Ups(found[s[1]]) /\ s[2].name = n
         /\ s = <<s[1], s[2]>>
  BY <1>4, <1>5 DEF Ups
<1>8. \A i \in 1..Len(found) : \A f :
         found[i] \notin site.missing /\ f \in Ups(found[i]) /\ f.name = n
         => <<i, f>> \in Statements(c, n)
  BY <1>4, <1>5, <1>6 DEF Ups
<1>9. \A i \in 1..Len(found) : Ups(found[i]) \subseteq Files
  BY <1>6 DEF Ups
<1> QED
  BY <1>2, <1>7, <1>8, <1>9 DEF found
-----------------------------------------------------------------------------
(* The replay has read just what is behind it.                               *)
LEMMA FaithfulIf ==
  ASSUME TypeOK, site' = site, NEW c \in Dirs, context'.root = c,
         NEW D, D = MigrationDirsFor(c),
         NEW After,
         After = [n \in Names |-> {s \in Statements(c, n) :
                                    \/ s[1] <= Len(D) - Len(dirs')
                                    \/ /\ pc' = "replay"
                                       /\ s[1] = Len(D) - Len(dirs') + 1
                                       /\ s[2] \notin files'}],
         Len(D) - Len(dirs') >= 0,
         \A i \in 1..Len(dirs') : dirs'[i].dir = D[Len(D) - Len(dirs') + i],
         pc' \in {"introspect", "merge"} => dirs' = <<>>,
         pc' = "replay" =>
            /\ Head(dirs').dir \notin site.missing
            /\ files' \subseteq Ups(Head(dirs').dir)
            /\ \A g \in Ups(Head(dirs').dir) \ files', f \in files' : Before(g, f),
         \A n \in Names : LastCreates(After[n]) <=> IsMigrated(context'.schema, n)
  PROVE  ReplayIsFaithful'
<1>1. MigrationDirsFor(context.root)' = D
  BY SameDirs
<1>2. Behind' = Len(D) - Len(dirs')
  BY <1>1 DEF Behind
<1>3. \A n : Statements(context.root, n)' = Statements(c, n)
  BY SameDeclarations
<1>4. \A n \in Names : Applied(n)' = After[n]
  BY <1>2, <1>3 DEF Applied
<1>5. \A d : Ups(d)' = Ups(d)
  BY DEF Ups
<1>6. ASSUME NEW n \in Names
      PROVE  (LastCreates(Applied(n)) <=> IsMigrated(context.schema, n))'
  <2>1. LastCreates(After[n]) <=> IsMigrated(context'.schema, n)
    OBVIOUS
  <2>2. LastCreates(Applied(n))' <=> LastCreates(After[n])
    BY <1>4 DEF LastCreates, Earlier, Version
  <2> QED
    BY <2>1, <2>2 DEF IsMigrated
<1> HIDE DEF Applied
<1> QED
  BY <1>1, <1>2, <1>5, <1>6 DEF ReplayIsFaithful, Before

(* A file's statement is the last so far.                                    *)
LEMMA LastStatement ==
  ASSUME NEW B \in Nat, NEW before, NEW f \in Files,
         \A s \in before :
            /\ s = <<s[1], s[2]>> /\ s[1] \in Nat /\ s[2] \in Files
            /\ s[1] <= B \/ (s[1] = B + 1 /\ Before(s[2], f))
  PROVE  LastCreates(before \cup {<<B + 1, f>>}) <=> f.statement = "create"
<1> DEFINE last == <<B + 1, f>>
           all == before \cup {last}
<1>1. last[1] = B + 1 /\ last[2] = f
  OBVIOUS
<1>2. Version(f) \in Nat /\ f.path \in Nat
  BY BeforeOrder
<1>3. \A s \in before : Earlier(s, last) /\ ~Earlier(last, s)
  <2> TAKE s \in before
  <2>1. /\ Version(s[2]) \in Nat /\ s[2].path \in Nat /\ s[1] \in Nat
        /\ Before(s[2], f) <=>
              \/ Version(s[2]) < Version(f)
              \/ Version(s[2]) = Version(f) /\ s[2].path < f.path
    BY BeforeOrder
  <2>2. s[1] <= B \/ (s[1] = B + 1 /\ Before(s[2], f))
    OBVIOUS
  <2> HIDE DEF last
  <2> QED
    BY <1>1, <1>2, <2>1, <2>2 DEF Earlier
<1>4. Earlier(last, last)
  BY <1>1, <1>2 DEF Earlier
<1> HIDE DEF last
<1>5. LastCreates(all) <=> \E x \in all : /\ x[2].statement = "create"
                                          /\ \A s \in all : Earlier(s, x)
  BY DEF LastCreates
<1>6. ASSUME f.statement = "create" PROVE LastCreates(all)
  BY <1>1, <1>3, <1>4, <1>5, <1>6, Zenon
<1>7. ASSUME LastCreates(all) PROVE f.statement = "create"
  BY <1>1, <1>3, <1>5, <1>7, Zenon
<1> QED
  BY <1>6, <1>7 DEF last

LEMMA ReplayStays ==
  ASSUME TypeOK, InPlace, Replay \/ Introspect \/ GoOnWithout
  PROVE  /\ Building /\ context.root \in Dirs /\ context'.root = context.root
         /\ site' = site /\ crates' = crates /\ warned \subseteq warned'
         /\ folders' = folders /\ members' = members /\ result' = result
         /\ context'.kind = context.kind \/ context.root \in warned'
<1>1. Building
  BY DEF Building, Replay, Introspect, GoOnWithout, OpenDirectory,
         PassDirectory, CloseDirectory, EndReplay, LoadingTaskFails,
         ApplyMigration, FailMigration
<1>2. context.root \in Dirs
  BY <1>1, RootType
<1>3. \/ context' = context
      \/ \E new : context' = [context EXCEPT !.schema = new]
      \/ \E k, new : /\ context' = [context EXCEPT !.kind = k, !.schema = new]
                     /\ context.root \in warned'
  BY Zenon
     DEF Replay, Introspect, GoOnWithout, OpenDirectory, building,
         PassDirectory, CloseDirectory, EndReplay, LoadingTaskFails, Warn,
         ApplyMigration, FailMigration
<1>4. /\ context'.root = context.root
      /\ context'.kind = context.kind \/ context.root \in warned'
  BY <1>3 DEF TypeOK, Contexts
<1>5. /\ site' = site /\ crates' = crates /\ warned \subseteq warned'
      /\ folders' = folders /\ members' = members /\ result' = result
  BY DEF Replay, Introspect, GoOnWithout, OpenDirectory, InReplay, result,
         PassDirectory, CloseDirectory, EndReplay, LoadingTaskFails, Warn,
         ApplyMigration, FailMigration
<1> QED
  BY <1>1, <1>2, <1>4, <1>5

(* The replay before a step, for the steps below.                            *)
LEMMA FaithfulNow ==
  ASSUME TypeOK, InPlace, ReplayIsFaithful, Building, crates # <<>>,
         context.root \notin warned,
         NEW D, D = MigrationDirsFor(context.root)
  PROVE  /\ D \in Seq(Dirs) /\ Len(D) \in Nat /\ Len(dirs) \in Nat
         /\ Len(D) - Len(dirs) \in Nat
         /\ \A i \in 1..Len(dirs) : dirs[i].dir = D[Len(D) - Len(dirs) + i]
         /\ pc \in {"introspect", "merge"} => dirs = <<>>
         /\ pc = "replay" =>
              /\ dirs # <<>>
              /\ Head(dirs).dir \notin site.missing
              /\ files \subseteq Ups(Head(dirs).dir)
              /\ \A g \in Ups(Head(dirs).dir) \ files, f \in files : Before(g, f)
         /\ \A n \in Names : Applied(n) =
              {s \in Statements(context.root, n) :
                 \/ s[1] <= Len(D) - Len(dirs)
                 \/ /\ pc = "replay"
                    /\ s[1] = Len(D) - Len(dirs) + 1
                    /\ s[2] \notin files}
         /\ \A n \in Names : LastCreates(Applied(n)) <=> IsMigrated(context.schema, n)
<1>1. D \in Seq(Dirs) /\ Len(D) \in Nat /\ Len(dirs) \in Nat
  BY RootType, MigrationDirsType DEF TypeOK
<1>2. Behind = Len(D) - Len(dirs)
  BY DEF Behind
<1>3. \A n \in Names : Applied(n) =
         {s \in Statements(context.root, n) :
            \/ s[1] <= Len(D) - Len(dirs)
            \/ /\ pc = "replay"
               /\ s[1] = Len(D) - Len(dirs) + 1
               /\ s[2] \notin files}
  BY <1>2 DEF Applied
<1>4. pc = "replay" => dirs # <<>>
  BY DEF InPlace
<1> QED
  BY <1>1, <1>2, <1>3, <1>4 DEF ReplayIsFaithful

LEMMA ReplayStep ==
  ASSUME TypeOK, InPlace, ReplayIsFaithful, Replay \/ Introspect \/ GoOnWithout
  PROVE  ReplayIsFaithful'
<1>1. /\ Building /\ context.root \in Dirs /\ context'.root = context.root
      /\ site' = site /\ crates' = crates /\ warned \subseteq warned'
  BY ReplayStays
<1>2. SUFFICES ASSUME crates # <<>>, context.root \notin warned'
               PROVE  ReplayIsFaithful'
  BY <1>1 DEF ReplayIsFaithful
<1> DEFINE c == context.root
           D == MigrationDirsFor(c)
           B == Len(D) - Len(dirs)
           After == [n \in Names |-> {s \in Statements(c, n) :
                                        \/ s[1] <= Len(D) - Len(dirs')
                                        \/ /\ pc' = "replay"
                                           /\ s[1] = Len(D) - Len(dirs') + 1
                                           /\ s[2] \notin files'}]
<1>3. /\ D \in Seq(Dirs) /\ Len(D) \in Nat /\ Len(dirs) \in Nat /\ B \in Nat
      /\ \A i \in 1..Len(dirs) : dirs[i].dir = D[B + i]
      /\ pc \in {"introspect", "merge"} => dirs = <<>>
      /\ pc = "replay" =>
           /\ dirs # <<>>
           /\ Head(dirs).dir \notin site.missing
           /\ files \subseteq Ups(Head(dirs).dir)
           /\ \A g \in Ups(Head(dirs).dir) \ files, f \in files : Before(g, f)
      /\ \A n \in Names : Applied(n) =
           {s \in Statements(c, n) :
              \/ s[1] <= B
              \/ pc = "replay" /\ s[1] = B + 1 /\ s[2] \notin files}
      /\ \A n \in Names : LastCreates(Applied(n)) <=> IsMigrated(context.schema, n)
  BY <1>1, <1>2, FaithfulNow
<1>4. \A n \in Names : \A s \in Statements(c, n) :
         /\ s[1] \in 1..Len(D) /\ D[s[1]] \notin site.missing
         /\ s[2] \in Ups(D[s[1]]) /\ s[2] \in Files /\ s[2].name = n
         /\ s = <<s[1], s[2]>>
  BY <1>1, StatementFacts
<1>5. dirs # <<>> => /\ Head(dirs).dir = D[B + 1] /\ B + 1 \in 1..Len(D)
                     /\ Tail(dirs) \in Seq(Spellings)
                     /\ Len(Tail(dirs)) = Len(dirs) - 1
                     /\ \A i \in 1..Len(Tail(dirs)) : Tail(dirs)[i].dir = D[B + 1 + i]
  <2> SUFFICES ASSUME dirs # <<>>
               PROVE  /\ Head(dirs).dir = D[B + 1] /\ B + 1 \in 1..Len(D)
                      /\ Tail(dirs) \in Seq(Spellings)
                      /\ Len(Tail(dirs)) = Len(dirs) - 1
                      /\ \A i \in 1..Len(Tail(dirs)) :
                            Tail(dirs)[i].dir = D[B + 1 + i]
    OBVIOUS
  <2>1. /\ Len(dirs) > 0 /\ Head(dirs) = dirs[1] /\ Tail(dirs) \in Seq(Spellings)
        /\ Len(Tail(dirs)) = Len(dirs) - 1
        /\ \A i \in 1..Len(Tail(dirs)) : Tail(dirs)[i] = dirs[i + 1]
    BY DEF TypeOK
  <2>2. Head(dirs).dir = D[B + 1] /\ B + 1 \in 1..Len(D)
    BY <1>3, <2>1
  <2>3. ASSUME NEW i \in 1..Len(Tail(dirs))
        PROVE  Tail(dirs)[i].dir = D[B + 1 + i]
    <3>1. i + 1 \in 1..Len(dirs)
      BY <1>3, <2>1
    <3>2. dirs[i + 1].dir = D[B + (i + 1)]
      BY <1>3, <3>1
    <3>3. B + (i + 1) = B + 1 + i
      BY <1>3
    <3> QED
      BY <2>1, <3>2, <3>3
  <2> QED
    BY <2>1, <2>2, <2>3
<1> HIDE DEF D, c
(* The requirements of the new state, for a step that changes the relations   *)
(* as it changes the statements that are behind.                             *)
<1> DEFINE Goal ==
         /\ Len(D) - Len(dirs') >= 0
         /\ \A i \in 1..Len(dirs') : dirs'[i].dir = D[Len(D) - Len(dirs') + i]
         /\ pc' \in {"introspect", "merge"} => dirs' = <<>>
         /\ pc' = "replay" =>
              /\ Head(dirs').dir \notin site.missing
              /\ files' \subseteq Ups(Head(dirs').dir)
              /\ \A g \in Ups(Head(dirs').dir) \ files', f \in files' : Before(g, f)
         /\ \A n \in Names : LastCreates(After[n]) <=> IsMigrated(context'.schema, n)
<1>6. SUFFICES Goal
  <2> HIDE DEF After
  <2>1. After = [n \in Names |-> {s \in Statements(c, n) :
                                    \/ s[1] <= Len(D) - Len(dirs')
                                    \/ /\ pc' = "replay"
                                       /\ s[1] = Len(D) - Len(dirs') + 1
                                       /\ s[2] \notin files'}]
    BY DEF After
  <2>2. D = MigrationDirsFor(c) /\ c \in Dirs /\ context'.root = c /\ site' = site
    BY <1>1 DEF c, D
  <2> QED
    BY <1>6, <2>1, <2>2, FaithfulIf
<1>7. CASE OpenDirectory
  <2>1. /\ pc = "open" /\ dirs # <<>> /\ pc' = "replay"
        /\ Head(dirs).dir \notin site.missing
        /\ files' = Ups(Head(dirs).dir) /\ dirs' = dirs /\ context' = context
    BY <1>7 DEF OpenDirectory, Ups
  <2>2. \A n \in Names : After[n] = Applied(n)
    BY <1>3, <1>4, <1>5, <2>1
  <2> HIDE DEF After
  <2> QED
    BY <1>3, <2>1, <2>2
<1>8. CASE PassDirectory
  <2>1. /\ pc = "open" /\ pc' = "open" /\ dirs # <<>> /\ dirs' = Tail(dirs)
        /\ Head(dirs).dir \in site.missing /\ context' = context
    BY <1>2, <1>8 DEF PassDirectory, Warn
  <2>2. \A n \in Names : After[n] = Applied(n)
    BY <1>3, <1>4, <1>5, <2>1
  <2> HIDE DEF After
  <2> QED
    BY <1>3, <1>5, <2>1, <2>2
<1>9. CASE CloseDirectory
  <2>1. /\ pc = "replay" /\ pc' = "open" /\ dirs # <<>> /\ dirs' = Tail(dirs)
        /\ files = {} /\ context' = context
    BY <1>3, <1>9 DEF CloseDirectory
  <2>2. \A n \in Names : After[n] = Applied(n)
    BY <1>3, <1>4, <1>5, <2>1
  <2> HIDE DEF After
  <2> QED
    BY <1>3, <1>5, <2>1, <2>2
<1>10. CASE EndReplay \/ GoOnWithout
  <2>1. /\ pc # "replay" /\ pc' \in {"introspect", "merge"} /\ dirs = <<>>
        /\ dirs' = dirs /\ context' = context
    BY <1>3, <1>10 DEF EndReplay, GoOnWithout, building
  <2>2. \A n \in Names : After[n] = Applied(n)
    BY <1>3, <1>4, <2>1
  <2> HIDE DEF After
  <2> QED
    BY <1>3, <2>1, <2>2
<1>11. CASE Introspect
  <2>1. /\ pc # "replay" /\ pc' = "merge" /\ dirs = <<>> /\ dirs' = dirs
    BY <1>3, <1>11 DEF Introspect
  <2>2. \A n \in Names : After[n] = Applied(n)
    BY <1>3, <1>4, <2>1
  <2>3. context.schema \in Schemas
    BY DEF TypeOK, Contexts
  <2>4. context'.schema = MergeDatabaseTables(context.schema)
    BY <1>11 DEF Introspect, TypeOK, Contexts
  <2>5. \A n \in Names : IsMigrated(context'.schema, n) <=> IsMigrated(context.schema, n)
    BY <1>1, <2>3, <2>4, IntrospectType, ZenonT(30) DEF IsMigrated
  <2> HIDE DEF After
  <2> QED
    BY <1>3, <2>1, <2>2, <2>5
<1>12. CASE LoadingTaskFails \/ \E f \in files : FailMigration(f)
  BY <1>2, <1>12 DEF LoadingTaskFails, FailMigration, Warn
<1>13. ASSUME NEW f \in files, ApplyMigration(f) PROVE Goal
  <2>1. /\ pc = "replay" /\ pc' = "replay" /\ dirs' = dirs /\ dirs # <<>>
        /\ files' = files \ {f} /\ f \in Files /\ f \in Ups(Head(dirs).dir)
        /\ \A g \in files \ {f} : Before(f, g)
    BY <1>3, <1>13 DEF ApplyMigration, IsNext, TypeOK
  <2>2. \A g \in Ups(Head(dirs).dir) \ files', h \in files' : Before(g, h)
    BY <1>3, <2>1
  <2>3. \A n \in Names : n # f.name => After[n] = Applied(n)
    BY <1>3, <1>4, <2>1
  <2>4. f.name \in Names => After[f.name] = Applied(f.name) \cup {<<B + 1, f>>}
    <3> SUFFICES ASSUME f.name \in Names
                 PROVE  After[f.name] = Applied(f.name) \cup {<<B + 1, f>>}
      OBVIOUS
    <3>1. <<B + 1, f>> \in Statements(c, f.name)
      BY <1>1, <1>3, <1>5, <2>1, StatementFacts DEF c, D
    <3>2. \A s \in Statements(c, f.name) :
             s[1] = B + 1 /\ s[2] = f => s = <<B + 1, f>>
      BY <1>4
    <3>3. /\ <<B + 1, f>>[1] = B + 1 /\ <<B + 1, f>>[2] = f
          /\ f \in files /\ f \notin files'
      BY <2>1
    <3>4. After[f.name] = {s \in Statements(c, f.name) :
                             s[1] <= B \/ (s[1] = B + 1 /\ s[2] \notin files')}
      BY <2>1
    <3>5. Applied(f.name) = {s \in Statements(c, f.name) :
                               s[1] <= B \/ (s[1] = B + 1 /\ s[2] \notin files)}
      BY <1>3, <2>1
    <3> HIDE DEF After, B
    <3>6. \A s : s \in After[f.name] <=> s \in Applied(f.name) \/ s = <<B + 1, f>>
      BY <2>1, <3>1, <3>2, <3>3, <3>4, <3>5
    <3> QED
      BY <3>6
  <2>5. f.name \in Names => (LastCreates(After[f.name]) <=> f.statement = "create")
    <3> SUFFICES ASSUME f.name \in Names
                 PROVE  LastCreates(After[f.name]) <=> f.statement = "create"
      OBVIOUS
    <3>1. \A s \in Applied(f.name) :
             /\ s = <<s[1], s[2]>> /\ s[1] \in Nat /\ s[2] \in Files
             /\ s[1] <= B \/ (s[1] = B + 1 /\ Before(s[2], f))
      BY <1>3, <1>4, <1>5, <2>1
    <3> QED
      <4> DEFINE before == Applied(f.name)
      <4>1. B \in Nat /\ f \in Files
        BY <1>3, <2>1
      <4> HIDE DEF before, B
      <4>2. LastCreates(before \cup {<<B + 1, f>>}) <=> f.statement = "create"
        BY <3>1, <4>1, LastStatement DEF before
      <4> QED
        BY <2>4, <4>2 DEF before
  <2>6. \A n \in Names :
           IsMigrated(context'.schema, n) <=>
              IF n = f.name THEN f.statement = "create"
                            ELSE IsMigrated(context.schema, n)
    <3>1. f.name \in Names /\ f.statement \in {"create", "drop"}
      BY <2>1 DEF Files
    <3>2. context.schema \in Schemas
      BY DEF TypeOK, Contexts
    <3>3. [origin |-> "migration", from |-> Head(dirs).dir] \in Tables
      <4>1. Head(dirs) \in Spellings
        BY <2>1 DEF TypeOK
      <4> QED
        BY <4>1 DEF Spellings, Tables
    <3>4. context'.schema =
             IF f.statement = "create"
             THEN Put(context.schema, f.name,
                      [origin |-> "migration", from |-> Head(dirs).dir])
             ELSE Restrict(context.schema, DOMAIN context.schema \ {f.name})
      BY <1>13 DEF ApplyMigration, TypeOK, Contexts
    <3>5. CASE f.statement = "create"
      <4> DEFINE t == [origin |-> "migration", from |-> Head(dirs).dir]
                 made == Put(context.schema, f.name, t)
      <4>1. context'.schema = made /\ t.origin = "migration" /\ t \in Tables
        BY <3>3, <3>4, <3>5
      <4> HIDE DEF t
      <4>2. /\ DOMAIN made = DOMAIN context.schema \cup {f.name}
            /\ made[f.name] = t
            /\ \A m \in DOMAIN context.schema : m # f.name => made[m] = context.schema[m]
        BY DEF Put
      <4> HIDE DEF made
      <4> QED
        BY <3>5, <4>1, <4>2 DEF IsMigrated
    <3>6. CASE f.statement = "drop"
      <4> DEFINE made == Restrict(context.schema, DOMAIN context.schema \ {f.name})
      <4>1. context'.schema = made
        BY <3>4, <3>6
      <4>2. /\ DOMAIN made = DOMAIN context.schema \ {f.name}
            /\ \A m \in DOMAIN context.schema \ {f.name} : made[m] = context.schema[m]
        BY <3>2, DropType, Zenon
      <4> HIDE DEF made
      <4> QED
        BY <3>6, <4>1, <4>2 DEF IsMigrated
    <3> QED
      BY <3>1, <3>5, <3>6
  <2> HIDE DEF After
  <2> QED
    BY <1>3, <2>1, <2>2, <2>3, <2>5, <2>6
<1> QED
  BY <1>7, <1>8, <1>9, <1>10, <1>11, <1>12, <1>13 DEF Replay

LEMMA FaithfulElsewhere ==
  ASSUME TypeOK, InPlace, ReplayIsFaithful,
         \/ DetectFolder \/ StartCrate \/ StartFolder
         \/ EndCrate \/ EndFolder \/ EndLoad \/ UNCHANGED vars
  PROVE  ReplayIsFaithful'
<1>1. CASE DetectFolder \/ EndCrate \/ EndFolder \/ EndLoad
  BY <1>1 DEF DetectFolder, EndCrate, EndFolder, EndLoad, ReplayIsFaithful, Building
<1>2. CASE StartFolder
  BY <1>2 DEF StartFolder, ReplayIsFaithful
<1>3. CASE StartCrate
  <2> DEFINE c == Head(crates)
             D == MigrationDirsFor(c)
             After == [n \in Names |-> {s \in Statements(c, n) :
                                          \/ s[1] <= Len(D) - Len(dirs')
                                          \/ /\ pc' = "replay"
                                             /\ s[1] = Len(D) - Len(dirs') + 1
                                             /\ s[2] \notin files'}]
  <2>1. /\ crates # <<>> /\ c \in Dirs /\ site' = site /\ pc' = "open"
        /\ context'.root = c /\ context'.schema = <<>> /\ dirs' = Spelled(c, D)
    BY <1>3 DEF StartCrate, Start, TypeOK
  <2>2. D \in Seq(Dirs) /\ Len(D) \in Nat
    BY <2>1, MigrationDirsType
  <2> HIDE DEF c, D
  <2>3. /\ Len(dirs') = Len(D)
        /\ \A i \in 1..Len(D) : dirs'[i].dir = D[i]
    BY <2>1, <2>2 DEF Spelled
  <2>4. \A n \in Names : \A s \in Statements(c, n) : s[1] \in 1..Len(D)
    BY <2>1, StatementFacts DEF D
  <2>5. \A n \in Names : After[n] = {}
    BY <2>1, <2>2, <2>3, <2>4
  <2>6. After = [n \in Names |-> {s \in Statements(c, n) :
                                    \/ s[1] <= Len(D) - Len(dirs')
                                    \/ /\ pc' = "replay"
                                       /\ s[1] = Len(D) - Len(dirs') + 1
                                       /\ s[2] \notin files'}]
    OBVIOUS
  <2> HIDE DEF After
  <2>7. \A n \in Names : LastCreates(After[n]) <=> IsMigrated(context'.schema, n)
    BY <2>1, <2>5, EmptySchema DEF LastCreates, IsMigrated
  <2>8. /\ Len(D) - Len(dirs') >= 0
        /\ \A i \in 1..Len(dirs') : dirs'[i].dir = D[Len(D) - Len(dirs') + i]
    BY <2>2, <2>3
  <2> QED
    BY <2>1, <2>6, <2>7, <2>8, FaithfulIf DEF D
<1>4. CASE UNCHANGED vars
  <2>1. site' = site /\ UNCHANGED <<pc, crates, context, dirs, files, warned>>
    BY <1>4 DEF vars, building
  <2>2. \A n : Statements(context.root, n)' = Statements(context.root, n)
    BY <2>1, SameDeclarations
  <2>3. MigrationDirsFor(context.root)' = MigrationDirsFor(context.root)
    BY <2>1, SameDirs
  <2>4. Behind' = Behind
    BY <2>1, <2>3 DEF Behind
  <2>5. \A n : Applied(n)' = Applied(n)
    BY <2>1, <2>2, <2>4 DEF Applied
  <2>6. \A d : Ups(d)' = Ups(d)
    BY <2>1 DEF Ups
  <2>7. \A n : LastCreates(Applied(n))' <=> LastCreates(Applied(n))
    BY <2>5 DEF LastCreates, Earlier, Version
  <2> QED
    BY <2>1, <2>3, <2>4, <2>6, <2>7 DEF ReplayIsFaithful, Building, IsMigrated, Before
<1> QED
  BY <1>1, <1>2, <1>3, <1>4
-----------------------------------------------------------------------------
(* What the contexts have.                                                   *)
LEMMA SchemaStays ==
  ASSUME site' = site, warned \subseteq warned', NEW c, SchemaFits(c)
  PROVE  SchemaFits(c)'
<1>1. \A r, n : Declares(r, n)' <=> Declares(r, n)
  BY SameDeclarations
<1> QED
  BY <1>1 DEF SchemaFits, IsMigrated

LEMMA ReplayedFits ==
  ASSUME TypeOK, InPlace, ReplayIsFaithful, pc = "merge", crates # <<>>
  PROVE  SchemaFits(context)
<1> SUFFICES ASSUME context.root \notin warned, NEW n \in Names
             PROVE  Declares(context.root, n) <=> IsMigrated(context.schema, n)
  BY DEF SchemaFits
<1>1. Building /\ context.root \in Dirs
  BY RootType DEF Building
<1>2. dirs = <<>> /\ Behind = Len(MigrationDirsFor(context.root))
  <2>1. dirs = <<>>
    BY <1>1 DEF ReplayIsFaithful
  <2>2. Len(MigrationDirsFor(context.root)) \in Nat
    BY <1>1, StatementFacts
  <2> QED
    BY <2>1, <2>2 DEF Behind
<1>3. \A s \in Statements(context.root, n) : s[1] <= Behind
  BY <1>1, <1>2, StatementFacts
<1>4. Applied(n) = Statements(context.root, n)
  BY <1>3 DEF Applied
<1> QED
  BY <1>1, <1>4 DEF ReplayIsFaithful, Declares

LEMMA FitStep ==
  ASSUME TypeOK, InPlace, NothingIsSkipped, ReplayIsFaithful, CratesFit, [Next]_vars
  PROVE  CratesFit'
<1>1. /\ site' = site /\ warned \subseteq warned'
      /\ \A c : KindFits(c) => KindFits(c)'
      /\ \A c : SchemaFits(c) => SchemaFits(c)'
  BY SiteStays, WarningsStay, KindStays, SchemaStays
<1>2. SUFFICES
        /\ \A c : (\E i \in DOMAIN contexts' : contexts'[i] = c)
                  => KindFits(c)' /\ SchemaFits(c)'
        /\ \A c : (\E i \in DOMAIN members' : members'[i] = c)
                  => KindFits(c)' /\ SchemaFits(c)'
        /\ \A c : Building' /\ crates' # <<>> /\ context' = c => KindFits(c)'
  BY DEF CratesFit, KindFits, SchemaFits
<1>3. /\ \A c : (\E i \in DOMAIN contexts : contexts[i] = c)
                => KindFits(c)' /\ SchemaFits(c)'
      /\ \A c : (\E i \in DOMAIN members : members[i] = c)
                => KindFits(c)' /\ SchemaFits(c)'
  BY <1>1 DEF CratesFit
<1>4. CASE DetectFolder
  BY <1>3, <1>4 DEF DetectFolder, Building, result
<1>5. CASE StartCrate
  <2>1. UNCHANGED <<contexts, members>>
    BY <1>5 DEF StartCrate, result
  <2>2. \A c : context' = c => KindFits(c)'
    BY <1>5, StartFits DEF KindFits
  <2> QED
    BY <1>3, <2>1, <2>2
<1>6. CASE StartFolder
  BY <1>3, <1>6 DEF StartFolder, result
<1>7. CASE Replay \/ Introspect \/ GoOnWithout
  <2>1. /\ Building /\ context'.root = context.root
        /\ crates' = crates /\ members' = members /\ contexts' = contexts
        /\ context'.kind = context.kind \/ context.root \in warned'
    BY <1>7, ReplayStays DEF result
  <2>2. crates # <<>> => KindFits(context)
    BY <2>1 DEF CratesFit
  <2>3. \A c : crates' # <<>> /\ context' = c => KindFits(c)'
    BY <1>1, <2>1, <2>2 DEF KindFits
  <2> QED
    BY <1>3, <2>1, <2>3
<1>8. CASE EndCrate
  <2>1. /\ pc = "merge" /\ crates # <<>> /\ ~Building'
        /\ contexts' = contexts /\ members' = Append(members, context)
    BY <1>8 DEF EndCrate, OfFolder, Building
  <2>2. KindFits(context) /\ SchemaFits(context)
    BY <2>1, ReplayedFits DEF CratesFit, Building
  <2>3. \A c : c = context => KindFits(c)' /\ SchemaFits(c)'
    BY <1>1, <2>2
  <2>4. \A i \in DOMAIN members' :
           members'[i] = context \/ \E j \in DOMAIN members : members'[i] = members[j]
    BY <2>1, AppendElements DEF TypeOK
  <2> QED
    BY <1>3, <2>1, <2>3, <2>4
<1>9. CASE EndFolder
  <2>1. contexts' = contexts \o members /\ members' = members /\ ~Building'
    BY <1>9 DEF EndFolder, Building
  <2>2. \A i \in DOMAIN contexts' : \/ \E j \in DOMAIN contexts : contexts'[i] = contexts[j]
                                    \/ \E j \in DOMAIN members : contexts'[i] = members[j]
    <3>1. contexts \in Seq(Contexts) /\ members \in Seq(Contexts)
      BY DEF TypeOK
    <3>2. \A i \in DOMAIN (contexts \o members) :
             \/ \E j \in DOMAIN contexts : (contexts \o members)[i] = contexts[j]
             \/ \E j \in DOMAIN members : (contexts \o members)[i] = members[j]
      BY <3>1, ConcatElements, SMTT(30)
    <3> QED
      BY <2>1, <3>2, Zenon
  <2> QED
    BY <1>3, <2>1, <2>2
<1>10. CASE EndLoad
  BY <1>3, <1>10 DEF EndLoad, Building
<1>11. CASE UNCHANGED vars
  <2>1. UNCHANGED <<contexts, members, pc, crates, context>>
    BY <1>11 DEF vars, result, building
  <2>2. \A c : Building /\ crates # <<>> /\ context = c => KindFits(c)'
    BY <1>1 DEF CratesFit
  <2> QED
    BY <1>3, <2>1, <2>2 DEF Building
<1> QED
  BY <1>4, <1>5, <1>6, <1>7, <1>8, <1>9, <1>10, <1>11 DEF Next

LEMMA KnowsStays ==
  ASSUME site' = site, warned \subseteq warned', NEW schema, NEW r, Knows(schema, r)
  PROVE  Knows(schema, r)'
<1>1. \A c, n : Declares(c, n)' <=> Declares(c, n)
  BY SameDeclarations
<1> QED
  BY <1>1 DEF Knows

LEMMA ViewsStep ==
  ASSUME TypeOK, InPlace, NothingIsSkipped, CratesFit, ViewsKnowTheirCrates,
         [Next]_vars
  PROVE  ViewsKnowTheirCrates'
<1>1. /\ site' = site
      /\ \A s, r : Knows(s, r) => Knows(s, r)'
  BY SiteStays, WarningsStay, KnowsStays
<1>2. SUFFICES
        /\ \A s, r : (\E i \in DOMAIN folderContexts' :
                         folderContexts'[i].schema = s /\ folderContexts'[i].root = r)
                     => Knows(s, r)'
        /\ Loaded' => \A r \in ToSet(site.roots) : \A s : fallback'.schema = s => Knows(s, r)'
  BY <1>1 DEF ViewsKnowTheirCrates, Knows, ToSet
<1>3. /\ \A s, r : (\E i \in DOMAIN folderContexts :
                       folderContexts[i].schema = s /\ folderContexts[i].root = r)
                   => Knows(s, r)'
      /\ Loaded => \A r \in ToSet(site.roots) : \A s : fallback.schema = s => Knows(s, r)'
  BY <1>1 DEF ViewsKnowTheirCrates
<1>4. CASE DetectFolder \/ StartCrate \/ StartFolder \/ EndCrate
  BY <1>3, <1>4 DEF DetectFolder, StartCrate, StartFolder, Start, EndCrate, Loaded, result
<1>5. CASE Replay \/ Introspect \/ GoOnWithout
  <2>1. folderContexts' = folderContexts
    BY <1>5, ReplayStays DEF result
  <2>2. ~Loaded'
    BY <1>5
       DEF Loaded, Replay, Introspect, GoOnWithout, OpenDirectory, PassDirectory,
           CloseDirectory, EndReplay, LoadingTaskFails, ApplyMigration, FailMigration
  <2> QED
    BY <1>3, <2>1, <2>2
<1>6. CASE EndFolder
  <2> DEFINE made == [context EXCEPT !.schema = MergeAll(@, members)]
  <2>1. /\ folderContexts' = Append(folderContexts, made)
        /\ folderContexts \in Seq(Contexts) /\ members \in Seq(Contexts)
        /\ context \in Contexts /\ crates = <<>> /\ Building /\ ~Loaded'
    BY <1>6 DEF EndFolder, OfFolder, Building, Loaded, TypeOK
  <2>2. context.root = Head(folders)
    BY <2>1 DEF InPlace
  <2>3. /\ MergeAll(context.schema, members) \in Schemas
        /\ \A i \in DOMAIN members : DOMAIN members[i].schema
              \subseteq DOMAIN MergeAll(context.schema, members)
    <3>1. context.schema \in Schemas
      BY <2>1, ContextFields
    <3>2. /\ MergeAll(context.schema, members) \in Schemas
          /\ DOMAIN MergeAll(context.schema, members) =
                DOMAIN context.schema
                  \cup UNION {DOMAIN members[i].schema : i \in DOMAIN members}
      BY <2>1, <3>1, MergeType
    <3> QED
      BY <3>2, Zenon
  <2>4. /\ made \in Contexts /\ made.root = Head(folders)
        /\ made.schema = MergeAll(context.schema, members)
    BY <2>1, <2>2, <2>3 DEF Contexts
  <2>5. Knows(made.schema, made.root)
    <3>1. ToSet(site.detected[Head(folders)]) = RootsOf(members)
      <4>1. ToSet(crates) = {}
        BY <2>1 DEF ToSet
      <4> QED
        BY <2>1, <4>1 DEF NothingIsSkipped
    <3> HIDE DEF made
    <3> SUFFICES ASSUME NEW c \in RootsOf(members), c \notin warned,
                        NEW n \in Names, Declares(c, n)
                 PROVE  n \in DOMAIN made.schema
      BY <2>4, <3>1 DEF Knows
    <3>2. PICK i \in DOMAIN members : members[i].root = c
      BY DEF RootsOf
    <3>3. n \in DOMAIN members[i].schema
      BY <3>2 DEF CratesFit, SchemaFits, IsMigrated
    <3> QED
      BY <2>3, <2>4, <3>2, <3>3
  <2> HIDE DEF made
  <2>6. \A i \in DOMAIN folderContexts' :
           \/ folderContexts'[i] = made
           \/ \E j \in DOMAIN folderContexts : folderContexts'[i] = folderContexts[j]
    BY <2>1, <2>4, AppendElements
  <2>7. \A s, r : made.schema = s /\ made.root = r => Knows(s, r)'
    BY <1>1, <2>5
  <2> QED
    BY <1>3, <2>1, <2>6, <2>7
<1>7. CASE EndLoad
  <2>1. /\ folders = <<>> /\ folderContexts' = folderContexts
        /\ fallback'.schema = MergeAll(<<>>, folderContexts)
        /\ folderContexts \in Seq(Contexts)
    BY <1>7 DEF EndLoad, TypeOK
  <2>2. \A i \in DOMAIN folderContexts : DOMAIN folderContexts[i].schema
           \subseteq DOMAIN MergeAll(<<>>, folderContexts)
    BY <2>1, EmptySchema, MergeType
  <2>3. ASSUME NEW r \in ToSet(site.roots)
        PROVE  Knows(MergeAll(<<>>, folderContexts), r)
    <3>1. ToSet(folders) = {}
      BY <2>1 DEF ToSet
    <3>2. PICK i \in DOMAIN folderContexts : folderContexts[i].root = r
      BY <3>1 DEF NothingIsSkipped, RootsOf
    <3>3. Knows(folderContexts[i].schema, r)
      BY <3>2 DEF ViewsKnowTheirCrates
    <3> QED
      BY <2>2, <3>2, <3>3 DEF Knows
  <2>4. \A r \in ToSet(site.roots) : \A s : fallback'.schema = s => Knows(s, r)'
    BY <1>1, <2>1, <2>3
  <2> QED
    BY <1>3, <2>1, <2>4
<1>8. CASE UNCHANGED vars
  BY <1>3, <1>8 DEF vars, result, Loaded
<1> QED
  BY <1>4, <1>5, <1>6, <1>7, <1>8 DEF Next

LEMMA LoadInvariant == Spec => []LoadInv
<1>1. Init => LoadInv
  <2> SUFFICES ASSUME Init PROVE LoadInv
    OBVIOUS
  <2>1. TypeOK /\ InPlace /\ NothingIsSkipped
    BY InitType, SkipInit
  <2>2. CratesFit /\ ReplayIsFaithful /\ ViewsKnowTheirCrates
    BY DEF Init, CratesFit, ReplayIsFaithful, ViewsKnowTheirCrates, Building, Loaded
  <2> QED
    BY <2>1, <2>2 DEF LoadInv
<1>2. LoadInv /\ [Next]_vars => LoadInv'
  <2> SUFFICES ASSUME LoadInv, [Next]_vars PROVE LoadInv'
    OBVIOUS
  <2>1. /\ TypeOK /\ InPlace /\ NothingIsSkipped
        /\ CratesFit /\ ReplayIsFaithful /\ ViewsKnowTheirCrates
    BY DEF LoadInv
  <2>2. TypeOK' /\ InPlace'
    BY <2>1, StepType
  <2>3. NothingIsSkipped' /\ CratesFit' /\ ViewsKnowTheirCrates'
    BY <2>1, SkipStep, FitStep, ViewsStep
  <2>4. ReplayIsFaithful'
    BY <2>1, ReplayStep, FaithfulElsewhere DEF Next
  <2> QED
    BY <2>2, <2>3, <2>4 DEF LoadInv
<1> QED
  BY <1>1, <1>2, PTL DEF Spec
-----------------------------------------------------------------------------
(* Which context serves a document.                                          *)
LEMMA DepthGrows ==
  ASSUME NEW d \in Dirs, NEW e \in Ancestors[d]
  PROVE  /\ e \in Dirs
         /\ Depth(e) \in Nat /\ Depth(d) \in Nat
         /\ Depth(e) <= Depth(d)
         /\ e # d => Depth(e) < Depth(d)
<1>1. e \in Dirs /\ Ancestors[e] \in SUBSET Ancestors[d] /\ IsFiniteSet(Ancestors[d])
  BY LoadAssumption
<1>2. Depth(e) \in Nat /\ Depth(d) \in Nat
  BY <1>1, DepthType
<1>3. Depth(e) <= Depth(d) /\ (Depth(d) = Depth(e) => Ancestors[d] = Ancestors[e])
  BY <1>1, FS_Subset DEF Depth
<1>4. Ancestors[d] = Ancestors[e] => e = d
  BY LoadAssumption
<1> QED
  BY <1>1, <1>2, <1>3, <1>4

LEMMA ThereIsADeepest ==
  ASSUME NEW d \in Dirs, NEW T, T \subseteq Ancestors[d], T # {}
  PROVE  \E c \in T : \A e \in T : Depth(e) <= Depth(c)
<1> DEFINE S == {Depth(e) : e \in T}
<1>1. S \subseteq 0..Depth(d) /\ S # {} /\ Depth(d) \in Nat
  BY DepthGrows, DepthType
<1>2. Max(S) \in S /\ \A k \in S : k <= Max(S)
  <2> HIDE DEF S
  <2> QED
    BY <1>1, GreatestNumber
<1>3. PICK c \in T : Depth(c) = Max(S)
  BY <1>2
<1> QED
  BY <1>2, <1>3

LEMMA Routing ==
  ASSUME NEW some \in Seq(Contexts), NEW d \in Dirs,
         NEW c \in RootsOf(some) \cap Ancestors[d],
         \A e \in RootsOf(some) \cap Ancestors[d] : Depth(e) <= Depth(c)
  PROVE  /\ Containing(some, d) # {}
         /\ \E i \in DOMAIN some : /\ DeepestContaining(some, d) = some[i]
                                   /\ some[i].root = c
<1> DEFINE I == {i \in DOMAIN some : some[i].root = c}
           Best(i) == \A j \in Containing(some, d) :
                         \/ Depth(some[j].root) < Depth(some[i].root)
                         \/ some[j].root = some[i].root /\ j <= i
<1>1. Len(some) \in Nat /\ DOMAIN some = 1..Len(some)
  OBVIOUS
<1>2. I \subseteq 0..Len(some) /\ I # {}
  BY <1>1 DEF RootsOf
<1>3. PICK m \in I : \A k \in I : k <= m
  <2> HIDE DEF I
  <2> QED
    BY <1>1, <1>2, GreatestNumber
<1>4. m \in Containing(some, d) /\ some[m].root = c
  BY DEF Containing
<1>5. \A j \in Containing(some, d) :
         /\ j \in DOMAIN some
         /\ some[j].root \in RootsOf(some) \cap Ancestors[d]
  BY DEF Containing, RootsOf
<1>6. ASSUME NEW j \in Containing(some, d), some[j].root # c
      PROVE  Depth(some[j].root) < Depth(c)
  <2> DEFINE e == some[j].root
  <2>1. e \in Ancestors[d] /\ e \in Dirs /\ c \in Dirs /\ Depth(e) <= Depth(c)
    BY <1>5, LoadAssumption
  <2>2. e \in Ancestors[c] \/ c \in Ancestors[e]
    BY <2>1, LoadAssumption
  <2> HIDE DEF e
  <2>3. e # c
    BY <1>6 DEF e
  <2>4. Depth(e) \in Nat /\ Depth(c) \in Nat
    BY <2>1, DepthType
  <2>5. Depth(e) < Depth(c) \/ Depth(c) < Depth(e)
    BY <2>1, <2>2, <2>3, DepthGrows
  <2>6. Depth(e) < Depth(c)
    BY <2>1, <2>4, <2>5
  <2> QED
    BY <2>6 DEF e
<1>7. Best(m)
  BY <1>3, <1>4, <1>5, <1>6
<1>8. PICK k \in Containing(some, d) :
         Best(k) /\ DeepestContaining(some, d) = some[k]
  BY <1>4, <1>7, Zenon DEF DeepestContaining
<1>9. some[k].root = c
  <2>1. \/ Depth(c) < Depth(some[k].root)
        \/ c = some[k].root
    BY <1>4, <1>8
  <2>2. Depth(some[k].root) <= Depth(c)
    BY <1>5
  <2>3. Depth(some[k].root) \in Nat /\ Depth(c) \in Nat
    BY <1>5, LoadAssumption, DepthType
  <2> QED
    BY <2>1, <2>2, <2>3
<1> QED
  BY <1>4, <1>5, <1>8, <1>9

LEMMA LoadedRoots ==
  ASSUME LoadInv, Loaded
  PROVE  /\ RootsOf(contexts) = Crates
         /\ RootsOf(folderContexts) = ToSet(site.roots)
         /\ contexts \in Seq(Contexts) /\ folderContexts \in Seq(Contexts)
<1>1. folders = <<>> /\ ToSet(<<>>) = {}
  BY DEF LoadInv, InPlace, ToSet
<1>2. RootsOf(folderContexts) = ToSet(site.roots)
  BY <1>1 DEF LoadInv, NothingIsSkipped
<1>3. \A r \in ToSet(site.roots) : ToSet(site.detected[r]) \subseteq RootsOf(contexts)
  BY <1>2 DEF LoadInv, NothingIsSkipped
<1>4. Crates \subseteq RootsOf(contexts)
  BY <1>3, Zenon DEF Crates
<1>5. RootsOf(contexts) \subseteq Crates
  BY DEF LoadInv, NothingIsSkipped
<1> QED
  BY <1>2, <1>4, <1>5 DEF LoadInv, TypeOK

(* No context speaks a dialect that its crate has no driver for: resolve_kind  *)
(* takes the scheme of the URL only for a driver that is available, and a      *)
(* detection that finds a crate found a driver.                              *)
THEOREM DialectsHaveDrivers == Spec => []ContextsHaveDrivers
<1>1. LoadInv => ContextsHaveDrivers
  BY DEF LoadInv, CratesFit, KindFits, ContextsHaveDrivers
<1> QED
  BY <1>1, LoadInvariant, PTL

(* Every document of a crate is served against what the migrations of the      *)
(* deepest crate around it declare, however the crates nest, wherever their     *)
(* migrations are and whatever could not be read.                            *)
THEOREM CratesAreServed == Spec => []CratesSeeTheirMigrations
<1>1. LoadInv => CratesSeeTheirMigrations
  <2> SUFFICES ASSUME LoadInv, Loaded, NEW d \in Dirs,
                      Crates \cap Ancestors[d] # {},
                      NearestCrate(d) \notin warned,
                      NEW n \in Names
               PROVE  Declares(NearestCrate(d), n)
                         <=> IsMigrated(ContextFor(d).schema, n)
    BY DEF CratesSeeTheirMigrations, IsMigrated
  <2> DEFINE c == NearestCrate(d)
  <2>1. /\ c \in Crates \cap Ancestors[d]
        /\ \A e \in Crates \cap Ancestors[d] : Depth(e) <= Depth(c)
    <3>1. \E x \in Crates \cap Ancestors[d] :
             \A e \in Crates \cap Ancestors[d] : Depth(e) <= Depth(x)
      BY ThereIsADeepest
    <3> QED
      BY <3>1, Zenon DEF NearestCrate
  <2> HIDE DEF c
  <2>2. PICK i \in DOMAIN contexts : ContextFor(d) = contexts[i] /\ contexts[i].root = c
    BY <2>1, LoadedRoots, Routing DEF ContextFor
  <2>3. SchemaFits(contexts[i])
    BY DEF LoadInv, CratesFit
  <2> QED
    BY <2>2, <2>3 DEF SchemaFits, c
<1> QED
  BY <1>1, LoadInvariant, PTL

(* A document outside every crate knows what the crates of its folder declare, *)
(* and one outside every folder what those of all folders do.                 *)
THEOREM DetachedAreServed == Spec => []DetachedDocumentsSeeAll
<1>1. LoadInv => DetachedDocumentsSeeAll
  <2> SUFFICES ASSUME LoadInv, Loaded, NEW d \in Dirs, NEW r \in ToSet(site.roots),
                      Crates \cap Ancestors[d] = {},
                      r \in Ancestors[d] \/ Ancestors[d] \cap ToSet(site.roots) = {},
                      \A e \in Ancestors[d] \cap ToSet(site.roots) :
                         ~(Depth(e) > Depth(r))
               PROVE  Knows(ContextFor(d).schema, r)
    BY DEF DetachedDocumentsSeeAll, Knows
  <2>1. Containing(contexts, d) = {}
    BY LoadedRoots DEF Containing, RootsOf
  <2>2. CASE r \in Ancestors[d]
    <3>1. \A e \in RootsOf(folderContexts) \cap Ancestors[d] : Depth(e) <= Depth(r)
      <4> SUFFICES ASSUME NEW e \in RootsOf(folderContexts) \cap Ancestors[d]
                   PROVE  Depth(e) <= Depth(r)
        OBVIOUS
      <4>1. ~(Depth(e) > Depth(r))
        BY LoadedRoots
      <4>2. Depth(e) \in Nat /\ Depth(r) \in Nat
        BY <2>2, DepthGrows
      <4> QED
        BY <4>1, <4>2
    <3>2. PICK i \in DOMAIN folderContexts :
             DeepestContaining(folderContexts, d) = folderContexts[i]
             /\ folderContexts[i].root = r /\ Containing(folderContexts, d) # {}
      BY <2>2, <3>1, LoadedRoots, Routing
    <3>3. ContextFor(d) = folderContexts[i]
      BY <2>1, <3>2 DEF ContextFor
    <3> QED
      BY <3>2, <3>3 DEF LoadInv, ViewsKnowTheirCrates
  <2>3. CASE Ancestors[d] \cap ToSet(site.roots) = {}
    <3>1. Containing(folderContexts, d) = {}
      BY <2>3, LoadedRoots DEF Containing, RootsOf
    <3> QED
      BY <2>1, <3>1 DEF ContextFor, LoadInv, ViewsKnowTheirCrates
  <2> QED
    BY <2>2, <2>3
<1> QED
  BY <1>1, LoadInvariant, PTL
=============================================================================
