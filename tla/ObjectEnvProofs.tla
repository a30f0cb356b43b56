-------------------------- MODULE ObjectEnvProofs --------------------------
(***************************************************************************)
(* Proofs about ObjectEnv for every set of objects, every finite set of    *)
(* threads and every naming of the objects: type correctness, that the     *)
(* table's reference is never lost whatever runs at the same time, and     *)
(* that objects live exactly as long as they are referred to on every      *)
(* behaviour in which no Get has yet overlapped an Insert or a Remove.     *)
(***************************************************************************)
EXTENDS ObjectEnv, FiniteSetTheorems, TLAPS

(***************************************************************************)
(* Types.                                                                  *)
(***************************************************************************)

(* The environment starts empty, the objects unborn.                       *)
LEMMA TypeInit == Init => TypeOK
<1> SUFFICES ASSUME Init PROVE TypeOK
  OBVIOUS
<1> USE ObjectEnvAssumption DEF Init
<1>1. \A t \in Threads : pc[t].at \in {"insert", "remove"} <=> mutex = t
  BY DEF Idle
<1>2. pc \in [Threads -> {Idle} \cup [at : {"insert", "remove", "get"}, o : Objects]]
  OBVIOUS
<1>3. /\ nref \in [Objects -> Int] /\ life \in [Objects -> {"unborn", "alive", "dead"}]
      /\ creator \in [Objects -> Threads \cup {nobody}]
      /\ owners \in [Objects -> SUBSET (Threads \cup {"env"})]
  OBVIOUS
<1>4. objs \subseteq Objects /\ mutex \in Threads \cup {nobody} /\ raced \in BOOLEAN /\ misused \in BOOLEAN
  OBVIOUS
<1> QED BY <1>1, <1>2, <1>3, <1>4 DEF TypeOK

(* Every step of a thread keeps the types, and mutex_ with the one thread  *)
(* inside Insert or Remove.                                                *)
LEMMA TypeStep == TypeOK /\ [Next]_vars => TypeOK'
<1> SUFFICES ASSUME TypeOK, [Next]_vars PROVE TypeOK'
  OBVIOUS
<1> USE ObjectEnvAssumption DEF TypeOK, Idle, IsIdle, At
<1>1. ASSUME NEW t \in Threads, InsertStore(t) PROVE TypeOK'
  BY <1>1 DEF InsertStore
<1>2. ASSUME NEW t \in Threads, RemoveErase(t) PROVE TypeOK'
  BY <1>2 DEF RemoveErase
<1>3. ASSUME NEW t \in Threads, GetAddRef(t) PROVE TypeOK'
  BY <1>3 DEF GetAddRef, AddRefManually
<1>4. ASSUME NEW t \in Threads, NEW o \in Objects, Create(t, o) PROVE TypeOK'
  BY <1>4 DEF Create
<1>5. ASSUME NEW t \in Threads, NEW o \in Objects, Drop(t, o) PROVE TypeOK'
  BY <1>5 DEF Drop, Release
<1>6. ASSUME NEW t \in Threads, NEW o \in Objects, Insert(t, o) PROVE TypeOK'
  BY <1>6 DEF Insert, Lock, AddRefManually
<1>7. ASSUME NEW t \in Threads, NEW o \in Objects, Remove(t, o) PROVE TypeOK'
  BY <1>7 DEF Remove, Lock, Release
<1>8. ASSUME NEW t \in Threads, NEW o \in Objects, Get(t, o) PROVE TypeOK'
  BY <1>8 DEF Get
<1>9. ASSUME NEW t \in Threads, NEW o \in Objects, NEW u \in Threads, Share(t, u, o)
      PROVE  TypeOK'
  BY <1>9 DEF Share, AddRefManually
<1>10. CASE UNCHANGED vars
  BY <1>10 DEF vars
<1> QED BY <1>1, <1>2, <1>3, <1>4, <1>5, <1>6, <1>7, <1>8, <1>9, <1>10 DEF Next

(* nref_, the lives, the table and the threads' positions keep their       *)
(* types, and a thread inside Insert or Remove holds mutex_ (ObjectEnv).   *)
THEOREM TypeCorrect == Spec => []TypeOK
BY TypeInit, TypeStep, PTL DEF Spec

(***************************************************************************)
(* The table.  That its reference is listed is not inductive alone: a step *)
(* of InsertStore or RemoveErase must not touch the entry of another       *)
(* object, and a Remove must find the reference that it releases.  So:     *)
(* what is being inserted is counted and its name is free; what is being   *)
(* removed is listed but no longer counted; every other entry is counted.  *)
(***************************************************************************)
InsertingIsCounted ==
    \A t \in Threads : pc[t].at = "insert" =>
        /\ "env" \in owners[pc[t].o]
        /\ \A p \in objs : NameOf[p] # NameOf[pc[t].o]

RemovingIsListed ==
    \A t \in Threads : pc[t].at = "remove" =>
        pc[t].o \in objs /\ "env" \notin owners[pc[t].o]

ListedIsCounted ==
    \A o \in objs :
        "env" \in owners[o] \/ \E t \in Threads : pc[t] = [at |-> "remove", o |-> o]

TableInv == TypeOK /\ InsertingIsCounted /\ RemovingIsListed /\ ListedIsCounted /\ TableReferenceIsListed

(* The empty table meets it.                                               *)
LEMMA TableInit == Init => TableInv
<1> SUFFICES ASSUME Init PROVE TableInv
  OBVIOUS
<1>1. TypeOK
  BY TypeInit
<1>2. \A t \in Threads : pc[t].at = "idle"
  BY DEF Init, Idle
<1> QED BY <1>1, <1>2
      DEF Init, TableInv, InsertingIsCounted, RemovingIsListed, ListedIsCounted, TableReferenceIsListed

(* Every step keeps it: mutex_ lets one thread at a time be inside Insert  *)
(* or Remove, and the other threads touch only references of their own.    *)
LEMMA TableStep == TableInv /\ [Next]_vars => TableInv'
<1> SUFFICES ASSUME TableInv, [Next]_vars PROVE TableInv'
  OBVIOUS
<1>0. TypeOK /\ TypeOK'
  BY TypeStep DEF TableInv
<1> USE <1>0, ObjectEnvAssumption DEF TableInv, InsertingIsCounted, RemovingIsListed, ListedIsCounted, TableReferenceIsListed
<1>1. ASSUME NEW t \in Threads, InsertStore(t) PROVE TableInv'
  BY <1>1 DEF InsertStore, TypeOK, Idle
<1>2. ASSUME NEW t \in Threads, RemoveErase(t) PROVE TableInv'
  BY <1>2 DEF RemoveErase, TypeOK, Idle
<1>3. ASSUME NEW t \in Threads, GetAddRef(t) PROVE TableInv'
  BY <1>3 DEF GetAddRef, AddRefManually, TypeOK, Idle
<1>4. ASSUME NEW t \in Threads, NEW o \in Objects, Create(t, o) PROVE TableInv'
  BY <1>4 DEF Create, TypeOK
<1>5. ASSUME NEW t \in Threads, NEW o \in Objects, Drop(t, o) PROVE TableInv'
  BY <1>5 DEF Drop, Release, TypeOK
<1>6. ASSUME NEW t \in Threads, NEW o \in Objects, Insert(t, o) PROVE TableInv'
  BY <1>6 DEF Insert, Lock, AddRefManually, IsIdle, At, TypeOK, Idle
<1>7. ASSUME NEW t \in Threads, NEW o \in Objects, Remove(t, o) PROVE TableInv'
  BY <1>7 DEF Remove, Lock, Release, IsIdle, At, TypeOK, Idle
<1>8. ASSUME NEW t \in Threads, NEW o \in Objects, Get(t, o) PROVE TableInv'
  BY <1>8 DEF Get, IsIdle, At, TypeOK, Idle
<1>9. ASSUME NEW t \in Threads, NEW o \in Objects, NEW u \in Threads, Share(t, u, o)
      PROVE  TableInv'
  BY <1>9 DEF Share, AddRefManually, TypeOK
<1>10. CASE UNCHANGED vars
  BY <1>10 DEF vars, TypeOK
<1> QED BY <1>1, <1>2, <1>3, <1>4, <1>5, <1>6, <1>7, <1>8, <1>9, <1>10 DEF Next

(* The table's reference always has the entry that will release it, or is  *)
(* on its way into the table, whatever inserts, removals and lookups run   *)
(* at the same time (Insert, Remove).                                      *)
THEOREM TableReferenceKept == Spec => []TableReferenceIsListed
<1>1. TableInv => TableReferenceIsListed
  BY DEF TableInv
<1> QED BY <1>1, TableInit, TableStep, PTL DEF Spec

(***************************************************************************)
(* The count.  While no Get has overlapped an Insert or a Remove, a getter *)
(* and a holder of mutex_ exclude each other, so what a getter has found   *)
(* is still listed and counted when it adds its own reference.             *)
(***************************************************************************)
CreatorIsAlone ==
    \A o \in Objects : creator[o] # nobody => owners[o] = {}

GettersExcludeLock ==
    \A t \in Threads : pc[t].at = "get" =>
        mutex = nobody /\ pc[t].o \in objs /\ t \notin owners[pc[t].o]

CountInv ==
    /\ TableInv
    /\ CountIsOwners
    /\ ~raced => CreatorIsAlone /\ GettersExcludeLock /\ ~misused

(* A new owner is one more reference, and who gives one up is one less:    *)
(* the sets that nref_ counts are finite.                                  *)
LEMMA OwnerCount ==
    ASSUME NEW S \in SUBSET (Threads \cup {"env"}), NEW w
    PROVE  /\ Cardinality(S) \in Nat
           /\ Cardinality(S) = 0 <=> S = {}
           /\ w \notin S => Cardinality(S \cup {w}) = Cardinality(S) + 1
           /\ w \in S => Cardinality(S \ {w}) = Cardinality(S) - 1
<1>1. IsFiniteSet(Threads \cup {"env"})
  BY ObjectEnvAssumption, FS_AddElement
<1>2. IsFiniteSet(S)
  BY <1>1, FS_Subset
<1> QED BY <1>2, FS_CardinalityType, FS_EmptySet, FS_AddElement, FS_RemoveElement

(* AddRefManually keeps the count of an object in use exact.               *)
LEMMA AddRefCounts ==
    ASSUME TypeOK, CountIsOwners, ~raced, ~misused,
           NEW o \in Objects, NEW w \in Threads \cup {"env"},
           w \notin owners[o], life[o] = "alive", AddRefManually(o, w)
    PROVE  /\ \A p \in Objects : nref'[p] = Cardinality(owners'[p])
           /\ ~misused' /\ life'[o] = "alive"
<1>1. \A p \in Objects : nref'[p] = Cardinality(owners'[p])
  <2> SUFFICES ASSUME NEW p \in Objects PROVE nref'[p] = Cardinality(owners'[p])
    OBVIOUS
  <2>1. owners[p] \in SUBSET (Threads \cup {"env"}) /\ nref[p] = Cardinality(owners[p])
    BY DEF TypeOK, CountIsOwners
  <2>2. CASE p = o
    <3>1. nref'[p] = nref[p] + 1 /\ owners'[p] = owners[p] \cup {w}
      BY <2>2 DEF AddRefManually, TypeOK
    <3> QED BY <2>1, <2>2, <3>1, OwnerCount
  <2>3. CASE p # o
    BY <2>1, <2>3 DEF AddRefManually, TypeOK
  <2> QED BY <2>2, <2>3
<1> QED BY <1>1 DEF AddRefManually

(* Release keeps the count exact, and deletes the object exactly when the  *)
(* last reference goes.                                                    *)
LEMMA ReleaseCounts ==
    ASSUME TypeOK, CountIsOwners, ~raced, ~misused,
           NEW o \in Objects, NEW w \in owners[o], Release(o, w)
    PROVE  /\ \A p \in Objects : nref'[p] = Cardinality(owners'[p])
           /\ ~misused'
           /\ life'[o] = "alive" <=> owners'[o] # {}
           /\ \A p \in Objects \ {o} : life'[p] = life[p]
<1>1. owners[o] \in SUBSET (Threads \cup {"env"}) /\ nref[o] = Cardinality(owners[o]) /\ life[o] = "alive"
  BY DEF TypeOK, CountIsOwners
<1>2. nref'[o] = nref[o] - 1 /\ owners'[o] = owners[o] \ {w}
  BY DEF Release, TypeOK
<1>3. nref'[o] = Cardinality(owners'[o])
  BY <1>1, <1>2, OwnerCount
<1>4. nref[o] = 1 <=> owners'[o] = {}
  <2>1. Cardinality(owners[o]) \in Nat
    BY <1>1, OwnerCount
  <2>2. owners'[o] \in SUBSET (Threads \cup {"env"})
    BY <1>1, <1>2
  <2>3. Cardinality(owners'[o]) = 0 <=> owners'[o] = {}
    BY <2>2, OwnerCount
  <2> QED BY <1>1, <1>2, <1>3, <2>1, <2>3
<1>5. \A p \in Objects \ {o} : nref'[p] = nref[p] /\ owners'[p] = owners[p] /\ life'[p] = life[p]
  BY DEF Release, TypeOK
<1>6. life'[o] = IF nref[o] = 1 THEN "dead" ELSE "alive"
  BY <1>1 DEF Release, TypeOK
<1>7. \A p \in Objects : nref'[p] = Cardinality(owners'[p])
  BY <1>3, <1>5 DEF CountIsOwners
<1>8. ~misused'
  BY <1>1 DEF Release
<1> QED BY <1>4, <1>5, <1>6, <1>7, <1>8

(* No object is counted, listed or used at the start.                      *)
LEMMA CountInit == Init => CountInv
<1> SUFFICES ASSUME Init PROVE CountInv
  OBVIOUS
<1>1. TableInv
  BY TableInit
<1>2. \A t \in Threads : pc[t].at = "idle"
  BY DEF Init, Idle
<1> QED BY <1>1, <1>2, FS_EmptySet
      DEF Init, CountInv, CountIsOwners, CreatorIsAlone, GettersExcludeLock

(* Every step keeps it.                                                    *)
LEMMA CountStep == CountInv /\ [Next]_vars => CountInv'
<1> SUFFICES ASSUME CountInv, [Next]_vars PROVE CountInv'
  OBVIOUS
<1>0. TypeOK /\ TypeOK' /\ TableInv /\ TableInv'
  BY TypeStep, TableStep DEF CountInv, TableInv
<1>a. SUFFICES ASSUME ~raced, ~raced'
               PROVE  CountIsOwners' /\ CreatorIsAlone' /\ GettersExcludeLock' /\ ~misused'
  <2>1. ~raced' => ~raced
    <3>1. ASSUME Next PROVE ~raced' => ~raced
      BY <3>1, <1>0 DEF Next, InsertStore, RemoveErase, GetAddRef, Create, Drop, Insert, Remove, Get, Share, Lock, TypeOK
    <3> QED BY <3>1 DEF vars
  <2> QED BY <1>0, <2>1 DEF CountInv, CountIsOwners
<1>b. CountIsOwners /\ CreatorIsAlone /\ GettersExcludeLock /\ ~misused
  BY <1>a DEF CountInv
<1> USE <1>0, <1>a, <1>b, ObjectEnvAssumption DEF CreatorIsAlone, GettersExcludeLock
<1>1. ASSUME NEW t \in Threads, InsertStore(t)
      PROVE  CountIsOwners' /\ CreatorIsAlone' /\ GettersExcludeLock' /\ ~misused'
  BY <1>1 DEF InsertStore, TypeOK, Idle, CountIsOwners
<1>2. ASSUME NEW t \in Threads, RemoveErase(t)
      PROVE  CountIsOwners' /\ CreatorIsAlone' /\ GettersExcludeLock' /\ ~misused'
  BY <1>2 DEF RemoveErase, TypeOK, Idle, CountIsOwners
<1>3. ASSUME NEW t \in Threads, GetAddRef(t)
      PROVE  CountIsOwners' /\ CreatorIsAlone' /\ GettersExcludeLock' /\ ~misused'
  <2> DEFINE o == pc[t].o
  <2>1. o \in Objects /\ o \in objs /\ t \notin owners[o] /\ mutex = nobody
    BY <1>3 DEF GetAddRef, TypeOK, Idle
  <2>4. AddRefManually(o, t)
    BY <1>3 DEF GetAddRef
  <2> HIDE DEF o
  <2>2. "env" \in owners[o]
    <3>1. \A u \in Threads : pc[u].at # "remove"
      BY <2>1 DEF TypeOK
    <3>2. "env" \in owners[o] \/ \E u \in Threads : pc[u] = [at |-> "remove", o |-> o]
      BY <2>1 DEF TableInv, ListedIsCounted
    <3> QED BY <3>1, <3>2
  <2>3. life[o] = "alive" /\ creator[o] = nobody
    BY <2>1, <2>2 DEF CountIsOwners
  <2>5. /\ \A p \in Objects : nref'[p] = Cardinality(owners'[p])
        /\ ~misused'
    BY <2>1, <2>3, <2>4, AddRefCounts
  <2>6. creator' = creator /\ life' = life /\ objs' = objs /\ mutex' = mutex
        /\ pc' = [pc EXCEPT ![t] = Idle] /\ owners' = [owners EXCEPT ![o] = @ \cup {t}]
    BY <1>3, <2>4 DEF GetAddRef, AddRefManually
  <2>a. \A p \in Objects : life'[p] = "alive" <=> (owners'[p] # {} \/ creator'[p] # nobody)
    BY <2>1, <2>3, <2>6 DEF CountIsOwners, TypeOK
  <2>7. CountIsOwners'
    BY <2>5, <2>a DEF CountIsOwners
  <2>8. CreatorIsAlone'
    BY <2>1, <2>3, <2>6 DEF TypeOK
  <2>9. GettersExcludeLock'
    BY <2>1, <2>6 DEF TypeOK, Idle
  <2> QED BY <2>5, <2>7, <2>8, <2>9
<1>4. ASSUME NEW t \in Threads, NEW o \in Objects, Create(t, o)
      PROVE  CountIsOwners' /\ CreatorIsAlone' /\ GettersExcludeLock' /\ ~misused'
  BY <1>4 DEF Create, TypeOK, CountIsOwners
<1>5. ASSUME NEW t \in Threads, NEW o \in Objects, Drop(t, o)
      PROVE  CountIsOwners' /\ CreatorIsAlone' /\ GettersExcludeLock' /\ ~misused'
  <2>1. t \in owners[o] /\ Release(o, t) /\ UNCHANGED <<creator, objs, mutex, pc>>
    BY <1>5 DEF Drop
  <2>2. creator[o] = nobody
    BY <2>1
  <2>3. /\ \A p \in Objects : nref'[p] = Cardinality(owners'[p])
        /\ ~misused'
        /\ life'[o] = "alive" <=> owners'[o] # {}
        /\ \A p \in Objects \ {o} : life'[p] = life[p]
    BY <2>1, ReleaseCounts
  <2>4. \A p \in Objects : owners'[p] \subseteq owners[p] /\ (p # o => owners'[p] = owners[p])
    BY <2>1 DEF Release, TypeOK
  <2> QED BY <2>1, <2>2, <2>3, <2>4 DEF CountIsOwners, TypeOK
<1>6. ASSUME NEW t \in Threads, NEW o \in Objects, Insert(t, o)
      PROVE  CountIsOwners' /\ CreatorIsAlone' /\ GettersExcludeLock' /\ ~misused'
  <2>1. /\ Has(t, o) /\ mutex = nobody /\ \A p \in objs : NameOf[p] # NameOf[o]
        /\ AddRefManually(o, "env") /\ objs' = objs
        /\ creator' = [creator EXCEPT ![o] = nobody]
        /\ pc' = [pc EXCEPT ![t] = [at |-> "insert", o |-> o]]
        /\ Getting = {}
    BY <1>6 DEF Insert, Lock, At
  <2>2. life[o] = "alive"
    BY <2>1 DEF Has, CountIsOwners
  <2>3. "env" \notin owners[o]
    BY <2>1 DEF TableInv, TableReferenceIsListed, TypeOK
  <2>4. /\ \A p \in Objects : nref'[p] = Cardinality(owners'[p])
        /\ ~misused'
    BY <2>1, <2>2, <2>3, AddRefCounts
  <2>5. /\ owners' = [owners EXCEPT ![o] = @ \cup {"env"}] /\ life' = life
    BY <2>1 DEF AddRefManually
  <2>a. \A p \in Objects : life'[p] = "alive" <=> (owners'[p] # {} \/ creator'[p] # nobody)
    <3>1. life'[o] = "alive" /\ owners'[o] # {}
      BY <2>2, <2>5 DEF TypeOK
    <3>2. \A p \in Objects \ {o} : life'[p] = life[p] /\ owners'[p] = owners[p] /\ creator'[p] = creator[p]
      BY <2>1, <2>5 DEF TypeOK
    <3> QED BY <3>1, <3>2 DEF CountIsOwners
  <2>b. CreatorIsAlone'
    BY <2>1, <2>5 DEF TypeOK
  <2>6. CountIsOwners' /\ CreatorIsAlone'
    BY <2>4, <2>a, <2>b DEF CountIsOwners
  <2>7. GettersExcludeLock'
    BY <2>1 DEF Getting, TypeOK
  <2> QED BY <2>4, <2>6, <2>7
<1>7. ASSUME NEW t \in Threads, NEW o \in Objects, Remove(t, o)
      PROVE  CountIsOwners' /\ CreatorIsAlone' /\ GettersExcludeLock' /\ ~misused'
  <2>1. /\ o \in objs /\ mutex = nobody /\ Release(o, "env") /\ UNCHANGED <<creator, objs>>
        /\ pc' = [pc EXCEPT ![t] = [at |-> "remove", o |-> o]]
        /\ Getting = {}
    BY <1>7 DEF Remove, Lock, At
  <2>2. "env" \in owners[o]
    BY <2>1 DEF TableInv, ListedIsCounted, TypeOK
  <2>3. creator[o] = nobody
    BY <2>2
  <2>4. /\ \A p \in Objects : nref'[p] = Cardinality(owners'[p])
        /\ ~misused'
        /\ life'[o] = "alive" <=> owners'[o] # {}
        /\ \A p \in Objects \ {o} : life'[p] = life[p]
    BY <2>1, <2>2, ReleaseCounts
  <2>5. \A p \in Objects : owners'[p] \subseteq owners[p] /\ (p # o => owners'[p] = owners[p])
    BY <2>1 DEF Release, TypeOK
  <2>6. CountIsOwners' /\ CreatorIsAlone'
    BY <2>1, <2>3, <2>4, <2>5 DEF CountIsOwners, TypeOK
  <2>7. GettersExcludeLock'
    BY <2>1 DEF Getting, TypeOK
  <2> QED BY <2>4, <2>6, <2>7
<1>8. ASSUME NEW t \in Threads, NEW o \in Objects, Get(t, o)
      PROVE  CountIsOwners' /\ CreatorIsAlone' /\ GettersExcludeLock' /\ ~misused'
  <2>1. /\ o \in objs /\ t \notin owners[o] /\ mutex = nobody
        /\ pc' = [pc EXCEPT ![t] = [at |-> "get", o |-> o]]
        /\ UNCHANGED <<nref, life, creator, objs, mutex, owners, misused>>
    BY <1>8 DEF Get, At
  <2>2. CountIsOwners' /\ CreatorIsAlone' /\ ~misused'
    BY <2>1 DEF CountIsOwners
  <2>3. GettersExcludeLock'
    BY <2>1 DEF TypeOK
  <2> QED BY <2>2, <2>3
<1>9. ASSUME NEW t \in Threads, NEW o \in Objects, NEW u \in Threads, Share(t, u, o)
      PROVE  CountIsOwners' /\ CreatorIsAlone' /\ GettersExcludeLock' /\ ~misused'
  <2>1. /\ Has(t, o) /\ IsIdle(u) /\ u \notin owners[o] /\ AddRefManually(o, u)
        /\ creator' = [creator EXCEPT ![o] = nobody] /\ UNCHANGED <<objs, mutex, pc>>
    BY <1>9 DEF Share
  <2>2. life[o] = "alive"
    BY <2>1 DEF Has, CountIsOwners
  <2>3. /\ \A p \in Objects : nref'[p] = Cardinality(owners'[p])
        /\ ~misused'
    BY <2>1, <2>2, AddRefCounts
  <2>4. owners' = [owners EXCEPT ![o] = @ \cup {u}] /\ life' = life
    BY <2>1 DEF AddRefManually
  <2>a. \A p \in Objects : life'[p] = "alive" <=> (owners'[p] # {} \/ creator'[p] # nobody)
    BY <2>1, <2>2, <2>4 DEF CountIsOwners, TypeOK
  <2>b. CreatorIsAlone'
    BY <2>1, <2>4 DEF TypeOK
  <2>5. CountIsOwners' /\ CreatorIsAlone'
    BY <2>3, <2>a, <2>b DEF CountIsOwners
  <2>6. GettersExcludeLock'
    BY <2>1, <2>4 DEF IsIdle, Idle, TypeOK
  <2> QED BY <2>3, <2>5, <2>6
<1>10. CASE UNCHANGED vars
  BY <1>10 DEF vars, CountIsOwners
<1> QED BY <1>1, <1>2, <1>3, <1>4, <1>5, <1>6, <1>7, <1>8, <1>9, <1>10 DEF Next

(* Until a Get overlaps an Insert or a Remove, nref_ is the number of      *)
(* references held, an object is deleted exactly when the last of them is  *)
(* released, and nobody uses a deleted one (object.h, ObjectEnv).          *)
THEOREM LivesWhileOwned == Spec => []ObjectsLiveWhileOwned
<1>1. CountInv => ObjectsLiveWhileOwned
  BY DEF CountInv, ObjectsLiveWhileOwned, NoUseAfterDelete
<1> QED BY <1>1, CountInit, CountStep, PTL DEF Spec
=============================================================================
