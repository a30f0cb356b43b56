----------------------------- MODULE ObjectEnv -----------------------------
(***************************************************************************)
(* ObjectEnv (adv/env.cc) and the reference count of Object                *)
(* (adv/object.h): threads create objects, share them, put them into the   *)
(* table under their names, look them up, remove and release them.  Insert *)
(* and Remove hold mutex_; Get does not, and runs between any two steps of *)
(* theirs.                                                                 *)
(*                                                                         *)
(* owners records who holds which counted reference; the code has only the *)
(* count.  A thread takes at most one reference to an object, and releases *)
(* only one that it holds.                                                 *)
(***************************************************************************)
EXTENDS Integers, FiniteSets

CONSTANTS
    Objects, Threads,
    NameOf,         \* NameOf[o]: object_id() of o
    nobody          \* no thread

ASSUME ObjectEnvAssumption ==
    /\ IsFiniteSet(Threads) /\ nobody \notin Threads
    /\ "env" \notin Threads

VARIABLES
    nref,           \* nref_
    life,           \* "unborn", "alive", "dead" (deleted)
    creator,        \* the thread that may use o without holding a reference
    objs,           \* the objects in objs_
    mutex,          \* who holds mutex_
    pc,             \* where a thread is in Insert, Remove, Get
    owners,         \* history: who holds a counted reference
    raced,          \* history: a Get overlapped an Insert or a Remove
    misused         \* history: a deleted object was used

vars == <<nref, life, creator, objs, mutex, pc, owners, raced, misused>>

Idle == [at |-> "idle"]
At(t, at, o) == pc' = [pc EXCEPT ![t] = [at |-> at, o |-> o]]
IsIdle(t) == pc[t] = Idle
Getting == {t \in Threads : pc[t].at = "get"}

Init ==
    /\ nref = [o \in Objects |-> 0] /\ life = [o \in Objects |-> "unborn"]
    /\ creator = [o \in Objects |-> nobody]
    /\ objs = {} /\ mutex = nobody /\ pc = [t \in Threads |-> Idle]
    /\ owners = [o \in Objects |-> {}]
    /\ raced = FALSE /\ misused = FALSE

-----------------------------------------------------------------------------
(* Object.                                                                 *)

(* AddRefManually for the owner w.  On a deleted object that is undefined  *)
(* behaviour; here it counts in the memory the object has left.            *)
AddRefManually(o, w) ==
    /\ nref' = [nref EXCEPT ![o] = @ + 1]
    /\ owners' = [owners EXCEPT ![o] = @ \cup {w}]
    /\ misused' = (misused \/ life[o] = "dead")
    /\ UNCHANGED life

(* A bug: the count is tested before it goes down.                         *)
ReleaseEarly(o, w) ==
    /\ nref' = [nref EXCEPT ![o] = @ - 1]
    /\ owners' = [owners EXCEPT ![o] = @ \ {w}]
    /\ life' = IF nref[o] = 0 THEN [life EXCEPT ![o] = "dead"] ELSE life
    /\ misused' = (misused \/ life[o] = "dead")

(* Release: one less, and delete this at zero.                             *)
Release(o, w) ==
    /\ nref' = [nref EXCEPT ![o] = @ - 1]
    /\ owners' = [owners EXCEPT ![o] = @ \ {w}]
    /\ life' = IF nref[o] = 1 THEN [life EXCEPT ![o] = "dead"] ELSE life
    /\ misused' = (misused \/ life[o] = "dead")

(* A thread has a pointer to o that it may use.                            *)
Has(t, o) == t \in owners[o] \/ creator[o] = t

(* Object::Object: no reference yet.                                       *)
Create(t, o) ==
    /\ IsIdle(t) /\ life[o] = "unborn"
    /\ life' = [life EXCEPT ![o] = "alive"]
    /\ creator' = [creator EXCEPT ![o] = t]
    /\ UNCHANGED <<nref, objs, mutex, pc, owners, raced, misused>>

(* intrusive_ptr_add_ref, for itself or for another thread between its     *)
(* calls: its creator now uses o by that reference.                        *)
Share(t, u, o) ==
    /\ IsIdle(t) /\ Has(t, o) /\ IsIdle(u) /\ u \notin owners[o]
    /\ AddRefManually(o, u)
    /\ creator' = [creator EXCEPT ![o] = nobody]
    /\ UNCHANGED <<objs, mutex, pc, raced>>

(* intrusive_ptr_release.                                                  *)
Drop(t, o) ==
    /\ IsIdle(t) /\ t \in owners[o]
    /\ Release(o, t)
    /\ UNCHANGED <<creator, objs, mutex, pc, raced>>

-----------------------------------------------------------------------------
(* ObjectEnv.  A call that fails (no object, no name, AlreadyExists,       *)
(* NotFound, no receiver) changes nothing.                                 *)

Lock(t) ==
    /\ mutex = nobody /\ mutex' = t
    /\ raced' = (raced \/ Getting # {})

(* A bug: the name is not looked for.                                      *)
InsertAnyway(t, o) ==
    /\ IsIdle(t) /\ Has(t, o) /\ Lock(t)
    /\ o \notin objs
    /\ AddRefManually(o, "env")
    /\ At(t, "insert", o)
    /\ creator' = [creator EXCEPT ![o] = nobody]
    /\ UNCHANGED objs

(* A bug: mutex_ is not taken.                                             *)
InsertUnlocked(t, o) ==
    /\ IsIdle(t) /\ Has(t, o)
    /\ \A p \in objs : NameOf[p] # NameOf[o]
    /\ AddRefManually(o, "env")
    /\ At(t, "insert", o)
    /\ creator' = [creator EXCEPT ![o] = nobody]
    /\ UNCHANGED <<objs, mutex, raced>>

(* Insert: the name is free, a reference for the table.  A creator without *)
(* a reference leaves o to the table.                                      *)
Insert(t, o) ==
    /\ IsIdle(t) /\ Has(t, o) /\ Lock(t)
    /\ \A p \in objs : NameOf[p] # NameOf[o]
    /\ AddRefManually(o, "env")
    /\ At(t, "insert", o)
    /\ creator' = [creator EXCEPT ![o] = nobody]
    /\ UNCHANGED objs

(* Its end: objs_[name] = obj, and the lock is released.                   *)
InsertStore(t) ==
    /\ pc[t].at = "insert"
    /\ objs' = {p \in objs : NameOf[p] # NameOf[pc[t].o]} \cup {pc[t].o}
    /\ mutex' = nobody /\ pc' = [pc EXCEPT ![t] = Idle]
    /\ UNCHANGED <<nref, life, creator, owners, raced, misused>>

(* Remove: the table's reference is released while the entry still stands. *)
Remove(t, o) ==
    /\ IsIdle(t) /\ o \in objs /\ Lock(t)
    /\ Release(o, "env")
    /\ At(t, "remove", o)
    /\ UNCHANGED <<creator, objs>>

(* A bug: the entry stays.                                                 *)
RemoveEraseNot(t) ==
    /\ pc[t].at = "remove"
    /\ mutex' = nobody /\ pc' = [pc EXCEPT ![t] = Idle]
    /\ UNCHANGED <<nref, life, creator, objs, owners, raced, misused>>

(* Its end: the entry goes.                                                *)
RemoveErase(t) ==
    /\ pc[t].at = "remove"
    /\ objs' = objs \ {pc[t].o}
    /\ mutex' = nobody /\ pc' = [pc EXCEPT ![t] = Idle]
    /\ UNCHANGED <<nref, life, creator, owners, raced, misused>>

(* Get: the search, without the lock.                                      *)
Get(t, o) ==
    /\ IsIdle(t) /\ o \in objs /\ t \notin owners[o]
    /\ At(t, "get", o)
    /\ raced' = (raced \/ mutex # nobody)
    /\ UNCHANGED <<nref, life, creator, objs, mutex, owners, misused>>

(* Its end: a reference for the caller.                                    *)
GetAddRef(t) ==
    /\ pc[t].at = "get"
    /\ AddRefManually(pc[t].o, t)
    /\ pc' = [pc EXCEPT ![t] = Idle]
    /\ UNCHANGED <<creator, objs, mutex, raced>>

-----------------------------------------------------------------------------
Next ==
    \E t \in Threads :
        \/ InsertStore(t) \/ RemoveErase(t) \/ GetAddRef(t)
        \/ \E o \in Objects :
            \/ Create(t, o) \/ Drop(t, o) \/ Insert(t, o) \/ Remove(t, o) \/ Get(t, o)
            \/ \E u \in Threads : Share(t, u, o)

Spec == Init /\ [][Next]_vars

-----------------------------------------------------------------------------
(* Counts, lives and positions have their types; a thread inside Insert or *)
(* Remove holds mutex_.                                                    *)
TypeOK ==
    /\ nref \in [Objects -> Int] /\ life \in [Objects -> {"unborn", "alive", "dead"}]
    /\ creator \in [Objects -> Threads \cup {nobody}]
    /\ objs \subseteq Objects /\ owners \in [Objects -> SUBSET (Threads \cup {"env"})]
    /\ pc \in [Threads -> {Idle} \cup [at : {"insert", "remove", "get"}, o : Objects]]
    /\ mutex \in Threads \cup {nobody}
    /\ \A t \in Threads : pc[t].at \in {"insert", "remove"} <=> mutex = t
    /\ raced \in BOOLEAN /\ misused \in BOOLEAN

(* As long as no Get overlaps an Insert or a Remove, nobody uses a deleted *)
(* object: neither Get what Remove has released, nor an owner what another *)
(* let go (Get, Remove, Release).                                          *)
NoUseAfterDelete == misused => raced

(* On the same condition nref_ is the number of references held, through   *)
(* failed and repeated calls, and an object is deleted exactly when the    *)
(* last one is released (AddRefManually, Release).                         *)
CountIsOwners ==
    ~raced => \A o \in Objects :
        /\ nref[o] = Cardinality(owners[o])
        /\ life[o] = "alive" <=> (owners[o] # {} \/ creator[o] # nobody)

(* Objects live exactly as long as they are referred to, as long as no Get *)
(* overlaps an Insert or a Remove (object.h, ObjectEnv).                   *)
ObjectsLiveWhileOwned == CountIsOwners /\ NoUseAfterDelete

(* The table's reference to an object is not lost: it has the entry that   *)
(* will release it, or is on its way into the table, whatever inserts,     *)
(* removals and lookups run at the same time (Insert, Remove).             *)
TableReferenceIsListed ==
    \A o \in Objects :
        "env" \in owners[o] => o \in objs \/ \E t \in Threads : pc[t] = [at |-> "insert", o |-> o]
=============================================================================
