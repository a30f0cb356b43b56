------------------------ MODULE PluginManagerProofs ------------------------
(***************************************************************************)
(* Proofs about PluginManager for every finite set of threads, every set   *)
(* of plugins with any names in their headers and any dependencies, every  *)
(* number of loads and any failures of dlclose: type correctness, and that *)
(* no library of a well-named plugin is closed under a thread about to     *)
(* call into it, whatever operations overlap; and that what is loaded is   *)
(* whole on every behaviour whose operations have not overlapped yet.      *)
(***************************************************************************)
EXTENDS PluginManager, FiniteSetTheorems, SequenceTheorems, TLAPS

(***************************************************************************)
(* The counts.  A thread that has opened a library and will close it, or   *)
(* has called init and will publish or exit, holds one of its uses; so     *)
(* does the entry of mods_.  dlopen's count covers them all, also when     *)
(* racing operations have made it too large: handles_ has one entry per    *)
(* name, so the second Unload of two closes nothing.                       *)
(***************************************************************************)
OpenPc == {"verify", "use", "abort", "commit", "exit", "close"}
InitPc == {"commit", "exit"}

Openers(n) == {t \in Threads : pc[t] \in OpenPc /\ name[t] = n}
Initers(n) == {t \in Threads : pc[t] \in InitPc /\ name[t] = n}
(* The plugin of library n is in mods_, under the name its header has.     *)
Published(n) == IF mods[HeaderName[n]] # null /\ hdr[mods[HeaderName[n]]] = n THEN 1 ELSE 0

(* Only a well-named library is closed by its users alone.                 *)
RefsCover == \A n \in Names : WellNamed(n) => Cardinality(Openers(n)) + Published(n) <= refs[n]
InitsCover == \A n \in Names : Cardinality(Initers(n)) + Published(n) <= inits[n]

(* A handle is one of an open library.                                     *)
HandlesAreOpen == \A n \in handles : refs[n] >= 1

(* Objects are numbered as they are made, mods_ has each under its         *)
(* header's name, and a Load works on the library of its object.           *)
HeadersMatch ==
    /\ \A n \in Names : mods[n] # null => mods[n] <= made /\ HeaderName[hdr[mods[n]]] = n
    /\ \A t \in Threads : pc[t] \in {"verify", "use", "commit"} => me[t] \in Objects /\ me[t] <= made /\ hdr[me[t]] = name[t]

(* A dependency about to be used is an object.                             *)
UseHasObject == \A t \in Threads : pc[t] = "use" => found[t] \in Objects /\ todo[t] # <<>>

CountInv ==
    TypeOK /\ RefsCover /\ InitsCover /\ HandlesAreOpen /\ HeadersMatch /\ UseHasObject

(* When one thread moves, the size of a set of threads changes by what     *)
(* that thread did.                                                        *)
LEMMA OneMoves ==
    ASSUME NEW S \in SUBSET Threads, NEW T \in SUBSET Threads, NEW t \in Threads, S \ {t} = T \ {t}
    PROVE  /\ Cardinality(S) \in Nat /\ Cardinality(T) \in Nat
           /\ t \in S => Cardinality(S) >= 1
           /\ Cardinality(T) = Cardinality(S) + (IF t \in T THEN 1 ELSE 0) - (IF t \in S THEN 1 ELSE 0)
<1>1. IsFiniteSet(S) /\ IsFiniteSet(T)
  BY PluginAssumption, FS_Subset
<1>2. Cardinality(S) \in Nat /\ Cardinality(T) \in Nat
  BY <1>1, FS_CardinalityType
<1>3. t \in S => Cardinality(S) >= 1
  BY <1>1, <1>2, FS_EmptySet
<1>4. CASE t \in S /\ t \notin T
  <2>1. T = S \ {t}
    BY <1>4
  <2> QED BY <1>1, <1>2, <1>3, <1>4, <2>1, FS_RemoveElement
<1>5. CASE t \notin S /\ t \in T
  <2>1. T = S \cup {t}
    BY <1>5
  <2> QED BY <1>1, <1>2, <1>3, <1>5, <2>1, FS_AddElement
<1>6. CASE t \in S <=> t \in T
  <2>1. T = S
    BY <1>6
  <2> QED BY <1>2, <1>3, <1>6, <2>1
<1> QED BY <1>4, <1>5, <1>6

(* Thread t's own share of the uses of plugin n.                           *)
Opens(t, n) == IF pc[t] \in OpenPc /\ name[t] = n THEN 1 ELSE 0
Inited(t, n) == IF pc[t] \in InitPc /\ name[t] = n THEN 1 ELSE 0

(* In a step of thread t the counts still cover their users when they      *)
(* change by at least what t and the entry of mods_ do.                    *)
LEMMA CoversKept ==
    ASSUME CountInv, NEW t \in Threads,
           \A u \in Threads \ {t} : pc'[u] = pc[u] /\ name'[u] = name[u],
           \A n \in Names :
               /\ refs'[n] \in Int /\ inits'[n] \in Int
               /\ WellNamed(n) =>
                     Opens(t, n)' + Published(n)' - Opens(t, n) - Published(n) <= refs'[n] - refs[n]
               /\ Inited(t, n)' + Published(n)' - Inited(t, n) - Published(n) <= inits'[n] - inits[n]
    PROVE  RefsCover' /\ InitsCover'
<1> SUFFICES ASSUME NEW n \in Names
             PROVE  /\ WellNamed(n) => Cardinality(Openers(n)') + Published(n)' <= refs'[n]
                    /\ Cardinality(Initers(n)') + Published(n)' <= inits'[n]
  BY DEF RefsCover, InitsCover, WellNamed
<1>1. /\ Openers(n) \in SUBSET Threads /\ Openers(n)' \in SUBSET Threads
      /\ Openers(n) \ {t} = Openers(n)' \ {t}
      /\ Opens(t, n) = IF t \in Openers(n) THEN 1 ELSE 0
      /\ Opens(t, n)' = IF t \in Openers(n)' THEN 1 ELSE 0
  BY DEF Openers, Opens
<1>2. /\ Initers(n) \in SUBSET Threads /\ Initers(n)' \in SUBSET Threads
      /\ Initers(n) \ {t} = Initers(n)' \ {t}
      /\ Inited(t, n) = IF t \in Initers(n) THEN 1 ELSE 0
      /\ Inited(t, n)' = IF t \in Initers(n)' THEN 1 ELSE 0
  BY DEF Initers, Inited
<1>3. /\ Cardinality(Openers(n)) \in Nat /\ Cardinality(Openers(n)') \in Nat
      /\ Cardinality(Openers(n)') = Cardinality(Openers(n)) + Opens(t, n)' - Opens(t, n)
  BY <1>1, OneMoves
<1>4. /\ Cardinality(Initers(n)) \in Nat /\ Cardinality(Initers(n)') \in Nat
      /\ Cardinality(Initers(n)') = Cardinality(Initers(n)) + Inited(t, n)' - Inited(t, n)
  BY <1>2, OneMoves
<1>5. /\ Opens(t, n) \in {0, 1} /\ Opens(t, n)' \in {0, 1} /\ Inited(t, n) \in {0, 1} /\ Inited(t, n)' \in {0, 1}
      /\ Published(n) \in {0, 1} /\ Published(n)' \in {0, 1}
  BY DEF Opens, Inited, Published
<1>6. /\ refs[n] \in Nat /\ inits[n] \in Nat
      /\ WellNamed(n) => Cardinality(Openers(n)) + Published(n) <= refs[n]
      /\ Cardinality(Initers(n)) + Published(n) <= inits[n]
  BY DEF CountInv, TypeOK, RefsCover, InitsCover
<1>7. WellNamed(n) => Cardinality(Openers(n)') + Published(n)' <= refs'[n]
  BY <1>3, <1>5, <1>6
<1>8. Cardinality(Initers(n)') + Published(n)' <= inits'[n]
  BY <1>4, <1>5, <1>6
<1> QED BY <1>7, <1>8

(* Whoever uses a library or an initialised plugin finds its count         *)
(* positive.                                                               *)
LEMMA UsersAreCounted ==
    ASSUME CountInv
    PROVE  /\ \A t \in Threads : pc[t] \in OpenPc /\ WellNamed(name[t]) => refs[name[t]] >= 1
           /\ \A t \in Threads : pc[t] \in InitPc => inits[name[t]] >= 1
           /\ \A n \in Names : mods[n] # null => inits[hdr[mods[n]]] >= 1
           /\ \A n \in Names : mods[n] # null /\ WellNamed(n) => refs[n] >= 1
<1>1. \A n \in Names : /\ Openers(n) \in SUBSET Threads /\ Initers(n) \in SUBSET Threads
                       /\ refs[n] \in Nat /\ inits[n] \in Nat /\ Published(n) \in {0, 1}
                       /\ WellNamed(n) => Cardinality(Openers(n)) + Published(n) <= refs[n]
                       /\ Cardinality(Initers(n)) + Published(n) <= inits[n]
  BY DEF Openers, Initers, CountInv, TypeOK, RefsCover, InitsCover, Published
<1>2. ASSUME NEW t \in Threads PROVE pc[t] \in OpenPc /\ WellNamed(name[t]) => refs[name[t]] >= 1
  <2>1. name[t] \in Names
    BY DEF CountInv, TypeOK
  <2>2. pc[t] \in OpenPc => t \in Openers(name[t])
    BY DEF Openers
  <2>3. Cardinality(Openers(name[t])) \in Nat /\ (t \in Openers(name[t]) => Cardinality(Openers(name[t])) >= 1)
    BY <1>1, <2>1, OneMoves
  <2> QED BY <1>1, <2>1, <2>2, <2>3
<1>3. ASSUME NEW t \in Threads PROVE pc[t] \in InitPc => inits[name[t]] >= 1
  <2>1. name[t] \in Names
    BY DEF CountInv, TypeOK
  <2>2. pc[t] \in InitPc => t \in Initers(name[t])
    BY DEF Initers
  <2>3. Cardinality(Initers(name[t])) \in Nat /\ (t \in Initers(name[t]) => Cardinality(Initers(name[t])) >= 1)
    BY <1>1, <2>1, OneMoves
  <2> QED BY <1>1, <2>1, <2>2, <2>3
<1>4. ASSUME NEW n \in Names, mods[n] # null
      PROVE  inits[hdr[mods[n]]] >= 1 /\ (WellNamed(n) => refs[n] >= 1)
  <2> DEFINE f == hdr[mods[n]]
  <2>0. f \in Names /\ HeaderName[f] = n /\ (WellNamed(n) => f = n)
    BY <1>4 DEF CountInv, TypeOK, HeadersMatch, WellNamed
  <2>1. Cardinality(Openers(f)) \in Nat /\ Cardinality(Initers(f)) \in Nat
    <3>1. IsFiniteSet(Openers(f)) /\ IsFiniteSet(Initers(f))
      BY <1>1, <2>0, FS_Subset, PluginAssumption
    <3> QED BY <3>1, FS_CardinalityType
  <2>2. Published(f) = 1
    BY <1>4, <2>0 DEF Published
  <2> HIDE DEF f
  <2>3. inits[f] >= 1
    BY <1>1, <2>0, <2>1, <2>2
  <2>4. WellNamed(f) => refs[f] >= 1
    BY <1>1, <2>0, <2>1, <2>2
  <2> QED BY <2>0, <2>3, <2>4 DEF f
<1> QED BY <1>2, <1>3, <1>4

LEMMA AnyNameIsOne == AnyName \in Names
BY PluginAssumption DEF AnyName

(* The manager starts with nothing open, initialised or loaded.            *)
LEMMA CountInit == Init => CountInv
<1> SUFFICES ASSUME Init PROVE CountInv
  OBVIOUS
<1>1. TypeOK
  <2>2. name \in [Threads -> Names] /\ hdr \in [Objects -> Names]
    BY AnyNameIsOne DEF Init
  <2>3. /\ mods \in [Names -> Objects \cup {null}] /\ made \in 0 .. MaxLoads
        /\ sources \in [Objects -> SUBSET Objects] /\ targets \in [Objects -> SUBSET Objects]
        /\ refs \in [Names -> Nat] /\ handles \subseteq Names /\ inits \in [Names -> Nat]
        /\ unclosed \in [Names -> Nat]
    BY PluginAssumption DEF Init
  <2>4. /\ pc \in [Threads -> {"idle", "open", "verify", "use", "abort", "commit", "exit", "close"}]
        /\ me \in [Threads -> Objects \cup {null}] /\ found \in [Threads -> Objects \cup {null}]
        /\ todo \in [Threads -> Seq(Names)] /\ serial \in BOOLEAN
    BY DEF Init
  <2> QED BY <2>2, <2>3, <2>4 DEF TypeOK
<1>2. \A n \in Names : Openers(n) = {} /\ Initers(n) = {} /\ Published(n) = 0
  <2>1. \A n \in Names : HeaderName[n] \in Names /\ mods[n] = null
    BY PluginAssumption DEF Init
  <2>2. \A t \in Threads : pc[t] = "idle"
    BY DEF Init
  <2> QED BY <2>1, <2>2 DEF Openers, Initers, Published, OpenPc, InitPc
<1>3. RefsCover /\ InitsCover
  <2>1. \A n \in Names : refs[n] = 0 /\ inits[n] = 0
    BY DEF Init
  <2>2. Cardinality({}) = 0
    BY FS_EmptySet
  <2>3. \A n \in Names : Cardinality(Openers(n)) = 0 /\ Cardinality(Initers(n)) = 0 /\ Published(n) = 0
    BY <1>2, <2>2
  <2> HIDE DEF Init
  <2> QED BY <2>1, <2>3 DEF RefsCover, InitsCover
<1> QED BY <1>1, <1>3 DEF Init, CountInv, UseHasObject, HandlesAreOpen, HeadersMatch

(* A step that changes nothing but serial keeps everything.                *)
LEMMA QuietCounts ==
    ASSUME CountInv, UNCHANGED <<mods, objectVars, loaderVars, inits, pc, locals>>, serial' \in BOOLEAN
    PROVE  CountInv'
<1>1. UNCHANGED <<mods, sources, targets, made, hdr, refs, handles, unclosed, inits, pc, name, me, todo, found>>
  BY DEF objectVars, loaderVars, locals
<1>2. TypeOK'
  BY <1>1 DEF CountInv, TypeOK
<1>3. RefsCover' /\ InitsCover'
  BY <1>1 DEF CountInv, RefsCover, InitsCover, Openers, Initers, Published, WellNamed
<1>4. HandlesAreOpen' /\ HeadersMatch' /\ UseHasObject'
  BY <1>1 DEF CountInv, HandlesAreOpen, HeadersMatch, UseHasObject
<1> QED BY <1>2, <1>3, <1>4 DEF CountInv

(* DllLoader::Unload closes what it has a handle of, once.                 *)
LEMMA UnloadCounts ==
    ASSUME CountInv, NEW n \in Names, LoaderUnload(n)
    PROVE  /\ refs' \in [Names -> Nat] /\ handles' \subseteq Names /\ unclosed' \in [Names -> Nat]
           /\ HandlesAreOpen'
           /\ \A k \in Names : refs'[k] >= refs[k] - (IF k = n THEN 1 ELSE 0)
<1>0. /\ refs \in [Names -> Nat] /\ handles \subseteq Names /\ unclosed \in [Names -> Nat]
      /\ \A k \in handles : refs[k] >= 1
  BY DEF CountInv, TypeOK, HandlesAreOpen
<1>1. CASE n \in handles /\ refs' = [refs EXCEPT ![n] = @ - 1] /\ handles' = handles \ {n} /\ UNCHANGED unclosed
  <2>1. refs[n] - 1 \in Nat
    BY <1>0, <1>1
  <2>2. \A k \in Names : refs'[k] = IF k = n THEN refs[n] - 1 ELSE refs[k]
    BY <1>0, <1>1
  <2>3. refs' \in [Names -> Nat]
    BY <1>0, <1>1, <2>1
  <2> QED BY <1>0, <1>1, <2>1, <2>2, <2>3 DEF HandlesAreOpen
<1>2. CASE unclosed' = [unclosed EXCEPT ![n] = @ + 1] /\ UNCHANGED <<refs, handles>>
  BY <1>0, <1>2 DEF HandlesAreOpen
<1>3. CASE UNCHANGED <<refs, handles, unclosed>>
  BY <1>0, <1>3 DEF HandlesAreOpen
<1> QED BY <1>1, <1>2, <1>3 DEF LoaderUnload, loaderVars

(* What a thread that returns leaves behind.                               *)
LEMMA ReturnClears ==
    ASSUME CountInv, NEW t \in Threads, Return(t)
    PROVE  /\ pc' \in [Threads -> {"idle", "open", "verify", "use", "abort", "commit", "exit", "close"}]
           /\ name' \in [Threads -> Names] /\ me' \in [Threads -> Objects \cup {null}]
           /\ found' \in [Threads -> Objects \cup {null}] /\ todo' \in [Threads -> Seq(Names)]
           /\ pc'[t] = "idle"
           /\ \A u \in Threads \ {t} : /\ pc'[u] = pc[u] /\ name'[u] = name[u] /\ me'[u] = me[u]
                                       /\ todo'[u] = todo[u] /\ found'[u] = found[u]
<1>1. <<>> \in Seq(Names)
  OBVIOUS
<1> QED BY <1>1, AnyNameIsOne DEF CountInv, TypeOK, Return

LEMMA ReturnKeeps ==
    ASSUME CountInv, NEW t \in Threads, Return(t), UNCHANGED <<mods, made, hdr>>
    PROVE  UseHasObject' /\ HeadersMatch'
<1>1. \A u \in Threads : \/ pc'[u] = "idle"
                         \/ /\ pc'[u] = pc[u] /\ name'[u] = name[u] /\ me'[u] = me[u]
                            /\ todo'[u] = todo[u] /\ found'[u] = found[u]
  BY ReturnClears
<1> QED BY <1>1 DEF CountInv, UseHasObject, HeadersMatch

(* A thread that has returned holds no use.                                *)
LEMMA IdleHoldsNothing ==
    ASSUME NEW t \in Threads, pc'[t] = "idle", NEW n \in Names
    PROVE  Opens(t, n)' = 0 /\ Inited(t, n)' = 0
BY DEF Opens, Inited, OpenPc, InitPc

(* Every step keeps the types and the covers.                              *)
LEMMA CountStep == CountInv /\ [Next]_vars => CountInv'
<1> SUFFICES ASSUME CountInv, [Next]_vars PROVE CountInv'
  OBVIOUS
<1>0. TypeOK /\ HandlesAreOpen /\ HeadersMatch /\ UseHasObject
  BY DEF CountInv
<1>1. ASSUME NEW t \in Threads, RefuseNoName(t) PROVE CountInv'
  <2>1. serial' \in BOOLEAN
    BY <1>0, <1>1 DEF RefuseNoName, Begin, TypeOK
  <2> QED BY <1>1, <2>1, QuietCounts DEF RefuseNoName
<1>2. ASSUME NEW t \in Threads, NEW n \in Names, UnloadRefused(t, n) PROVE CountInv'
  <2>1. serial' \in BOOLEAN
    BY <1>0, <1>2 DEF UnloadRefused, Begin, TypeOK
  <2> QED BY <1>2, <2>1, QuietCounts DEF UnloadRefused
<1>3. ASSUME NEW t \in Threads, NEW n \in Names, Load(t, n) PROVE CountInv'
  <2>1. serial' \in BOOLEAN /\ pc[t] = "idle"
    BY <1>0, <1>3 DEF Load, Begin, TypeOK
  <2>2. UNCHANGED <<mods, objectVars, loaderVars, inits, me, todo, found>>
    BY <1>3 DEF Load
  <2>3. CASE UNCHANGED <<pc, name>>
    BY <2>1, <2>2, <2>3, QuietCounts DEF locals
  <2>4. CASE pc' = [pc EXCEPT ![t] = "open"] /\ name' = [name EXCEPT ![t] = n]
    <3>1. UNCHANGED <<mods, sources, targets, made, hdr, refs, handles, unclosed, inits, me, todo, found>>
      BY <2>2 DEF objectVars, loaderVars
    <3>2. pc'[t] = "open" /\ \A u \in Threads \ {t} : pc'[u] = pc[u] /\ name'[u] = name[u]
      BY <1>0, <2>4 DEF TypeOK
    <3>3. TypeOK'
      BY <1>0, <2>1, <2>4, <3>1 DEF TypeOK
    <3>4. HandlesAreOpen' /\ UseHasObject'
      BY <1>0, <3>1, <3>2 DEF HandlesAreOpen, UseHasObject
    <3>5. HeadersMatch'
      BY <1>0, <3>1, <3>2 DEF HeadersMatch
    <3>6. \A k \in Names : /\ Opens(t, k) = 0 /\ Opens(t, k)' = 0 /\ Inited(t, k) = 0 /\ Inited(t, k)' = 0
                           /\ Published(k)' = Published(k) /\ Published(k) \in {0, 1}
      BY <2>1, <3>1, <3>2 DEF Opens, Inited, OpenPc, InitPc, Published
    <3>7. RefsCover' /\ InitsCover'
      <4>1. \A k \in Names : refs'[k] = refs[k] /\ inits'[k] = inits[k] /\ refs[k] \in Nat /\ inits[k] \in Nat
        BY <1>0, <3>1 DEF TypeOK
      <4> QED BY <3>2, <3>6, <4>1, CoversKept
    <3> QED BY <3>3, <3>4, <3>5, <3>7 DEF CountInv
  <2> QED BY <1>3, <2>3, <2>4 DEF Load, GoTo
<1>4. ASSUME NEW t \in Threads, OpenFails(t) PROVE CountInv'
  <2>1. /\ pc[t] = "open" /\ Return(t)
        /\ UNCHANGED <<mods, sources, targets, made, hdr, refs, handles, unclosed, inits, serial>>
    BY <1>4 DEF OpenFails, objectVars, loaderVars
  <2>2. TypeOK'
    BY <1>0, <2>1, ReturnClears DEF TypeOK
  <2>3. HandlesAreOpen' /\ UseHasObject' /\ HeadersMatch'
    <3>1. HandlesAreOpen'
      BY <1>0, <2>1 DEF HandlesAreOpen
    <3> QED BY <1>0, <2>1, <3>1, ReturnKeeps
  <2>4. \A k \in Names : /\ Opens(t, k) = 0 /\ Opens(t, k)' = 0 /\ Inited(t, k) = 0 /\ Inited(t, k)' = 0
                         /\ Published(k)' = Published(k) /\ Published(k) \in {0, 1}
    BY <2>1, ReturnClears, IdleHoldsNothing DEF Opens, Inited, OpenPc, InitPc, Published
  <2>5. \A k \in Names : refs'[k] = refs[k] /\ inits'[k] = inits[k] /\ refs[k] \in Nat /\ inits[k] \in Nat
    BY <1>0, <2>1 DEF TypeOK
  <2>6. RefsCover' /\ InitsCover'
    <3>1. \A u \in Threads \ {t} : pc'[u] = pc[u] /\ name'[u] = name[u]
      BY <2>1, ReturnClears
    <3> QED BY <2>4, <2>5, <3>1, CoversKept
  <2> QED BY <2>2, <2>3, <2>6 DEF CountInv
<1>5. ASSUME NEW t \in Threads, FindDependence(t) PROVE CountInv'
  <2> DEFINE d == Head(todo[t])
  <2>1. todo[t] \in Seq(Names) /\ todo[t] # <<>> /\ d \in Names
    BY <1>0, <1>5, HeadTailProperties DEF FindDependence, TypeOK
  <2>2. /\ found' = [found EXCEPT ![t] = mods[d]] /\ mods[d] \in Objects \cup {null}
        /\ pc[t] = "verify" /\ pc' = [pc EXCEPT ![t] = IF mods[d] = null THEN "abort" ELSE "use"]
        /\ UNCHANGED <<mods, sources, targets, made, hdr, refs, handles, unclosed, inits, name, me, todo, serial>>
    BY <1>0, <1>5, <2>1 DEF FindDependence, GoTo, objectVars, loaderVars, TypeOK
  <2> HIDE DEF d
  <2>3. /\ pc'[t] \in {"abort", "use"} /\ (pc'[t] = "use" => mods[d] \in Objects) /\ found'[t] = mods[d]
        /\ \A u \in Threads \ {t} : pc'[u] = pc[u] /\ name'[u] = name[u] /\ found'[u] = found[u]
    BY <1>0, <2>2 DEF TypeOK
  <2>4. TypeOK'
    BY <1>0, <2>2 DEF TypeOK
  <2>5. HandlesAreOpen' /\ UseHasObject' /\ HeadersMatch'
    BY <1>0, <2>1, <2>2, <2>3 DEF HandlesAreOpen, UseHasObject, HeadersMatch
  <2>6. \A k \in Names : /\ Opens(t, k)' = Opens(t, k) /\ Inited(t, k)' = Inited(t, k)
                         /\ Published(k)' = Published(k) /\ Published(k) \in {0, 1}
                         /\ Opens(t, k) \in {0, 1} /\ Inited(t, k) \in {0, 1}
    BY <2>2, <2>3 DEF Opens, Inited, OpenPc, InitPc, Published
  <2>7. \A k \in Names : refs'[k] = refs[k] /\ inits'[k] = inits[k] /\ refs[k] \in Nat /\ inits[k] \in Nat
    BY <1>0, <2>2 DEF TypeOK
  <2>8. RefsCover' /\ InitsCover'
    BY <2>3, <2>6, <2>7, CoversKept
  <2> QED BY <2>4, <2>5, <2>8 DEF CountInv
<1>6. ASSUME NEW t \in Threads, UseDependence(t) PROVE CountInv'
  <2>1. /\ todo[t] \in Seq(Names) /\ todo[t] # <<>> /\ Tail(todo[t]) \in Seq(Names)
        /\ found[t] \in Objects /\ me[t] \in Objects /\ pc[t] = "use"
    BY <1>0, <1>6, HeadTailProperties DEF UseDependence, TypeOK, UseHasObject, HeadersMatch
  <2>2. sources' \in [Objects -> SUBSET Objects] /\ targets' \in [Objects -> SUBSET Objects]
    BY <1>0, <1>6, <2>1 DEF UseDependence, AddpluginUsage, TypeOK
  <2>3. /\ todo' = [todo EXCEPT ![t] = Tail(todo[t])] /\ pc' = [pc EXCEPT ![t] = "verify"]
        /\ UNCHANGED <<mods, made, hdr, refs, handles, unclosed, inits, name, me, found, serial>>
    BY <1>6 DEF UseDependence, GoTo, loaderVars
  <2>4. /\ pc'[t] = "verify"
        /\ \A u \in Threads \ {t} : pc'[u] = pc[u] /\ name'[u] = name[u] /\ todo'[u] = todo[u]
    BY <1>0, <2>3 DEF TypeOK
  <2>5. TypeOK'
    BY <1>0, <2>1, <2>2, <2>3 DEF TypeOK
  <2>6. HandlesAreOpen' /\ UseHasObject' /\ HeadersMatch'
    BY <1>0, <2>1, <2>3, <2>4 DEF HandlesAreOpen, UseHasObject, HeadersMatch
  <2>7. \A k \in Names : /\ Opens(t, k)' = Opens(t, k) /\ Inited(t, k)' = Inited(t, k)
                         /\ Published(k)' = Published(k) /\ Published(k) \in {0, 1}
                         /\ Opens(t, k) \in {0, 1} /\ Inited(t, k) \in {0, 1}
    BY <2>1, <2>3, <2>4 DEF Opens, Inited, OpenPc, InitPc, Published
  <2>8. \A k \in Names : refs'[k] = refs[k] /\ inits'[k] = inits[k] /\ refs[k] \in Nat /\ inits[k] \in Nat
    BY <1>0, <2>3 DEF TypeOK
  <2>9. RefsCover' /\ InitsCover'
    BY <2>4, <2>7, <2>8, CoversKept
  <2> QED BY <2>5, <2>6, <2>9 DEF CountInv
<1>7. ASSUME NEW t \in Threads, Open(t) PROVE CountInv'
  <2> DEFINE n == name[t]
  <2>1. /\ n \in Names /\ Depends[n] \in Seq(Names) /\ pc[t] = "open" /\ made \in Nat
        /\ made + 1 \in Objects /\ made + 1 \in 0 .. MaxLoads /\ refs[n] + 1 \in Nat
    <3>1. made \in 0 .. MaxLoads /\ made < MaxLoads /\ pc[t] = "open" /\ n \in Names
      BY <1>0, <1>7 DEF Open, TypeOK
    <3>2. made \in Nat /\ made + 1 \in Objects /\ made + 1 \in 0 .. MaxLoads
      BY <3>1, PluginAssumption DEF Objects
    <3>3. Depends[n] \in Seq(Names) /\ refs[n] \in Nat
      BY <1>0, <3>1, PluginAssumption DEF TypeOK
    <3> QED BY <3>1, <3>2, <3>3
  <2>2. /\ refs' = [refs EXCEPT ![n] = refs[n] + 1] /\ handles' = handles \cup {n}
        /\ made' = made + 1 /\ hdr' = [hdr EXCEPT ![made + 1] = n] /\ me' = [me EXCEPT ![t] = made + 1]
        /\ todo' = [todo EXCEPT ![t] = Depends[n]]
        /\ pc' = [pc EXCEPT ![t] = IF VerifyPluginHeader(n) THEN "verify" ELSE "abort"]
        /\ UNCHANGED <<mods, sources, targets, unclosed, inits, name, found, serial>>
    BY <1>7 DEF Open, LoaderLoad, GoTo
  <2>3. /\ pc'[t] \in {"verify", "abort"} /\ me'[t] = made + 1
        /\ \A u \in Threads \ {t} : pc'[u] = pc[u] /\ name'[u] = name[u] /\ me'[u] = me[u] /\ todo'[u] = todo[u]
    BY <1>0, <2>2 DEF TypeOK
  <2>4. /\ hdr'[made + 1] = n /\ \A o \in Objects : o <= made => hdr'[o] = hdr[o]
        /\ \A k \in Names : refs'[k] = refs[k] + (IF k = n THEN 1 ELSE 0) /\ inits'[k] = inits[k]
                            /\ refs[k] \in Nat /\ inits[k] \in Nat
    BY <1>0, <2>1, <2>2 DEF TypeOK, Objects
  <2>5. \A k \in Names : mods[k] # null => /\ mods[k] \in Objects /\ mods[k] <= made /\ mods[k] <= made + 1
                                            /\ hdr'[mods[k]] = hdr[mods[k]]
    <3>1. \A o \in Objects : o \in Nat
      BY PluginAssumption DEF Objects
    <3>2. \A k \in Names : mods[k] # null => mods[k] \in Objects /\ mods[k] <= made
      BY <1>0 DEF TypeOK, HeadersMatch
    <3> QED BY <2>1, <2>4, <3>1, <3>2
  <2> HIDE DEF n
  <2>6. TypeOK'
    BY <1>0, <2>1, <2>2 DEF TypeOK
  <2>7. HandlesAreOpen' /\ UseHasObject'
    <3>1. handles \subseteq Names /\ handles' = handles \cup {n} /\ n \in Names /\ found' = found
      BY <1>0, <2>1, <2>2 DEF TypeOK
    <3>2. ASSUME NEW k \in handles' PROVE refs'[k] >= 1
      <4>1. k \in Names /\ (k = n \/ refs[k] >= 1)
        BY <1>0, <3>1, <3>2 DEF HandlesAreOpen
      <4> QED BY <2>4, <4>1
    <3>3. UseHasObject'
      BY <1>0, <2>3, <3>1 DEF UseHasObject
    <3> QED BY <3>2, <3>3 DEF HandlesAreOpen
  <2>8. HeadersMatch'
    <3>1. ASSUME NEW u \in Threads, pc'[u] \in {"verify", "use", "commit"}
          PROVE  me'[u] \in Objects /\ me'[u] <= made' /\ hdr'[me'[u]] = name'[u]
      <4>1. CASE u = t
        BY <2>1, <2>2, <2>3, <2>4, <4>1 DEF n
      <4>2. CASE u # t
        <5>1. me'[u] = me[u] /\ me[u] \in Objects /\ me[u] <= made /\ hdr[me[u]] = name[u] /\ name'[u] = name[u]
          BY <1>0, <2>3, <3>1, <4>2 DEF HeadersMatch
        <5>2. me[u] \in Nat /\ me[u] <= made + 1
          BY <2>1, <5>1, PluginAssumption DEF Objects
        <5> QED BY <2>2, <2>4, <5>1, <5>2
      <4> QED BY <4>1, <4>2
    <3>2. ASSUME NEW k \in Names, mods'[k] # null PROVE mods'[k] <= made' /\ HeaderName[hdr'[mods'[k]]] = k
      BY <1>0, <2>2, <2>5, <3>2 DEF HeadersMatch
    <3> QED BY <3>1, <3>2 DEF HeadersMatch
  <2>9. \A k \in Names : /\ Opens(t, k) = 0 /\ Opens(t, k)' = (IF k = n THEN 1 ELSE 0)
                         /\ Inited(t, k) = 0 /\ Inited(t, k)' = 0
                         /\ Published(k)' = Published(k) /\ Published(k) \in {0, 1}
    <3>1. \A k \in Names : HeaderName[k] \in Names
      BY PluginAssumption
    <3>2. \A k \in Names : Published(k)' = Published(k) /\ Published(k) \in {0, 1}
      BY <2>2, <2>5, <3>1 DEF Published
    <3>3. \A k \in Names : /\ Opens(t, k) = 0 /\ Opens(t, k)' = (IF k = n THEN 1 ELSE 0)
                           /\ Inited(t, k) = 0 /\ Inited(t, k)' = 0
      BY <2>1, <2>2, <2>3 DEF Opens, Inited, OpenPc, InitPc, n
    <3> QED BY <3>2, <3>3
  <2>10. RefsCover' /\ InitsCover'
    BY <2>3, <2>4, <2>9, CoversKept
  <2> QED BY <2>6, <2>7, <2>8, <2>10 DEF CountInv
<1>8. ASSUME NEW t \in Threads, CallInit(t) PROVE CountInv'
  <2> DEFINE n == name[t]
  <2>1. /\ n \in Names /\ inits[n] + 1 \in Nat /\ pc[t] = "verify"
        /\ \/ inits' = [inits EXCEPT ![n] = inits[n] + 1] /\ pc' = [pc EXCEPT ![t] = "commit"]
           \/ inits' = inits /\ pc' = [pc EXCEPT ![t] = "abort"]
        /\ UNCHANGED <<mods, sources, targets, made, hdr, refs, handles, unclosed, name, me, todo, found, serial>>
    BY <1>0, <1>8 DEF CallInit, GoTo, objectVars, loaderVars, locals, TypeOK
  <2>2. /\ \A u \in Threads \ {t} : pc'[u] = pc[u] /\ name'[u] = name[u]
        /\ pc'[t] \in {"commit", "abort"}
        /\ \A k \in Names : /\ inits'[k] = inits[k] + (IF k = n /\ pc'[t] = "commit" THEN 1 ELSE 0)
                            /\ refs'[k] = refs[k] /\ refs[k] \in Nat /\ inits[k] \in Nat
    BY <1>0, <2>1 DEF TypeOK
  <2> HIDE DEF n
  <2>3. TypeOK'
    <3>1. inits' \in [Names -> Nat]
      BY <1>0, <2>1 DEF TypeOK
    <3>2. pc' \in [Threads -> {"idle", "open", "verify", "use", "abort", "commit", "exit", "close"}]
      BY <1>0, <2>1 DEF TypeOK
    <3> QED BY <1>0, <2>1, <3>1, <3>2 DEF TypeOK
  <2>4. HandlesAreOpen' /\ UseHasObject' /\ HeadersMatch'
    BY <1>0, <2>1, <2>2 DEF HandlesAreOpen, UseHasObject, HeadersMatch
  <2>5. \A k \in Names : /\ Opens(t, k)' = Opens(t, k) /\ Opens(t, k) \in {0, 1}
                         /\ Inited(t, k) = 0 /\ Inited(t, k)' = (IF k = n /\ pc'[t] = "commit" THEN 1 ELSE 0)
                         /\ Published(k)' = Published(k) /\ Published(k) \in {0, 1}
    BY <2>1, <2>2 DEF Opens, Inited, OpenPc, InitPc, Published, n
  <2>6. RefsCover' /\ InitsCover'
    BY <2>2, <2>5, CoversKept
  <2> QED BY <2>3, <2>4, <2>6 DEF CountInv
<1>9. ASSUME NEW t \in Threads, NEW n \in Names, LoaderUnload(n), Return(t),
             pc[t] \in {"abort", "close"}, WellNamed(n) => name[t] = n,
             UNCHANGED <<mods, objectVars, inits, serial>>
      PROVE  CountInv'
  <2>1. UNCHANGED <<mods, sources, targets, made, hdr, inits, serial>>
    BY <1>9 DEF objectVars
  <2>2. /\ refs' \in [Names -> Nat] /\ handles' \subseteq Names /\ unclosed' \in [Names -> Nat] /\ HandlesAreOpen'
        /\ \A k \in Names : refs'[k] >= refs[k] - (IF k = n THEN 1 ELSE 0)
    BY <1>9, UnloadCounts
  <2>3. TypeOK'
    BY <1>0, <1>9, <2>1, <2>2, ReturnClears DEF TypeOK
  <2>4. UseHasObject' /\ HeadersMatch'
    BY <1>9, <2>1, ReturnKeeps
  <2>5. \A k \in Names : /\ Opens(t, k) = (IF k = name[t] THEN 1 ELSE 0) /\ Opens(t, k)' = 0
                         /\ Inited(t, k) = 0 /\ Inited(t, k)' = 0
                         /\ Published(k)' = Published(k) /\ Published(k) \in {0, 1}
    BY <1>9, <2>1, ReturnClears, IdleHoldsNothing DEF Opens, Inited, OpenPc, InitPc, Published
  <2>6. \A k \in Names : refs[k] \in Nat /\ refs'[k] \in Nat /\ inits[k] \in Nat /\ inits'[k] = inits[k]
    BY <1>0, <2>1, <2>2 DEF TypeOK
  <2>7. \A k \in Names : WellNamed(k) =>
            Opens(t, k)' + Published(k)' - Opens(t, k) - Published(k) <= refs'[k] - refs[k]
    BY <1>9, <2>2, <2>5, <2>6
  <2>8. RefsCover' /\ InitsCover'
    <3>1. \A u \in Threads \ {t} : pc'[u] = pc[u] /\ name'[u] = name[u]
      BY <1>9, ReturnClears
    <3>2. \A k \in Names : /\ refs'[k] \in Int /\ inits'[k] \in Int
                            /\ Inited(t, k)' + Published(k)' - Inited(t, k) - Published(k) <= inits'[k] - inits[k]
      BY <2>5, <2>6
    <3> QED BY <2>7, <3>1, <3>2, CoversKept
  <2> QED BY <2>2, <2>3, <2>4, <2>8 DEF CountInv
<1>10. ASSUME NEW t \in Threads, Abort(t) PROVE CountInv'
  <2>1. name[t] \in Names
    BY <1>0 DEF TypeOK
  <2> QED BY <1>9, <1>10, <2>1 DEF Abort
<1>11. ASSUME NEW t \in Threads, CloseLibrary(t) PROVE CountInv'
  <2>1. name[t] \in Names /\ HeaderName[name[t]] \in Names
    BY <1>0, PluginAssumption DEF TypeOK
  <2>2. WellNamed(HeaderName[name[t]]) => name[t] = HeaderName[name[t]]
    BY <2>1 DEF WellNamed
  <2> QED BY <1>9, <1>11, <2>1, <2>2 DEF CloseLibrary
<1>12. ASSUME NEW t \in Threads, Commit(t) PROVE CountInv'
  <2> DEFINE f == name[t]
             n == HeaderName[f]
  <2>1. /\ pc[t] = "commit" /\ mods' = [mods EXCEPT ![n] = me[t]] /\ Return(t) /\ f \in Names /\ n \in Names
        /\ UNCHANGED <<sources, targets, made, hdr, refs, handles, unclosed, inits, serial>>
        /\ me[t] \in Objects /\ me[t] # null /\ me[t] <= made /\ hdr[me[t]] = f
    <3>1. /\ pc[t] = "commit" /\ mods' = [mods EXCEPT ![n] = me[t]] /\ Return(t)
          /\ UNCHANGED <<sources, targets, made, hdr, refs, handles, unclosed, inits, serial>>
      BY <1>12 DEF Commit, objectVars, loaderVars
    <3>2. f \in Names /\ n \in Names
      BY <1>0, PluginAssumption DEF TypeOK
    <3>3. me[t] \in Objects /\ me[t] <= made /\ hdr[me[t]] = f
      BY <1>0, <3>1 DEF HeadersMatch
    <3>4. me[t] # null
      BY <3>3 DEF Objects, null
    <3> QED BY <3>1, <3>2, <3>3, <3>4
  <2>2. \A k \in Names : mods'[k] = IF k = n THEN me[t] ELSE mods[k]
    BY <1>0, <2>1 DEF TypeOK
  <2> HIDE DEF f, n
  <2>3. TypeOK'
    BY <1>0, <2>1, ReturnClears DEF TypeOK
  <2>4. HandlesAreOpen' /\ UseHasObject'
    BY <1>0, <2>1, ReturnClears DEF HandlesAreOpen, UseHasObject
  <2>5. HeadersMatch'
    <3>1. \A k \in Names : mods'[k] # null => mods'[k] <= made' /\ HeaderName[hdr'[mods'[k]]] = k
      BY <1>0, <2>1, <2>2 DEF HeadersMatch, n
    <3>2. \A u \in Threads : pc'[u] \in {"verify", "use", "commit"} =>
            me'[u] \in Objects /\ me'[u] <= made' /\ hdr'[me'[u]] = name'[u]
      <4>1. \A u \in Threads : \/ pc'[u] = "idle"
                               \/ pc'[u] = pc[u] /\ name'[u] = name[u] /\ me'[u] = me[u]
        BY <2>1, ReturnClears
      <4> QED BY <1>0, <2>1, <4>1 DEF HeadersMatch
    <3> QED BY <3>1, <3>2 DEF HeadersMatch
  <2>6. ASSUME NEW k \in Names
        PROVE  /\ Opens(t, k) = (IF k = f THEN 1 ELSE 0) /\ Opens(t, k)' = 0
               /\ Inited(t, k) = (IF k = f THEN 1 ELSE 0) /\ Inited(t, k)' = 0
               /\ Published(k)' <= (IF k = f THEN 1 ELSE Published(k))
               /\ Published(k) \in {0, 1} /\ Published(k)' \in {0, 1}
    <3>1. pc'[t] = "idle"
      BY <2>1, ReturnClears
    <3>2. /\ Opens(t, k) = (IF k = f THEN 1 ELSE 0) /\ Opens(t, k)' = 0
          /\ Inited(t, k) = (IF k = f THEN 1 ELSE 0) /\ Inited(t, k)' = 0
      BY <2>1, <3>1 DEF Opens, Inited, OpenPc, InitPc, f
    <3>3. Published(k) \in {0, 1} /\ Published(k)' \in {0, 1}
      BY DEF Published
    <3>4. k # f => Published(k)' = 0 \/ Published(k)' = Published(k)
      <4>1. HeaderName[k] \in Names
        BY PluginAssumption
      <4> QED BY <2>1, <2>2, <4>1 DEF Published
    <3> QED BY <3>2, <3>3, <3>4
  <2>7. \A k \in Names : refs[k] \in Nat /\ refs'[k] = refs[k] /\ inits[k] \in Nat /\ inits'[k] = inits[k]
    BY <1>0, <2>1 DEF TypeOK
  <2>8. RefsCover' /\ InitsCover'
    <3>1. \A k \in Names : /\ Opens(t, k)' + Published(k)' - Opens(t, k) - Published(k) <= refs'[k] - refs[k]
                           /\ Inited(t, k)' + Published(k)' - Inited(t, k) - Published(k) <= inits'[k] - inits[k]
      BY <2>6, <2>7
    <3>2. \A u \in Threads \ {t} : pc'[u] = pc[u] /\ name'[u] = name[u]
      BY <2>1, ReturnClears
    <3> QED BY <2>7, <3>1, <3>2, CoversKept
  <2> QED BY <2>3, <2>4, <2>5, <2>8 DEF CountInv
<1>13. ASSUME NEW t \in Threads, NEW n \in Names, Unload(t, n) PROVE CountInv'
  <2> DEFINE m == mods[n]
             f == hdr[m]
  <2>1. /\ pc[t] = "idle" /\ m # null /\ m \in Objects /\ f \in Names /\ HeaderName[f] = n
        /\ pc' = [pc EXCEPT ![t] = "exit"] /\ name' = [name EXCEPT ![t] = f] /\ me' = [me EXCEPT ![t] = m]
        /\ mods' = [mods EXCEPT ![n] = null] /\ serial' \in BOOLEAN
        /\ UNCHANGED <<targets, made, hdr, refs, handles, unclosed, inits, todo, found>>
    BY <1>0, <1>13 DEF Unload, Begin, GoTo, loaderVars, TypeOK, HeadersMatch
  <2>2. sources' \in [Objects -> SUBSET Objects]
    BY <1>0, <1>13 DEF Unload, TypeOK
  <2>3. /\ pc'[t] = "exit" /\ name'[t] = f
        /\ \A u \in Threads \ {t} : pc'[u] = pc[u] /\ name'[u] = name[u] /\ me'[u] = me[u]
        /\ \A k \in Names : mods'[k] = IF k = n THEN null ELSE mods[k]
    BY <1>0, <2>1 DEF TypeOK
  <2>4. Published(f) = 1
    BY <2>1 DEF Published
  <2> HIDE DEF m, f
  <2>5. TypeOK'
    BY <1>0, <2>1, <2>2 DEF TypeOK
  <2>6. HandlesAreOpen' /\ UseHasObject' /\ HeadersMatch'
    BY <1>0, <2>1, <2>3 DEF HandlesAreOpen, UseHasObject, HeadersMatch
  <2>7. ASSUME NEW k \in Names
        PROVE  /\ Opens(t, k) = 0 /\ Opens(t, k)' = (IF k = f THEN 1 ELSE 0)
               /\ Inited(t, k) = 0 /\ Inited(t, k)' = (IF k = f THEN 1 ELSE 0)
               /\ Published(k) \in {0, 1} /\ Published(k)' \in {0, Published(k)}
    <3>1. /\ Opens(t, k) = 0 /\ Opens(t, k)' = (IF k = f THEN 1 ELSE 0)
          /\ Inited(t, k) = 0 /\ Inited(t, k)' = (IF k = f THEN 1 ELSE 0)
      BY <2>1, <2>3 DEF Opens, Inited, OpenPc, InitPc
    <3>2. HeaderName[k] \in Names
      BY PluginAssumption
    <3>3. Published(k) \in {0, 1} /\ Published(k)' \in {0, Published(k)}
      BY <2>1, <2>3, <3>2 DEF Published
    <3> QED BY <3>1, <3>3
  <2>8. ASSUME NEW k \in Names, k = f PROVE Published(k)' = 0
    <3>1. mods'[HeaderName[k]] = null
      BY <2>1, <2>3, <2>8
    <3> QED BY <3>1 DEF Published
  <2>9. \A k \in Names : refs[k] \in Nat /\ refs'[k] = refs[k] /\ inits[k] \in Nat /\ inits'[k] = inits[k]
    BY <1>0, <2>1 DEF TypeOK
  <2>10. RefsCover' /\ InitsCover'
    <3>1. ASSUME NEW k \in Names
          PROVE  /\ Opens(t, k)' + Published(k)' - Opens(t, k) - Published(k) <= refs'[k] - refs[k]
                 /\ Inited(t, k)' + Published(k)' - Inited(t, k) - Published(k) <= inits'[k] - inits[k]
      <4>1. CASE k = f
        <5>1. /\ Published(k) = 1 /\ Published(k)' = 0 /\ Opens(t, k) = 0 /\ Opens(t, k)' = 1
              /\ Inited(t, k) = 0 /\ Inited(t, k)' = 1
          BY <2>4, <2>7, <2>8, <4>1
        <5> QED BY <2>9, <5>1
      <4>2. CASE k # f
        BY <2>7, <2>9, <4>2
      <4> QED BY <4>1, <4>2
    <3> QED BY <2>3, <2>9, <3>1, CoversKept
  <2> QED BY <2>5, <2>6, <2>10 DEF CountInv
<1>14. ASSUME NEW t \in Threads, CallExit(t) PROVE CountInv'
  <2> DEFINE n == name[t]
  <2>1. /\ n \in Names /\ inits[n] \in Nat /\ inits[n] >= 1 /\ pc[t] = "exit"
        /\ inits' = [inits EXCEPT ![n] = inits[n] - 1] /\ pc' = [pc EXCEPT ![t] = "close"]
        /\ UNCHANGED <<mods, sources, targets, made, hdr, refs, handles, unclosed, name, me, todo, found, serial>>
    BY <1>0, <1>14, UsersAreCounted DEF CallExit, GoTo, objectVars, loaderVars, locals, TypeOK, InitPc
  <2>2. /\ pc'[t] = "close" /\ \A u \in Threads \ {t} : pc'[u] = pc[u] /\ name'[u] = name[u]
        /\ \A k \in Names : /\ inits'[k] = inits[k] - (IF k = n THEN 1 ELSE 0)
                            /\ refs'[k] = refs[k] /\ refs[k] \in Nat /\ inits[k] \in Nat
    BY <1>0, <2>1 DEF TypeOK
  <2> HIDE DEF n
  <2>3. inits[n] - 1 \in Nat
    BY <2>1
  <2>4. TypeOK'
    BY <1>0, <2>1, <2>3 DEF TypeOK
  <2>5. HandlesAreOpen' /\ UseHasObject' /\ HeadersMatch'
    BY <1>0, <2>1, <2>2 DEF HandlesAreOpen, UseHasObject, HeadersMatch
  <2>6. \A k \in Names : /\ Opens(t, k)' = Opens(t, k) /\ Opens(t, k) \in {0, 1}
                         /\ Inited(t, k) = (IF k = n THEN 1 ELSE 0) /\ Inited(t, k)' = 0
                         /\ Published(k)' = Published(k) /\ Published(k) \in {0, 1}
    BY <2>1, <2>2 DEF Opens, Inited, OpenPc, InitPc, Published, n
  <2>7. RefsCover' /\ InitsCover'
    BY <2>2, <2>6, CoversKept
  <2> QED BY <2>4, <2>5, <2>7 DEF CountInv
<1>15. CASE UNCHANGED vars
  <2>1. serial' \in BOOLEAN /\ UNCHANGED <<mods, objectVars, loaderVars, inits, pc, locals>>
    BY <1>0, <1>15 DEF vars, threadVars, TypeOK
  <2> QED BY <2>1, QuietCounts
<1> QED BY <1>1, <1>2, <1>3, <1>4, <1>5, <1>6, <1>7, <1>8, <1>10, <1>11, <1>12, <1>13, <1>14, <1>15 DEF Next

(* The tables map names to objects and the counts of dlopen and init never *)
(* go below zero, whatever operations overlap (Load, Unload, DllLoader).   *)
THEOREM TypeCorrect == Spec => []TypeOK
<1>1. CountInv => TypeOK
  BY DEF CountInv
<1> QED BY <1>1, CountInit, CountStep, PTL DEF Spec

(* What is published is initialised, and if well named in memory; so is    *)
(* the code of a well-named plugin that a thread is about to call, even    *)
(* when threads load and unload the same plugin at once (the order of exit *)
(* and Unload, of init and publication).                                   *)
THEOREM LibraryStaysOpen == Spec => []NoCallIntoClosedLibrary
<1>1. CountInv => NoCallIntoClosedLibrary
  BY UsersAreCounted DEF NoCallIntoClosedLibrary, OpenPc
<1> QED BY <1>1, CountInit, CountStep, PTL DEF Spec

(***************************************************************************)
(* Operations one at a time.  While they are, one thread at most is inside *)
(* one, and the library and the init count of its plugin, if well named,   *)
(* are where that step of Load or Unload expects them; every other         *)
(* well-named plugin is loaded and initialised, or neither.                *)
(***************************************************************************)
OthersIdle(t) == \A u \in Threads \ {t} : pc[u] = "idle"

OneAtATime == \A t \in Threads : pc[t] # "idle" => OthersIdle(t)

WorksOn(t) ==
    (pc[t] # "idle" /\ WellNamed(name[t])) =>
        /\ mods[name[t]] = null
        /\ inits[name[t]] = IF pc[t] \in InitPc THEN 1 ELSE 0
        /\ refs[name[t]] = unclosed[name[t]] + (IF pc[t] \in OpenPc THEN 1 ELSE 0)
        /\ IF pc[t] \in OpenPc THEN name[t] \in handles ELSE name[t] \in handles => unclosed[name[t]] > 0

Sound(n) ==
    WellNamed(n) =>
        IF mods[n] # null
        THEN inits[n] = 1 /\ refs[n] = unclosed[n] + 1 /\ n \in handles
        ELSE inits[n] = 0 /\ refs[n] = unclosed[n] /\ (n \in handles => unclosed[n] > 0)

(* An object being loaded is not in mods_ yet.                             *)
OwnObject(t) == pc[t] \in {"verify", "use", "commit"} => \A n \in Names : mods[n] # me[t]

(* Object o and the plugin loaded as d know of each other.                 *)
Linked(o, d) == mods[d] # null /\ o \in sources[mods[d]] /\ mods[d] \in targets[o]

LoadedIsLinked ==
    \A n \in Names : (WellNamed(n) /\ mods[n] # null) =>
        \A d \in DependsOn(n) : WellNamed(d) => Linked(mods[n], d)

Listed(s) == {s[i] : i \in DOMAIN s}

(* What VerifyDependence has behind it is linked.                          *)
VerifiedIsLinked(t) ==
    /\ pc[t] \in {"verify", "use"} =>
        \A d \in DependsOn(name[t]) : WellNamed(d) => (d \in Listed(todo[t]) \/ Linked(me[t], d))
    /\ pc[t] = "use" => found[t] = mods[Head(todo[t])]
    /\ pc[t] = "commit" => \A d \in DependsOn(name[t]) : WellNamed(d) => Linked(me[t], d)

SerialInv ==
    serial =>
        /\ OneAtATime /\ LoadedIsLinked
        /\ \A t \in Threads : WorksOn(t) /\ OwnObject(t) /\ VerifiedIsLinked(t)
        /\ \A n \in Names : ~Working(n) => Sound(n)

PluginInv == CountInv /\ SerialInv

(* The steps of thread t.                                                  *)
StepBy(t) ==
    \/ RefuseNoName(t)
    \/ \E n \in Names : Load(t, n) \/ UnloadRefused(t, n) \/ Unload(t, n)
    \/ OpenFails(t) \/ Open(t) \/ FindDependence(t) \/ UseDependence(t)
    \/ CallInit(t) \/ Abort(t) \/ Commit(t)
    \/ CallExit(t) \/ CloseLibrary(t)

(* As long as operations have not overlapped, the thread that makes a step *)
(* is the only one inside an operation, before and after it.               *)
LEMMA LoneWorker ==
    ASSUME PluginInv, NEW t \in Threads, StepBy(t), serial'
    PROVE  /\ serial /\ OthersIdle(t) /\ OthersIdle(t)'
           /\ pc' = [pc EXCEPT ![t] = pc'[t]]
<1>1. pc' = [pc EXCEPT ![t] = pc'[t]]
  BY DEF StepBy, RefuseNoName, Load, UnloadRefused, Unload, OpenFails, Open, FindDependence, UseDependence,
         CallInit, Abort, Commit, CallExit, CloseLibrary, Begin, Return, GoTo, PluginInv, CountInv, TypeOK
<1>2. CASE pc[t] = "idle"
  <2>1. Begin(t)
    BY <1>2 DEF StepBy, RefuseNoName, Load, UnloadRefused, Unload, OpenFails, Open, FindDependence, UseDependence,
                CallInit, Abort, Commit, CallExit, CloseLibrary
  <2> QED BY <1>1, <2>1 DEF Begin, OthersIdle, PluginInv, CountInv, TypeOK
<1>3. CASE pc[t] # "idle"
  <2>1. serial' = serial
    BY <1>3 DEF StepBy, RefuseNoName, Load, UnloadRefused, Unload, Begin, OpenFails, Open, FindDependence,
                UseDependence, CallInit, Abort, Commit, CallExit, CloseLibrary
  <2>2. OthersIdle(t)
    BY <1>3, <2>1 DEF PluginInv, SerialInv, OneAtATime
  <2> QED BY <1>1, <2>1, <2>2 DEF OthersIdle, PluginInv, CountInv, TypeOK
<1> QED BY <1>1, <1>2, <1>3

(* So it is enough to look at what t has done.                             *)
LEMMA LoneWorkerKeeps ==
    ASSUME NEW t \in Threads, OthersIdle(t)', LoadedIsLinked',
           WorksOn(t)', OwnObject(t)', VerifiedIsLinked(t)',
           \A n \in Names : ~(pc'[t] # "idle" /\ name'[t] = n) => Sound(n)'
    PROVE  SerialInv'
<1>1. OneAtATime'
  BY DEF OneAtATime, OthersIdle
<1>2. \A u \in Threads : WorksOn(u)' /\ OwnObject(u)' /\ VerifiedIsLinked(u)'
  <2>1. ASSUME NEW u \in Threads, u # t PROVE WorksOn(u)' /\ OwnObject(u)' /\ VerifiedIsLinked(u)'
    <3>1. pc'[u] = "idle"
      BY <2>1 DEF OthersIdle
    <3> QED BY <3>1 DEF WorksOn, OwnObject, VerifiedIsLinked
  <2> QED BY <2>1
<1>3. \A n \in Names : ~Working(n)' => Sound(n)'
  BY DEF Working
<1> QED BY <1>1, <1>2, <1>3 DEF SerialInv

(* The elements of a sequence are its head and those of its tail.          *)
LEMMA ListedTail ==
    ASSUME NEW S, NEW s \in Seq(S), s # <<>>, NEW x \in Listed(s)
    PROVE  x = Head(s) \/ x \in Listed(Tail(s))
<1>1. PICK i \in 1 .. Len(s) : x = s[i]
  BY DEF Listed
<1>2. CASE i = 1
  BY <1>1, <1>2
<1>3. CASE i # 1
  <2>1. i - 1 \in 1 .. Len(Tail(s)) /\ Tail(s)[i - 1] = s[i]
    BY <1>1, <1>3, HeadTailProperties
  <2>2. DOMAIN Tail(s) = 1 .. Len(Tail(s))
    BY HeadTailProperties
  <2> QED BY <1>1, <2>1, <2>2 DEF Listed
<1> QED BY <1>2, <1>3

(* A dependency is the name of a plugin.                                   *)
LEMMA DependsOnNames == \A n \in Names : DependsOn(n) \subseteq Names
BY PluginAssumption DEF DependsOn

(* Nothing is loaded at the start.                                         *)
LEMMA SerialInit == Init => PluginInv
<1> SUFFICES ASSUME Init PROVE PluginInv
  OBVIOUS
<1>1. CountInv
  BY CountInit
<1>2. /\ \A t \in Threads : pc[t] = "idle"
      /\ \A n \in Names : mods[n] = null /\ inits[n] = 0 /\ refs[n] = 0 /\ unclosed[n] = 0 /\ n \notin handles
  BY DEF Init
<1>3. LoadedIsLinked /\ OneAtATime
  BY <1>2 DEF Init, LoadedIsLinked, OneAtATime, OthersIdle, null
<1>4. \A t \in Threads : WorksOn(t) /\ OwnObject(t) /\ VerifiedIsLinked(t)
  BY <1>2 DEF WorksOn, OwnObject, VerifiedIsLinked
<1>5. \A n \in Names : Sound(n)
  BY <1>2 DEF Sound
<1> QED BY <1>1, <1>3, <1>4, <1>5 DEF PluginInv, SerialInv

(* Every step keeps it.                                                    *)
LEMMA SerialStep == PluginInv /\ [Next]_vars => PluginInv'
<1> SUFFICES ASSUME PluginInv, [Next]_vars PROVE PluginInv'
  OBVIOUS
<1>0. CountInv /\ CountInv' /\ TypeOK /\ TypeOK' /\ HeadersMatch
  BY CountStep DEF PluginInv, CountInv
<1>1. ASSUME NEW t \in Threads, StepBy(t), serial' PROVE SerialInv'
  <2>1. serial /\ OthersIdle(t) /\ OthersIdle(t)'
    BY <1>1, LoneWorker
  <2>2. /\ LoadedIsLinked /\ WorksOn(t) /\ OwnObject(t) /\ VerifiedIsLinked(t)
        /\ \A n \in Names : ~(pc[t] # "idle" /\ name[t] = n) => Sound(n)
    BY <2>1 DEF PluginInv, SerialInv, Working, OthersIdle
  <2> DEFINE Kept == /\ LoadedIsLinked' /\ WorksOn(t)' /\ OwnObject(t)' /\ VerifiedIsLinked(t)'
                     /\ \A n \in Names : ~(pc'[t] # "idle" /\ name'[t] = n) => Sound(n)'
  <2> SUFFICES Kept
    BY <2>1, LoneWorkerKeeps
  <2> DEFINE LinkedNext(o, d) == mods'[d] # null /\ o \in sources'[mods'[d]] /\ mods'[d] \in targets'[o]
  <2>3. /\ name[t] \in Names
        /\ \A k \in Names : inits[k] \in Nat /\ refs[k] \in Nat /\ unclosed[k] \in Nat
    BY <1>0 DEF TypeOK
  <2>a. ASSUME UNCHANGED <<mods, sources, targets>> PROVE LoadedIsLinked'
    BY <2>2, <2>a DEF LoadedIsLinked, Linked
  <2>b. ASSUME pc'[t] = "idle" PROVE WorksOn(t)' /\ OwnObject(t)' /\ VerifiedIsLinked(t)'
    BY <2>b DEF WorksOn, OwnObject, VerifiedIsLinked
  <2>4. ASSUME UNCHANGED <<mods, objectVars, loaderVars, inits, pc, locals>> PROVE Kept
    <3>1. UNCHANGED <<mods, sources, targets, refs, handles, unclosed, inits, pc, name, me, todo, found>>
      BY <2>4 DEF objectVars, loaderVars, locals
    <3>2. WorksOn(t)' /\ OwnObject(t)' /\ VerifiedIsLinked(t)'
      BY <2>2, <3>1 DEF WorksOn, OwnObject, VerifiedIsLinked, Linked
    <3>3. \A n \in Names : ~(pc'[t] # "idle" /\ name'[t] = n) => Sound(n)'
      BY <2>2, <3>1 DEF Sound
    <3> QED BY <2>a, <3>1, <3>2, <3>3
  <2>5. ASSUME NEW k \in Names, Load(t, k) PROVE Kept
    <3>1. /\ UNCHANGED <<mods, sources, targets, refs, handles, unclosed, inits, me, todo, found>> /\ pc[t] = "idle"
          /\ UNCHANGED <<mods, objectVars, loaderVars, inits, me, todo, found>>
      BY <2>5 DEF Load, Begin, objectVars, loaderVars
    <3>2. CASE UNCHANGED <<pc, name>>
      BY <2>4, <3>1, <3>2 DEF locals
    <3>3. CASE mods[k] = null /\ pc' = [pc EXCEPT ![t] = "open"] /\ name' = [name EXCEPT ![t] = k]
      <4>1. pc'[t] = "open" /\ name'[t] = k
        BY <1>0, <3>3 DEF TypeOK
      <4>2. WorksOn(t)'
        BY <2>2, <2>3, <3>1, <3>3, <4>1 DEF WorksOn, Sound, OpenPc, InitPc
      <4>3. OwnObject(t)' /\ VerifiedIsLinked(t)'
        BY <4>1 DEF OwnObject, VerifiedIsLinked
      <4>4. \A n \in Names : Sound(n)'
        BY <2>2, <3>1 DEF Sound
      <4> QED BY <2>a, <3>1, <4>2, <4>3, <4>4
    <3> QED BY <2>5, <3>2, <3>3 DEF Load, GoTo
  <2>6. ASSUME OpenFails(t) PROVE Kept
    <3>1. /\ UNCHANGED <<mods, sources, targets, refs, handles, unclosed, inits>> /\ pc[t] = "open"
          /\ pc'[t] = "idle"
      BY <1>0, <2>6, ReturnClears DEF OpenFails, objectVars, loaderVars
    <3>2. \A n \in Names : Sound(n)
      BY <2>2, <2>3, <3>1 DEF WorksOn, Sound, OpenPc, InitPc
    <3>3. \A n \in Names : Sound(n)'
      BY <3>1, <3>2 DEF Sound
    <3> QED BY <2>a, <2>b, <3>1, <3>3
  <2>7. ASSUME Open(t) PROVE Kept
    <3> DEFINE n == name[t]
    <3>1. /\ pc[t] = "open" /\ pc'[t] \in {"verify", "abort"} /\ UNCHANGED <<mods, sources, targets, inits, name, unclosed>>
          /\ refs' = [refs EXCEPT ![n] = @ + 1] /\ handles' = handles \cup {n}
          /\ made \in Nat /\ me'[t] = made + 1 /\ made + 1 \in Objects /\ todo'[t] = Depends[n]
      BY <1>0, <2>7, PluginAssumption DEF Open, LoaderLoad, GoTo, TypeOK, Objects
    <3>2. \A k \in Names : mods[k] # made + 1
      <4>1. \A k \in Names : mods[k] \in Nat
        <5>1. Objects \cup {null} \subseteq Nat
          BY PluginAssumption DEF Objects, null
        <5> QED BY <1>0, <5>1 DEF TypeOK
      <4>2. \A k \in Names : mods[k] <= made
        BY <1>0, <3>1, <4>1 DEF HeadersMatch, null
      <4> QED BY <3>1, <4>1, <4>2
    <3>3. \A k \in Names : refs'[k] = IF k = n THEN refs[k] + 1 ELSE refs[k]
      BY <1>0, <2>3, <3>1 DEF TypeOK
    <3>4. WorksOn(t)'
      BY <2>2, <2>3, <3>1, <3>3 DEF WorksOn, OpenPc, InitPc
    <3>5. \A k \in Names : ~(pc'[t] # "idle" /\ name'[t] = k) => Sound(k)'
      BY <2>2, <2>3, <3>1, <3>3 DEF Sound
    <3>6. OwnObject(t)'
      BY <3>1, <3>2 DEF OwnObject
    <3>7. VerifiedIsLinked(t)'
      BY <3>1 DEF VerifiedIsLinked, DependsOn, Listed
    <3> QED BY <2>a, <3>1, <3>4, <3>5, <3>6, <3>7
  <2>8. ASSUME FindDependence(t) PROVE Kept
    <3>1. /\ UNCHANGED <<mods, sources, targets, refs, handles, unclosed, inits, name, me, todo>>
          /\ pc[t] = "verify" /\ pc'[t] \in {"abort", "use"} /\ found'[t] = mods[Head(todo[t])]
      BY <1>0, <2>8 DEF FindDependence, GoTo, objectVars, loaderVars, TypeOK
    <3>2. WorksOn(t)' /\ \A n \in Names : ~(pc'[t] # "idle" /\ name'[t] = n) => Sound(n)'
      BY <2>2, <2>3, <3>1 DEF WorksOn, Sound, OpenPc, InitPc
    <3>3. OwnObject(t)' /\ VerifiedIsLinked(t)'
      BY <2>2, <3>1 DEF OwnObject, VerifiedIsLinked, Linked
    <3> QED BY <2>a, <3>1, <3>2, <3>3
  <2>9. ASSUME CallInit(t) PROVE Kept
    <3> DEFINE n == name[t]
    <3>1. /\ UNCHANGED <<mods, sources, targets, refs, handles, unclosed, name, me, todo>>
          /\ pc[t] = "verify" /\ todo[t] = <<>> /\ pc'[t] \in {"commit", "abort"}
          /\ \A k \in Names : inits'[k] = IF k = n /\ pc'[t] = "commit" THEN inits[k] + 1 ELSE inits[k]
      BY <1>0, <2>3, <2>9 DEF CallInit, GoTo, objectVars, loaderVars, locals, TypeOK
    <3>2. WorksOn(t)'
      BY <2>2, <2>3, <3>1 DEF WorksOn, OpenPc, InitPc
    <3>3. \A k \in Names : ~(pc'[t] # "idle" /\ name'[t] = k) => Sound(k)'
      BY <2>2, <3>1 DEF Sound
    <3>4. Listed(todo[t]) = {}
      BY <3>1 DEF Listed
    <3>5. OwnObject(t)' /\ VerifiedIsLinked(t)'
      BY <2>2, <3>1, <3>4 DEF OwnObject, VerifiedIsLinked, Linked
    <3> QED BY <2>a, <3>1, <3>2, <3>3, <3>5
  <2>10. ASSUME NEW n \in Names, LoaderUnload(n), Return(t), pc[t] \in {"abort", "close"},
                WellNamed(n) \/ WellNamed(name[t]) => name[t] = n, UNCHANGED <<mods, objectVars, inits, serial>>
         PROVE  Kept
    <3>1. UNCHANGED <<mods, sources, targets, inits>> /\ pc'[t] = "idle"
      BY <1>0, <2>10, ReturnClears DEF objectVars
    <3>2. ASSUME NEW k \in Names, WellNamed(k) PROVE Sound(k)'
      <4>1. CASE k = n
        <5>1. /\ mods[k] = null /\ inits[k] = 0 /\ refs[k] = unclosed[k] + 1 /\ k \in handles
          BY <2>2, <2>3, <2>10, <3>2, <4>1 DEF WorksOn, OpenPc, InitPc
        <5>2. \/ refs'[k] = refs[k] - 1 /\ k \notin handles' /\ unclosed'[k] = unclosed[k]
              \/ refs'[k] = refs[k] /\ unclosed'[k] = unclosed[k] + 1
          BY <1>0, <2>10, <4>1, <5>1 DEF LoaderUnload, TypeOK
        <5> QED BY <2>3, <3>1, <5>1, <5>2 DEF Sound
      <4>2. CASE k # n
        <5>1. Sound(k)
          BY <2>2, <2>10, <3>2, <4>2
        <5>2. refs'[k] = refs[k] /\ unclosed'[k] = unclosed[k] /\ (k \in handles' <=> k \in handles)
          BY <1>0, <2>10, <4>2 DEF LoaderUnload, loaderVars, TypeOK
        <5> QED BY <3>1, <5>1, <5>2 DEF Sound
      <4> QED BY <4>1, <4>2
    <3>3. \A k \in Names : Sound(k)'
      BY <3>2 DEF Sound
    <3> QED BY <2>a, <2>b, <3>1, <3>3
  <2>11. ASSUME Abort(t) PROVE Kept
    BY <2>3, <2>10, <2>11 DEF Abort
  <2>12. ASSUME CloseLibrary(t) PROVE Kept
    <3>1. HeaderName[name[t]] \in Names
      BY <2>3, PluginAssumption
    <3>2. WellNamed(HeaderName[name[t]]) \/ WellNamed(name[t]) => name[t] = HeaderName[name[t]]
      BY <2>3, <3>1 DEF WellNamed
    <3> QED BY <2>10, <2>12, <3>1, <3>2 DEF CloseLibrary
  <2>13. ASSUME CallExit(t) PROVE Kept
    <3> DEFINE n == name[t]
    <3>1. /\ UNCHANGED <<mods, sources, targets, refs, handles, unclosed, name>>
          /\ pc[t] = "exit" /\ pc'[t] = "close"
          /\ \A k \in Names : inits'[k] = IF k = n THEN inits[k] - 1 ELSE inits[k]
      BY <1>0, <2>3, <2>13 DEF CallExit, GoTo, objectVars, loaderVars, locals, TypeOK
    <3>2. WorksOn(t)'
      BY <2>2, <2>3, <3>1 DEF WorksOn, OpenPc, InitPc
    <3>3. \A k \in Names : ~(pc'[t] # "idle" /\ name'[t] = k) => Sound(k)'
      BY <2>2, <3>1 DEF Sound
    <3>4. OwnObject(t)' /\ VerifiedIsLinked(t)'
      BY <3>1 DEF OwnObject, VerifiedIsLinked
    <3> QED BY <2>a, <3>1, <3>2, <3>3, <3>4
  <2>14. ASSUME UseDependence(t) PROVE Kept
    <3> DEFINE b == found[t]
    <3>1. /\ pc[t] = "use" /\ pc'[t] = "verify" /\ UNCHANGED <<mods, refs, handles, unclosed, inits, name, me>>
          /\ todo'[t] = Tail(todo[t]) /\ todo[t] \in Seq(Names) /\ todo[t] # <<>>
          /\ sources' = [sources EXCEPT ![b] = @ \cup {me[t]}] /\ targets' = [targets EXCEPT ![me[t]] = @ \cup {b}]
          /\ b \in Objects /\ me[t] \in Objects /\ b = mods[Head(todo[t])]
      BY <1>0, <2>2, <2>14 DEF UseDependence, AddpluginUsage, GoTo, loaderVars, CountInv, TypeOK, UseHasObject, HeadersMatch, VerifiedIsLinked
    <3> HIDE DEF b
    <3>2. OwnObject(t)' /\ WorksOn(t)' /\ \A n \in Names : ~(pc'[t] # "idle" /\ name'[t] = n) => Sound(n)'
      BY <2>2, <3>1 DEF OwnObject, WorksOn, Sound, OpenPc, InitPc
    <3>0. /\ sources \in [Objects -> SUBSET Objects] /\ targets \in [Objects -> SUBSET Objects]
          /\ mods \in [Names -> Objects \cup {null}]
      BY <1>0 DEF TypeOK
    <3>a. /\ \A o \in Objects : sources[o] \subseteq sources'[o] /\ targets[o] \subseteq targets'[o]
          /\ me[t] \in sources'[b] /\ b \in targets'[me[t]]
      BY <3>0, <3>1
    <3>3. ASSUME NEW o \in Objects, NEW d \in Names, Linked(o, d) PROVE LinkedNext(o, d)
      <4>1. mods[d] \in Objects /\ mods'[d] = mods[d] /\ mods[d] # null
        BY <3>0, <3>1, <3>3 DEF Linked
      <4> QED BY <3>3, <3>a, <4>1 DEF Linked
    <3>4. LoadedIsLinked'
      <4> SUFFICES ASSUME NEW n \in Names, WellNamed(n), mods'[n] # null, NEW d \in DependsOn(n), WellNamed(d)
                   PROVE  LinkedNext(mods'[n], d)
        BY DEF LoadedIsLinked, Linked
      <4>1. mods[n] \in Objects /\ d \in Names /\ Linked(mods[n], d) /\ mods'[n] = mods[n]
        BY <1>0, <2>2, <3>1, DependsOnNames DEF LoadedIsLinked, TypeOK
      <4> QED BY <3>3, <4>1
    <3>5. LinkedNext(me[t], Head(todo[t]))
      <4>1. Head(todo[t]) \in Names
        BY <3>1, HeadTailProperties
      <4>2. mods'[Head(todo[t])] = b /\ b # null
        BY <3>1 DEF Objects, null
      <4> QED BY <3>a, <4>2
    <3>6. \A d \in DependsOn(name[t]) : WellNamed(d) => (d \in Listed(todo'[t]) \/ LinkedNext(me[t], d))
      <4> SUFFICES ASSUME NEW d \in DependsOn(name[t]), WellNamed(d) PROVE d \in Listed(todo'[t]) \/ LinkedNext(me[t], d)
        OBVIOUS
      <4>1. d \in Names /\ (d \in Listed(todo[t]) \/ Linked(me[t], d))
        BY <2>2, <2>3, <3>1, DependsOnNames DEF VerifiedIsLinked
      <4>2. d \in Listed(todo[t]) => d = Head(todo[t]) \/ d \in Listed(Tail(todo[t]))
        BY <3>1, ListedTail
      <4> QED BY <3>1, <3>3, <3>5, <4>1, <4>2
    <3>7. VerifiedIsLinked(t)'
      BY <3>1, <3>6 DEF VerifiedIsLinked, Linked
    <3> QED BY <3>2, <3>4, <3>7
  <2>15. ASSUME Commit(t) PROVE Kept
    <3> DEFINE f == name[t]
               n == HeaderName[f]
    <3>1. /\ pc[t] = "commit" /\ pc'[t] = "idle" /\ mods' = [mods EXCEPT ![n] = me[t]]
          /\ UNCHANGED <<sources, targets, refs, handles, unclosed, inits>>
      BY <1>0, <2>15, ReturnClears DEF Commit, objectVars, loaderVars
    <3>2. me[t] \in Objects /\ me[t] # null /\ f \in Names /\ n \in Names
      BY <1>0, <2>3, <3>1, PluginAssumption DEF HeadersMatch, Objects, null
    <3>3. \A k \in Names : mods'[k] = IF k = n THEN me[t] ELSE mods[k]
      BY <1>0, <3>1 DEF TypeOK
    <3>4. \A k \in Names : WellNamed(k) => (k = n <=> k = f)
      BY <3>2 DEF WellNamed
    <3>5. WellNamed(f) => mods[f] = null /\ inits[f] = 1 /\ refs[f] = unclosed[f] + 1 /\ f \in handles
      BY <2>2, <3>1 DEF WorksOn, OpenPc, InitPc
    <3>6. ASSUME NEW k \in Names, WellNamed(k) PROVE Sound(k)'
      <4>1. CASE k = n
        BY <3>1, <3>2, <3>3, <3>4, <3>5, <3>6, <4>1 DEF Sound
      <4>2. CASE k # n
        <5>1. Sound(k) /\ mods'[k] = mods[k]
          BY <2>2, <3>3, <3>4, <3>6, <4>2
        <5> QED BY <3>1, <5>1 DEF Sound
      <4> QED BY <4>1, <4>2
    <3>7. \A k \in Names : Sound(k)'
      BY <3>6 DEF Sound
    <3>8. ASSUME NEW o, NEW d \in Names, WellNamed(d), Linked(o, d) PROVE LinkedNext(o, d)
      <4>1. d # n
        BY <3>4, <3>5, <3>8 DEF Linked
      <4> QED BY <3>1, <3>3, <3>8, <4>1 DEF Linked
    <3>9. LoadedIsLinked'
      <4> SUFFICES ASSUME NEW k \in Names, WellNamed(k), mods'[k] # null, NEW d \in DependsOn(k), WellNamed(d)
                   PROVE  LinkedNext(mods'[k], d)
        BY DEF LoadedIsLinked, Linked
      <4>1. d \in Names
        BY DependsOnNames
      <4>2. CASE k = n
        <5>1. mods'[k] = me[t] /\ k = f
          BY <3>3, <3>4, <4>2
        <5>2. Linked(me[t], d)
          BY <2>2, <3>1, <5>1 DEF VerifiedIsLinked
        <5> QED BY <3>8, <4>1, <5>1, <5>2
      <4>3. CASE k # n
        <5>1. mods'[k] = mods[k]
          BY <3>3, <4>3
        <5>2. Linked(mods[k], d)
          BY <2>2, <5>1 DEF LoadedIsLinked
        <5> QED BY <3>8, <4>1, <5>1, <5>2
      <4> QED BY <4>2, <4>3
    <3> QED BY <2>b, <3>1, <3>7, <3>9
  <2>16. ASSUME NEW k \in Names, Unload(t, k) PROVE Kept
    <3> DEFINE m == mods[k]
               f == hdr[m]
    <3>1. /\ m # null /\ m \in Objects /\ sources[m] = {} /\ pc[t] = "idle" /\ pc'[t] = "exit" /\ name'[t] = f
          /\ mods' = [mods EXCEPT ![k] = null] /\ UNCHANGED <<targets, refs, handles, unclosed, inits>>
          /\ sources' = [o \in Objects |-> IF o \in targets[m] THEN sources[o] \ {m} ELSE sources[o]]
      BY <1>0, <2>16 DEF Unload, Begin, GoTo, loaderVars, TypeOK
    <3>2. f \in Names /\ HeaderName[f] = k /\ \A n \in Names \ {k} : mods[n] # m
      <4>1. \A n \in Names : mods[n] # null => HeaderName[hdr[mods[n]]] = n
        BY <1>0 DEF HeadersMatch
      <4>2. f \in Names
        BY <1>0, <3>1 DEF TypeOK
      <4> QED BY <3>1, <4>1, <4>2
    <3>3. \A n \in Names : mods'[n] = IF n = k THEN null ELSE mods[n]
      BY <1>0, <3>1 DEF TypeOK
    <3>4. \A n \in Names : WellNamed(n) => (n = k <=> n = f)
      BY <3>2 DEF WellNamed
    <3>5. \A n \in Names : Sound(n)
      BY <2>2, <3>1
    <3>6. WorksOn(t)'
      <4>1. WellNamed(f) => f = k /\ inits[f] = 1 /\ refs[f] = unclosed[f] + 1 /\ f \in handles
        BY <3>1, <3>2, <3>4, <3>5 DEF Sound
      <4> HIDE DEF m, f
      <4> QED BY <3>1, <3>2, <3>3, <4>1 DEF WorksOn, OpenPc, InitPc
    <3>7. OwnObject(t)' /\ VerifiedIsLinked(t)'
      BY <3>1 DEF OwnObject, VerifiedIsLinked
    <3>8. ASSUME NEW n \in Names, n # f PROVE Sound(n)'
      <4>1. WellNamed(n) => mods'[n] = mods[n]
        BY <3>3, <3>4, <3>8
      <4> QED BY <3>1, <3>5, <4>1 DEF Sound
    <3> HIDE DEF m
    <3>9. LoadedIsLinked'
      <4> SUFFICES ASSUME NEW n \in Names, WellNamed(n), mods'[n] # null, NEW d \in DependsOn(n), WellNamed(d)
                   PROVE  LinkedNext(mods'[n], d)
        BY DEF LoadedIsLinked, Linked
      <4>1. n # k /\ mods'[n] = mods[n] /\ d \in Names /\ mods[n] \in Objects
        BY <1>0, <3>3, DependsOnNames DEF TypeOK
      <4>2. mods[d] # null /\ mods[n] \in sources[mods[d]] /\ mods[d] \in targets[mods[n]] /\ mods[d] \in Objects
        BY <1>0, <2>2, <4>1 DEF LoadedIsLinked, Linked, TypeOK
      <4>3. d # k
        BY <3>1, <4>2 DEF m
      <4>4. mods[n] # m /\ mods'[d] = mods[d]
        BY <3>2, <3>3, <4>1, <4>3
      <4> QED BY <3>1, <4>1, <4>2, <4>4
    <3> QED BY <3>1, <3>6, <3>7, <3>8, <3>9
  <2>17. ASSUME RefuseNoName(t) PROVE Kept
    BY <2>4, <2>17 DEF RefuseNoName
  <2>18. ASSUME NEW k \in Names, UnloadRefused(t, k) PROVE Kept
    BY <2>4, <2>18 DEF UnloadRefused
  <2> QED BY <1>1, <2>5, <2>6, <2>7, <2>8, <2>9, <2>11, <2>12, <2>13, <2>14, <2>15, <2>16, <2>17, <2>18 DEF StepBy
<1>2. CASE Next
  <2>1. PICK t \in Threads : StepBy(t)
    BY <1>2 DEF Next, StepBy
  <2>2. serial' => SerialInv'
    BY <1>1, <2>1
  <2> QED BY <1>0, <2>2 DEF PluginInv, SerialInv
<1>3. CASE UNCHANGED vars
  <2>1. UNCHANGED <<mods, sources, targets, refs, handles, unclosed, inits, pc, name, me, todo, found, serial>>
    BY <1>3 DEF vars, objectVars, loaderVars, threadVars, locals
  <2> QED BY <1>0, <2>1 DEF PluginInv, SerialInv, OneAtATime, OthersIdle,
             LoadedIsLinked, Linked, WorksOn, OwnObject, VerifiedIsLinked, Working, Sound
<1> QED BY <1>2, <1>3

(* As long as operations do not overlap, what is loaded is initialised     *)
(* once, has its library open, and all it depends on is loaded as the very *)
(* objects it was initialised against, among plugins that have the names   *)
(* of their libraries, whatever other plugins say, whatever loads failed,  *)
(* and with every library that stays open accounted for by a dlclose that  *)
(* failed (Load, Unload, AddpluginUsage, DllLoader).                       *)
THEOREM LoadedStaysUsable == Spec => []LoadedIsUsable
<1>1. PluginInv => LoadedIsUsable
  BY DEF PluginInv, SerialInv, LoadedIsUsable, LoadedIffInitialised, Sound, DependenciesAreLoaded, LoadedIsLinked, Linked
<1> QED BY <1>1, SerialInit, SerialStep, PTL DEF Spec
=============================================================================
