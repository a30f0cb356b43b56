--------------------------- MODULE PluginManager ---------------------------
(***************************************************************************)
(* The plugin manager (adv/plugin_manager.cc) with the library loader      *)
(* under it (adv/plugin_loader.cc).  Threads run Load and Unload; only     *)
(* parts of the two hold mutex_, and a step of this module is a part that  *)
(* other threads cannot interrupt.  A race on a std::map outside the lock  *)
(* is given the outcomes of the two orders of the accesses.                *)
(*                                                                         *)
(* The same names stand for libraries (the argument of Load picks the file *)
(* libplugin_<name>.so) and for plugins (hdr->name, under which mods_      *)
(* keeps them); nothing makes the two agree.  Each Load makes a Plugin     *)
(* object, a number; 0 is the null PluginPtr.                              *)
(***************************************************************************)
EXTENDS Integers, Sequences, FiniteSets

CONSTANTS
    Threads,
    Names,      \* names of libraries and of plugins
    HeaderName, \* hdr->name of the plugin in each library
    Depends,    \* the names in its `depends`, in order
    BadHeader,  \* libraries whose header VerifyPluginHeader refuses
    MaxLoads    \* bound: Plugin objects made

ASSUME PluginAssumption ==
    /\ IsFiniteSet(Threads) /\ Names # {}
    /\ HeaderName \in [Names -> Names] /\ Depends \in [Names -> Seq(Names)]
    /\ BadHeader \subseteq Names
    /\ MaxLoads \in Nat

Objects == 1 .. MaxLoads
null == 0
AnyName == CHOOSE n \in Names : TRUE    \* where no name is set

VARIABLES
    mods,       \* mods_: name -> Plugin object
    sources,    \* Plugin::sources of each object: who depends on me
    targets,    \* Plugin::targets of each object: whom I depend on
    made,       \* number of Plugin objects made
    hdr,        \* the library that Plugin::hdr of each object points into
    refs,       \* dlopen calls minus successful dlclose calls of each library
    handles,    \* names in DllLoader::handles_
    unclosed,   \* history: failed dlclose calls of each library
    inits,      \* successful init calls minus exit calls, of each library's plugin
    pc, name,   \* where each thread is, and the library it works on
    me,         \* the Plugin object of its Load or Unload
    todo,       \* names VerifyDependence has still to look at
    found,      \* the plugin `it` points to in VerifyDependence
    serial      \* history: no operation has begun during another one

objectVars == <<sources, targets, made, hdr>>
loaderVars == <<refs, handles, unclosed>>
locals == <<name, me, todo, found>>
threadVars == <<pc, locals, serial>>
vars == <<mods, objectVars, loaderVars, inits, threadVars>>

Init ==
    /\ mods = [n \in Names |-> null]
    /\ sources = [o \in Objects |-> {}] /\ targets = [o \in Objects |-> {}]
    /\ made = 0 /\ hdr = [o \in Objects |-> AnyName]
    /\ refs = [n \in Names |-> 0] /\ handles = {} /\ unclosed = [n \in Names |-> 0]
    /\ inits = [n \in Names |-> 0]
    /\ pc = [t \in Threads |-> "idle"]
    /\ name = [t \in Threads |-> AnyName]
    /\ me = [t \in Threads |-> null]
    /\ todo = [t \in Threads |-> <<>>]
    /\ found = [t \in Threads |-> null]
    /\ serial = TRUE

(* The thread goes on to another step, or returns, whatever the Status:    *)
(* its locals are gone.                                                    *)
GoTo(t, step) == pc' = [pc EXCEPT ![t] = step]
Return(t) ==
    /\ pc' = [pc EXCEPT ![t] = "idle"]
    /\ name' = [name EXCEPT ![t] = AnyName]
    /\ me' = [me EXCEPT ![t] = null]
    /\ todo' = [todo EXCEPT ![t] = <<>>]
    /\ found' = [found EXCEPT ![t] = null]

(* The thread begins an operation.                                         *)
Begin(t) ==
    /\ pc[t] = "idle"
    /\ serial' = (serial /\ \A u \in Threads : pc[u] = "idle")

-----------------------------------------------------------------------------
(* DllLoader (dlopen and dlclose count the uses of a library).             *)

LoaderLoad(n) ==
    /\ refs' = [refs EXCEPT ![n] = @ + 1]
    /\ handles' = handles \cup {n}
    /\ UNCHANGED unclosed

(* A bug: the handle stays in the map after a successful dlclose.          *)
LoaderUnloadKeep(n) ==
    /\ refs' = IF n \in handles THEN [refs EXCEPT ![n] = @ - 1] ELSE refs
    /\ UNCHANGED <<handles, unclosed>>

(* dlclose succeeds and the handle goes, or it fails and the handle stays; *)
(* a name that has no handle is NotFound.  The caller ignores the Status.  *)
LoaderUnload(n) ==
    \/ /\ n \in handles
       /\ refs' = [refs EXCEPT ![n] = @ - 1]
       /\ handles' = handles \ {n}
       /\ UNCHANGED unclosed
    \/ /\ n \in handles
       /\ unclosed' = [unclosed EXCEPT ![n] = @ + 1]
       /\ UNCHANGED <<refs, handles>>
    \/ n \notin handles /\ UNCHANGED loaderVars

-----------------------------------------------------------------------------
(* Load.                                                                   *)

(* Load and Unload of NULL or an empty name: InvalidArgument.              *)
RefuseNoName(t) ==
    /\ Begin(t)
    /\ UNCHANGED <<mods, objectVars, loaderVars, inits, pc, locals>>

(* Under mutex_: AlreadyExists if the name is taken.                       *)
Load(t, n) ==
    /\ Begin(t)
    /\ \/ mods[n] # null /\ UNCHANGED <<pc, name>>
       \/ mods[n] = null /\ GoTo(t, "open") /\ name' = [name EXCEPT ![t] = n]
    /\ UNCHANGED <<mods, objectVars, loaderVars, inits, me, todo, found>>

(* loader_->Load finds no library, or no entry in it: Cancelled.           *)
OpenFails(t) ==
    /\ pc[t] = "open"
    /\ Return(t)
    /\ UNCHANGED <<mods, objectVars, loaderVars, inits, serial>>

(* There is a header, with a name, an init and an exit function.           *)
VerifyPluginHeader(n) == n \notin BadHeader

(* loader_->Load, a new Plugin, and VerifyPluginHeader.                    *)
Open(t) ==
    /\ pc[t] = "open" /\ made < MaxLoads
    /\ LoaderLoad(name[t])
    /\ made' = made + 1
    /\ hdr' = [hdr EXCEPT ![made + 1] = name[t]]
    /\ me' = [me EXCEPT ![t] = made + 1]
    /\ todo' = [todo EXCEPT ![t] = Depends[name[t]]]
    /\ GoTo(t, IF VerifyPluginHeader(name[t]) THEN "verify" ELSE "abort")
    /\ UNCHANGED <<mods, sources, targets, inits, name, found, serial>>

(* VerifyDependence looks the next dependency up, without the lock.        *)
FindDependence(t) ==
    /\ pc[t] = "verify" /\ todo[t] # <<>>
    /\ found' = [found EXCEPT ![t] = mods[Head(todo[t])]]
    /\ GoTo(t, IF mods[Head(todo[t])] = null THEN "abort" ELSE "use")
    /\ UNCHANGED <<mods, objectVars, loaderVars, inits, name, me, todo, serial>>

(* Plugin a uses b.                                                        *)
AddpluginUsage(a, b) ==
    /\ sources' = [sources EXCEPT ![b] = @ \cup {a}]
    /\ targets' = [targets EXCEPT ![a] = @ \cup {b}]

UseDependence(t) ==
    /\ pc[t] = "use"
    /\ AddpluginUsage(me[t], found[t])
    /\ todo' = [todo EXCEPT ![t] = Tail(@)]
    /\ GoTo(t, "verify")
    /\ UNCHANGED <<mods, made, hdr, loaderVars, inits, name, me, found, serial>>

(* hdr->init(param) succeeds or returns an error.                          *)
CallInit(t) ==
    /\ pc[t] = "verify" /\ todo[t] = <<>>
    /\ \/ /\ inits' = [inits EXCEPT ![name[t]] = @ + 1]
          /\ GoTo(t, "commit")
       \/ /\ UNCHANGED inits
          /\ GoTo(t, "abort")
    /\ UNCHANGED <<mods, objectVars, loaderVars, locals, serial>>

(* A bug: exit is called although init failed.                             *)
AbortWithExit(t) ==
    /\ pc[t] = "abort"
    /\ LoaderUnload(name[t])
    /\ inits' = [inits EXCEPT ![name[t]] = @ - 1]
    /\ Return(t)
    /\ UNCHANGED <<mods, objectVars, serial>>

(* InitPulgin failed: loader_->Unload and return its Status                *)
(* (InvalidArgument or NotFound).                                          *)
Abort(t) ==
    /\ pc[t] = "abort"
    /\ LoaderUnload(name[t])
    /\ Return(t)
    /\ UNCHANGED <<mods, objectVars, inits, serial>>

(* mods_[hdr->name] = me, under mutex_.                                    *)
Commit(t) ==
    /\ pc[t] = "commit"
    /\ mods' = [mods EXCEPT ![HeaderName[name[t]]] = me[t]]
    /\ Return(t)
    /\ UNCHANGED <<objectVars, loaderVars, inits, serial>>

-----------------------------------------------------------------------------
(* Unload.                                                                 *)

(* Under mutex_: not there (NotFound), or still used by others             *)
(* (Cancelled).                                                            *)
UnloadRefused(t, n) ==
    /\ Begin(t)
    /\ mods[n] # null => sources[mods[n]] # {}
    /\ UNCHANGED <<mods, objectVars, loaderVars, inits, pc, locals>>

(* A bug: no test of sources.                                              *)
UnloadUnchecked(t, n) ==
    /\ Begin(t) /\ mods[n] # null
    /\ name' = [name EXCEPT ![t] = hdr[mods[n]]]
    /\ me' = [me EXCEPT ![t] = mods[n]]
    /\ sources' = [o \in Objects |->
                    IF o \in targets[mods[n]] THEN sources[o] \ {mods[n]} ELSE sources[o]]
    /\ mods' = [mods EXCEPT ![n] = null]
    /\ GoTo(t, "exit")
    /\ UNCHANGED <<targets, made, hdr, loaderVars, inits, todo, found>>

(* Under mutex_: leave the sources of my targets and mods_.                *)
Unload(t, n) ==
    /\ Begin(t) /\ mods[n] # null /\ sources[mods[n]] = {}
    /\ name' = [name EXCEPT ![t] = hdr[mods[n]]]
    /\ me' = [me EXCEPT ![t] = mods[n]]
    /\ sources' = [o \in Objects |->
                    IF o \in targets[mods[n]] THEN sources[o] \ {mods[n]} ELSE sources[o]]
    /\ mods' = [mods EXCEPT ![n] = null]
    /\ GoTo(t, "exit")
    /\ UNCHANGED <<targets, made, hdr, loaderVars, inits, todo, found>>

(* A bug: the library is closed before its exit function is called.        *)
CallExitLate(t) ==
    /\ pc[t] = "exit"
    /\ LoaderUnload(HeaderName[name[t]])
    /\ GoTo(t, "exit")
    /\ UNCHANGED <<mods, objectVars, inits, locals, serial>>

(* me->hdr->exit() *)
CallExit(t) ==
    /\ pc[t] = "exit"
    /\ inits' = [inits EXCEPT ![name[t]] = @ - 1]
    /\ GoTo(t, "close")
    /\ UNCHANGED <<mods, objectVars, loaderVars, locals, serial>>

(* loader_->Unload(me->hdr->name), which is not the name Load opened if    *)
(* the header has another one.                                             *)
CloseLibrary(t) ==
    /\ pc[t] = "close"
    /\ LoaderUnload(HeaderName[name[t]])
    /\ Return(t)
    /\ UNCHANGED <<mods, objectVars, inits, serial>>

-----------------------------------------------------------------------------
Next ==
    \E t \in Threads :
        \/ RefuseNoName(t)
        \/ \E n \in Names : Load(t, n) \/ UnloadRefused(t, n) \/ Unload(t, n)
        \/ OpenFails(t) \/ Open(t) \/ FindDependence(t) \/ UseDependence(t)
        \/ CallInit(t) \/ Abort(t) \/ Commit(t)
        \/ CallExit(t) \/ CloseLibrary(t)

Spec == Init /\ [][Next]_vars

-----------------------------------------------------------------------------
(* Tables map names to objects, counts are not negative.                   *)
TypeOK ==
    /\ mods \in [Names -> Objects \cup {null}]
    /\ sources \in [Objects -> SUBSET Objects] /\ targets \in [Objects -> SUBSET Objects]
    /\ made \in 0 .. MaxLoads /\ hdr \in [Objects -> Names]
    /\ refs \in [Names -> Nat] /\ handles \subseteq Names /\ unclosed \in [Names -> Nat]
    /\ inits \in [Names -> Nat]
    /\ pc \in [Threads -> {"idle", "open", "verify", "use", "abort", "commit", "exit", "close"}]
    /\ name \in [Threads -> Names]
    /\ me \in [Threads -> Objects \cup {null}] /\ found \in [Threads -> Objects \cup {null}]
    /\ todo \in [Threads -> Seq(Names)]
    /\ serial \in BOOLEAN

DependsOn(n) == {Depends[n][i] : i \in DOMAIN Depends[n]}

(* The library n has a plugin of that name, and no other library has one.  *)
WellNamed(n) == \A f \in Names : HeaderName[f] = n <=> f = n

(* As long as operations do not overlap, a loaded plugin's dependencies    *)
(* are loaded, as the very objects it was initialised against, and both    *)
(* ends know of each other: no sequence of loads, failed loads and unloads *)
(* takes a dependency away (Unload's test against AddpluginUsage).  A      *)
(* dependency that other libraries claim the name of may be replaced.      *)
DependenciesAreLoaded ==
    \A n \in Names : (serial /\ WellNamed(n) /\ mods[n] # null) =>
        \A d \in DependsOn(n) : WellNamed(d) =>
            /\ mods[d] # null
            /\ mods[n] \in sources[mods[d]] /\ mods[d] \in targets[mods[n]]

Working(n) == \E t \in Threads : pc[t] # "idle" /\ name[t] = n

(* As long as operations do not overlap, a well-named plugin that none is  *)
(* working on is loaded exactly if it is initialised once; its library is  *)
(* then open once more than dlclose has failed on it, and it has a handle. *)
(* When it is not loaded only a failed dlclose keeps its library open and  *)
(* can have left a handle (Load, Unload, DllLoader).  Loads that failed,   *)
(* and plugins with a name that is not their library's, make no difference.*)
LoadedIffInitialised ==
    \A n \in Names : (serial /\ WellNamed(n) /\ ~Working(n)) =>
        IF mods[n] # null
        THEN inits[n] = 1 /\ refs[n] = unclosed[n] + 1 /\ n \in handles
        ELSE inits[n] = 0 /\ refs[n] = unclosed[n] /\ (n \in handles => unclosed[n] > 0)

(* What is loaded is whole: itself, its library and all it depends on, as  *)
(* long as operations do not overlap and names are kept apart (Load,       *)
(* Unload).                                                                *)
LoadedIsUsable == LoadedIffInitialised /\ DependenciesAreLoaded

(* Published plugins are initialised, whatever their headers say, and if   *)
(* well named their code is in memory; so is the code of a well-named      *)
(* plugin a thread is about to call, even when threads load and unload the *)
(* same plugin at once (the order of exit and Unload, of init and          *)
(* publication).                                                           *)
NoCallIntoClosedLibrary ==
    /\ \A n \in Names : mods[n] # null =>
        inits[hdr[mods[n]]] >= 1 /\ (WellNamed(n) => refs[n] >= 1)
    /\ \A t \in Threads : (pc[t] \in {"verify", "use", "commit", "exit"} /\ WellNamed(name[t])) =>
        refs[name[t]] >= 1
=============================================================================
