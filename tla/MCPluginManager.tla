-------------------------- MODULE MCPluginManager --------------------------
(* The instance of PluginManager for TLC.                                  *)
EXTENDS PluginManager, TLC
CONSTANTS base, mid, broken, odd, even

(* mid uses base; broken uses it too and has a bad header.                 *)
Uses == (base :> <<>>) @@ (mid :> <<base>>) @@ (broken :> <<base>>) @@ (odd :> <<>>) @@ (even :> <<>>)

(* The plugin of library odd says it is even, and the other way round.     *)
Says == [n \in Names |-> CASE n = odd -> even [] n = even -> odd [] OTHER -> n]

ThreadSymmetry == Permutations(Threads)
=============================================================================
