------------------------------- MODULE MCBus -------------------------------
(* Instances of Bus for TLC.                                               *)
EXTENDS Bus, TLC
CONSTANTS a, a2, b, A, B

(* Client b, and clients a and a2, two incarnations of the process that    *)
(* serves under the name A.                                                *)
Restarted == (a :> A) @@ (a2 :> A) @@ (b :> B)

(* b can start and call, whoever serves under A can start, or call without *)
(* having started.                                                         *)
Calls == (a :> 1) @@ (a2 :> 1) @@ (b :> 2)
=============================================================================
