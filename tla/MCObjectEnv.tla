---------------------------- MODULE MCObjectEnv ----------------------------
EXTENDS ObjectEnv, TLC
CONSTANTS o1, o2, o3, t1, t2, t3

(* Two objects with one name, one with its own.                            *)
Names == (o1 :> "svc1") @@ (o2 :> "svc1") @@ (o3 :> "svc2")
Symmetric == Permutations({t1, t2, t3}) \cup Permutations({o1, o2})
=============================================================================
