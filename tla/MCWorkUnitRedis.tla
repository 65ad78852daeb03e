--------------------------- MODULE MCWorkUnitRedis ---------------------------
(***************************************************************************)
(* One host thread, two operators and two workers of different sessions, so *)
(* that units are pushed back, over two units.                             *)
(***************************************************************************)
EXTENDS WorkUnitRedis, TLC

CONSTANTS w1, w2, s1, s2

MCWorker == {w1, w2}
MCSession == {s1, s2}
MCWorkerSession == (w1 :> s1) @@ (w2 :> AnySession)

\* The operators are interchangeable.
MCSymmetry == Permutations(Operator)
=============================================================================
