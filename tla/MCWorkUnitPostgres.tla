------------------------- MODULE MCWorkUnitPostgres -------------------------
(***************************************************************************)
(* Two workers, one of which polls every session, two operators and two    *)
(* sessions: the smallest instance in which claims race for a row, a       *)
(* session filter excludes a unit, and two restarts of a unit overlap.     *)
(***************************************************************************)
EXTENDS WorkUnitPostgres, TLC

CONSTANTS w1, w2, s1, s2

MCWorker == {w1, w2}
MCSession == {s1, s2}
MCWorkerSession == (w1 :> s1) @@ (w2 :> AnySession)
=============================================================================
