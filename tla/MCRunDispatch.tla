---------------------------- MODULE MCRunDispatch ----------------------------
(* The embedded worker and one CLI worker; a verify with its fan-out beside *)
(* another request.  -9, the code of a killed verifier, counts like 0.      *)
EXTENDS RunDispatch

CONSTANTS embedded, cli
MCShardNames == <<"pytest", "ruff">>
MCCode == {-9, 1}
=============================================================================
