----------------------------- MODULE MCMeshHost -----------------------------
(* Two concurrent dispatches: one shares its two writer stages, of which    *)
(* the cap keeps one; the other's session is host_only.                     *)
EXTENDS MeshHost

CONSTANTS shared, local, implementation, test_writer

MCStages == [d \in Dispatch |->
                IF d = shared THEN {implementation, test_writer}
                              ELSE {implementation}]
MCKept == [d \in Dispatch |-> {implementation}]
MCWorkload == [d \in Dispatch |->
                IF d = shared THEN "auto_share" ELSE "host_only"]
\* Reports with one status; the small runs use all three.
MCReports == {<<"ok", "pass">>, <<"ok", "fail">>}
AllReports == MCReports \cup {<<"failed", "fail">>}
=============================================================================
