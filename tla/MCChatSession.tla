---------------------------- MODULE MCChatSession ----------------------------
(* Two requests at a time; a creator and two users he may nominate.  Besides *)
(* those of this session, clients have a manifest of when it was frozen.     *)
EXTENDS ChatSession, TLC

CONSTANTS creator, bob, carol, r1, r2
MCManifest == {[host |-> creator, meta |-> {"transfer_frozen"}]}
MCSymmetry == Permutations({bob, carol}) \cup Permutations({r1, r2})
=============================================================================
