-------------------------- MODULE MCCampaignDriver --------------------------
(***************************************************************************)
(* Values of the campaign driver's constants for TLC: a diamond of four    *)
(* slices, so that a failing slice has siblings, ancestors and dependents. *)
(***************************************************************************)
EXTENDS CampaignDriver

MCDependsOn == << <<>>, <<1>>, <<1>>, <<3, 2>> >>

\* The same root with one dependent.
MCPair == << <<>>, <<1>> >>

=============================================================================
