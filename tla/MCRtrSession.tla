----------------------------- MODULE MCRtrSession -----------------------------
(* Instances of RtrSession for TLC. *)
EXTENDS RtrSession, TLC

CONSTANTS x, c1

=============================================================================
