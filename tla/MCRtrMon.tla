------------------------------- MODULE MCRtrMon -------------------------------
(* Instances of RtrMon for TLC. *)
EXTENDS RtrMon

CONSTANTS x, y

MCFetchMax == <<4, 2>>
MCFetchTwice == <<2, 2>>

=============================================================================
