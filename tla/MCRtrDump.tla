------------------------------- MODULE MCRtrDump -------------------------------
(* Instances of RtrDump for TLC. *)
EXTENDS RtrDump

V4 == [ip |-> <<192, 0, 2, 0>>, len |-> 24, maxLen |-> 25, asn |-> 65551, flags |-> 1]
V6 == [ip |-> <<32, 1, 13, 184, 0, 1, 0, 0, 0, 0, 0, 0, 0, 0, 0, 0>>,
       len |-> 48, maxLen |-> 64, asn |-> 64496, flags |-> 0]

MCVrps == <<V4, V6>>

=============================================================================
