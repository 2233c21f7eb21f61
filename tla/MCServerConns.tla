----------------------------- MODULE MCServerConns -----------------------------
(* Instances of ServerConns for TLC. *)
EXTENDS ServerConns

CONSTANTS t, s

=============================================================================
