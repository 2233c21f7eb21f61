------------------------------ MODULE ClientList ------------------------------
(***************************************************************************)
(* The list of clients a Server keeps (lib/server.go).                     *)
(***************************************************************************)
EXTENDS Integers, Sequences

\* The loop of ClientDisconnected: the clients other than c, in their order.
Without(s, c) ==
  LET kept[n \in 0 .. Len(s)] ==
        IF n = 0 THEN << >>
        ELSE IF s[n] = c THEN kept[n - 1] ELSE Append(kept[n - 1], s[n])
  IN  kept[Len(s)]

=============================================================================
