------------------------------- MODULE VrpDiff -------------------------------
(***************************************************************************)
(* The two algorithms the RTR server keeps its VRP history with:           *)
(* ComputeDiff and ApplyDiff of lib/server.go.                             *)
(*                                                                         *)
(* A []VRP whose elements have distinct hash keys (prefix, maximum length, *)
(* ASN) is a function from hash keys to the flag the list holds for that   *)
(* key, or Absent.  The order of a list is not observable by the protocol  *)
(* and is left out; the callers never build a list with a repeated key     *)
(* (processData drops duplicates).                                         *)
(***************************************************************************)

CONSTANT Keys          \* the hash keys of the VRPs that can occur

FLAG_ADDED   == "added"
FLAG_REMOVED == "removed"
Absent       == "absent"

VrpList == [Keys -> {FLAG_ADDED, FLAG_REMOVED, Absent}]

\* The empty list.
NoVrps == [k \in Keys |-> Absent]

\* The list a set of VRPs arrives as.  processData leaves the flags unset and
\* ComputeDiff does not look at them; the stored copies have FLAG_ADDED.
AsList(S) == [k \in Keys |-> IF k \in S THEN FLAG_ADDED ELSE Absent]

Announced(list) == {k \in Keys : list[k] = FLAG_ADDED}
Withdrawn(list) == {k \in Keys : list[k] = FLAG_REMOVED}

\* added followed by removed; "unchanged" is only logged by the callers.
ComputeDiff(newVrps, prevVrps) ==
  [k \in Keys |->
     IF newVrps[k] # Absent /\ prevVrps[k] = Absent THEN FLAG_ADDED
     ELSE IF newVrps[k] = Absent /\ prevVrps[k] # Absent THEN FLAG_REMOVED
     ELSE Absent]

\* A plausible slip: an entry that is withdrawn twice is dropped.
ApplyDiffDropsRepeat(diff, prevVrps) ==
  [k \in Keys |->
     IF diff[k] = Absent THEN prevVrps[k]
     ELSE IF diff[k] = FLAG_ADDED THEN FLAG_ADDED
     ELSE Absent]

\* A plausible slip: a withdrawal stays in the list although it cancels an
\* announcement of the previous list.
ApplyDiffKeepsCancelled(diff, prevVrps) ==
  [k \in Keys |-> IF diff[k] = Absent THEN prevVrps[k] ELSE diff[k]]

\* A plausible slip: a new announcement cancels an earlier withdrawal, as a
\* withdrawal cancels an earlier announcement.
ApplyDiffCancelsBoth(diff, prevVrps) ==
  [k \in Keys |->
     IF diff[k] = Absent THEN prevVrps[k]
     ELSE IF prevVrps[k] # Absent /\ prevVrps[k] # diff[k] THEN Absent
     ELSE diff[k]]

\* What is left of prevVrps once the newer diff is applied.  The same code
\* updates the current VRPs (where every flag is FLAG_ADDED) and composes an
\* older diff with the newer one: a withdrawal cancels an announcement of the
\* older list, and an announcement overrides whatever was there.
ApplyDiff(diff, prevVrps) ==
  [k \in Keys |->
     IF diff[k] = Absent THEN prevVrps[k]
     ELSE IF diff[k] = FLAG_REMOVED /\ prevVrps[k] = FLAG_ADDED THEN Absent
     ELSE diff[k]]

\* What a receiver holds once it has processed the prefix PDUs of a list:
\* an announcement stores the entry, a withdrawal deletes it.
Receive(list, held) == (held \cup Announced(list)) \ Withdrawn(list)

\* d leads from the set B towards the set C: it announces only members of C,
\* withdraws only what was in B and is not in C, and whatever of C was not in
\* B is announced.
Delta(d, B, C) ==
  /\ Announced(d) \subseteq C
  /\ Withdrawn(d) \subseteq B \ C
  /\ C \subseteq B \cup Announced(d)

=============================================================================
