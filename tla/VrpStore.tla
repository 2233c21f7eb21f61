------------------------------- MODULE VrpStore -------------------------------
(***************************************************************************)
(* The versioned VRP store of the RTR server (type Server of lib/server.go,*)
(* the fields under vrplock) and the operations that change it: AddVRPs,   *)
(* which stayrtr calls with every new list, and SetSerial.                 *)
(*                                                                         *)
(* AddVRPs takes vrplock three times: a read section computes the          *)
(* difference, a second read section (AddVRPsDiff) applies it to the       *)
(* history and to the current list, a write section stores the result.     *)
(* Each section is one action, so readers interleave with them.  AddVRPs   *)
(* has one caller at a time: stayrtr updates from a single goroutine.      *)
(*                                                                         *)
(* Positions of vrpListDiff and the values of vrpMapSerial are 1-based     *)
(* here and 0-based in the code.  A serial is a uint32 in the code and     *)
(* 0..SerialMax here: adding one wraps.                                    *)
(***************************************************************************)
EXTENDS Integers, Sequences, VrpDiff

CONSTANTS
  SerialMax,       \* the largest serial; math.MaxUint32 in the code
  KeepDiff,        \* keepDiff; stayrtr configures 3
  ManualSerial     \* manualserial; FALSE in stayrtr

\* keepDiff = 0 (keep every difference) is not covered; no window of
\* differences ever spans the whole serial space.
ASSUME StoreAssumption ==
  /\ SerialMax \in Nat
  /\ KeepDiff \in Nat \ {0}
  /\ KeepDiff < SerialMax
  /\ ManualSerial \in BOOLEAN

VARIABLES
  vrpListSerial,     \* the serials of the window, oldest first
  vrpListDiff,       \* [i]: the difference that leads to the current VRPs
  vrpMapSerial,      \* serial -> position in vrpListDiff
  vrpCurrent,
  vrpCurrentSerial,
  adding,            \* how far AddVRPs is: the lock sections it has left
  newVrps,           \* the argument of AddVRPs
  curDiff,           \* its locals
  nextDiff,
  newVrpCurrent,
  curserial,
  published          \* history: the VRPs that each serial was stored with

storeVars == <<vrpListSerial, vrpListDiff, vrpMapSerial, vrpCurrent,
               vrpCurrentSerial, published>>
addVars == <<adding, newVrps, curDiff, nextDiff, newVrpCurrent, curserial>>
vars == <<storeVars, addVars>>

Serial == 0 .. SerialMax

Succ(s) == IF s = SerialMax THEN 0 ELSE s + 1

\* The serial n updates before s.
Back(s, n) == IF s >= n THEN s - n ELSE s - n + SerialMax + 1

\* The serials of the window.
WindowSerials == {vrpListSerial[i] : i \in DOMAIN vrpListSerial}

Init ==
  /\ vrpListSerial = << >>
  /\ vrpListDiff = << >>
  /\ vrpMapSerial = [s \in {} |-> 0]
  /\ vrpCurrent = NoVrps
  /\ vrpCurrentSerial = 0
  /\ adding = "idle"
  /\ newVrps = {}
  /\ curDiff = NoVrps
  /\ nextDiff = << >>
  /\ newVrpCurrent = NoVrps
  /\ curserial = 0
  /\ published = [s \in Serial |-> {}]

-----------------------------------------------------------------------------
(* Readers. *)

GetCurrentVRPs == vrpCurrent

\* GetCurrentSerial's second result: there is data to serve.
HasData == Len(vrpListSerial) > 0

\* GetVRPsSerialDiff's second result.
HasSerialDiff(serial) ==
  serial = vrpCurrentSerial \/ serial \in DOMAIN vrpMapSerial

\* GetVRPsSerialDiff's first result, where the second is true.
GetVRPsSerialDiff(serial) ==
  IF serial = vrpCurrentSerial
  THEN NoVrps
  ELSE vrpListDiff[vrpMapSerial[serial]]

\* The serials a router is given a difference from.
AnswerableSerials == IF HasData THEN {s \in Serial : HasSerialDiff(s)} ELSE {}

-----------------------------------------------------------------------------
(* AddVRPs. *)

\* Slip: the successor of the serial before the last is taken.
generateSerialReuses ==
  IF ~ManualSerial /\ Len(vrpListSerial) > 0
  THEN Succ(vrpListSerial[1])
  ELSE vrpCurrentSerial

generateSerial ==
  IF ~ManualSerial /\ Len(vrpListSerial) > 0
  THEN Succ(vrpListSerial[Len(vrpListSerial)])
  ELSE vrpCurrentSerial

\* Slip: the window is trimmed one entry too far.
removeDiffOffByOne ==
  IF Len(vrpListSerial) >= KeepDiff
  THEN Len(vrpListSerial) - KeepDiff + 1
  ELSE 0

\* How many of the oldest serials addSerial drops before it appends one.
removeDiff ==
  IF Len(vrpListSerial) >= KeepDiff THEN Len(vrpListSerial) - KeepDiff ELSE 0

addSerial(serial) ==
  Append(SubSeq(vrpListSerial, removeDiff + 1, Len(vrpListSerial)), serial)

removedSerials == {vrpListSerial[i] : i \in 1 .. removeDiff}

\* Slip: the positions of the serials that stay are not shifted.
trimmedMapUnshifted(len) ==
  [s \in (DOMAIN vrpMapSerial \cup {curserial}) \ removedSerials |->
     IF s = curserial THEN len ELSE vrpMapSerial[s]]

\* Slip: serials that left the window are not deleted.
trimmedMapUndeleted(len) ==
  [s \in DOMAIN vrpMapSerial \cup {curserial} |->
     IF s = curserial THEN len ELSE vrpMapSerial[s] - removeDiff]

\* The position of the newest difference goes to the serial it starts from;
\* the others move down by what was trimmed; serials out of the window go.
trimmedMap(len) ==
  [s \in (DOMAIN vrpMapSerial \cup {curserial}) \ removedSerials |->
     IF s = curserial THEN len ELSE vrpMapSerial[s] - removeDiff]

trimmedDiff ==
  LET next == Append(nextDiff, curDiff)
  IN  IF Len(next) >= KeepDiff
      THEN SubSeq(next, removeDiff + 1, Len(next))
      ELSE next

\* First read section.  With a manual serial the caller has chosen one that
\* is not in use (SetSerial) before it adds data.
AddVRPs(vrps) ==
  /\ adding = "idle"
  /\ ManualSerial => vrpCurrentSerial \notin WindowSerials
  /\ adding' = "apply"
  /\ newVrps' = vrps
  /\ curDiff' = ComputeDiff(AsList(vrps), vrpCurrent)
  /\ UNCHANGED <<storeVars, nextDiff, newVrpCurrent, curserial>>

\* Second read section, at the start of AddVRPsDiff.
AddVRPsDiffApply ==
  /\ adding = "apply"
  /\ adding' = "store"
  /\ nextDiff' = [i \in 1 .. Len(vrpListDiff) |->
                    ApplyDiff(curDiff, vrpListDiff[i])]
  /\ newVrpCurrent' = ApplyDiff(curDiff, vrpCurrent)
  /\ curserial' = vrpCurrentSerial
  /\ UNCHANGED <<storeVars, newVrps, curDiff>>

\* The write section of AddVRPsDiff.
AddVRPsDiffStore ==
  /\ adding = "store"
  /\ adding' = "idle"
  /\ vrpListSerial' = addSerial(generateSerial)
  /\ vrpListDiff' = trimmedDiff
  /\ vrpMapSerial' = trimmedMap(Len(trimmedDiff))
  /\ vrpCurrent' = newVrpCurrent
  /\ vrpCurrentSerial' = generateSerial
  /\ published' = [published EXCEPT ![generateSerial] = Announced(newVrpCurrent)]
  /\ newVrps' = {}
  /\ curDiff' = NoVrps
  /\ nextDiff' = << >>
  /\ newVrpCurrent' = NoVrps
  /\ curserial' = 0

\* Called as its comment demands, before data is added: once at the start,
\* or, with a manual serial, before every AddVRPs.
SetSerial(serial) ==
  /\ adding = "idle"
  /\ IF ManualSerial THEN serial \notin WindowSerials ELSE vrpListSerial = << >>
  /\ vrpCurrentSerial' = serial
  /\ UNCHANGED <<vrpListSerial, vrpListDiff, vrpMapSerial, vrpCurrent,
                 published, addVars>>

Next ==
  \/ \E vrps \in SUBSET Keys : AddVRPs(vrps)
  \/ AddVRPsDiffApply
  \/ AddVRPsDiffStore
  \/ \E serial \in Serial : SetSerial(serial)

Spec == Init /\ [][Next]_vars

-----------------------------------------------------------------------------
(* Properties. *)

\* Every field of the store, and every local of AddVRPs, holds a value of the
\* type its declaration in lib/server.go gives it.
TypeOK ==
  /\ vrpListSerial \in Seq(Serial)
  /\ vrpListDiff \in Seq(VrpList)
  /\ DOMAIN vrpMapSerial \subseteq Serial
  /\ \A s \in DOMAIN vrpMapSerial : vrpMapSerial[s] \in Int
  /\ vrpCurrent \in VrpList
  /\ vrpCurrentSerial \in Serial
  /\ adding \in {"idle", "apply", "store"}
  /\ newVrps \in SUBSET Keys
  /\ curDiff \in VrpList
  /\ nextDiff \in Seq(VrpList)
  /\ newVrpCurrent \in VrpList
  /\ curserial \in Serial
  /\ published \in [Serial -> SUBSET Keys]

\* The serials GetVRPsSerialDiff answers are exactly the serials of the
\* window, at most KeepDiff updates back from the current one, and each
\* position it looks up is one of vrpListDiff: the trimming and the shifting
\* in addSerial and AddVRPsDiff never leave a stale serial behind, never
\* forget one of the window, and never index out of the list.
WindowExact ==
  HasData =>
    /\ Len(vrpListSerial) <= KeepDiff + 1
    /\ {s \in Serial : HasSerialDiff(s)}
         = {Back(vrpCurrentSerial, n) : n \in 0 .. Len(vrpListSerial) - 1}
    /\ \A s \in DOMAIN vrpMapSerial : vrpMapSerial[s] \in DOMAIN vrpListDiff

\* A router that holds the VRPs of a serial and is given the difference
\* GetVRPsSerialDiff returns for it ends with every current VRP, and with
\* nothing that is neither current nor one it already had.
NoVrpMissed ==
  HasData =>
    \A s \in Serial : HasSerialDiff(s) =>
      LET held == Receive(GetVRPsSerialDiff(s), published[s])
      IN  /\ Announced(vrpCurrent) \subseteq held
          /\ held \subseteq Announced(vrpCurrent) \cup published[s]

\* A difference never withdraws a VRP the router does not hold: the error
\* "withdrawal of unknown record" of the protocol cannot arise.
NoUnknownWithdrawal ==
  HasData =>
    \A s \in Serial : HasSerialDiff(s) =>
      Withdrawn(GetVRPsSerialDiff(s)) \subseteq published[s]

\* A router that is at most two updates behind and is given the difference
\* GetVRPsSerialDiff returns for its serial ends with exactly the current
\* VRPs: composing two differences with ApplyDiff loses nothing.
DeltaExactNear ==
  HasData =>
    \A s \in {Back(vrpCurrentSerial, n) : n \in 0 .. 2} : HasSerialDiff(s) =>
      Receive(GetVRPsSerialDiff(s), published[s]) = Announced(vrpCurrent)

\* A router that holds the VRPs of a serial of the window and is given the
\* difference GetVRPsSerialDiff returns for it ends with exactly the current
\* VRPs (unless the caller has set the serial of an update still to come).
DeltaExact ==
  vrpCurrentSerial \in WindowSerials =>
    \A s \in WindowSerials : HasSerialDiff(s) =>
      Receive(GetVRPsSerialDiff(s), published[s]) = Announced(vrpCurrent)

\* Storing an update never takes the difference away from a router that was
\* up to KeepDiff - 1 updates behind: it can still follow incrementally.
WindowKept ==
  [][\A s \in AnswerableSerials :
       (\E n \in 0 .. KeepDiff - 1 : s = Back(vrpCurrentSerial, n))
         => HasSerialDiff(s)']_storeVars

\* The store implements the versioned cache: the three lock sections of
\* AddVRPs act as one step that makes exactly the given list current, under
\* the next serial, and keeps differences for exactly the last KeepDiff
\* serials.
Cache == INSTANCE VersionedCache WITH
           Data       <- SUBSET Keys,
           InitData   <- {},
           Max        <- SerialMax,
           Keep       <- KeepDiff,
           data       <- Announced(vrpCurrent),
           serial     <- vrpCurrentSerial,
           answerable <- AnswerableSerials,
           pending    <- IF adding = "idle" THEN {} ELSE {newVrps}

\* Updates are atomic and versioned, as VersionedCache states.
ImplementsCache == Cache!CacheSpec

-----------------------------------------------------------------------------
(* The inductive invariant behind the properties, for automatic serials.   *)

\* Serials of the window are consecutive and end with the current one.
SerialsConsecutive ==
  /\ Len(vrpListDiff) = Len(vrpListSerial)
  /\ Len(vrpListSerial) <= KeepDiff + 1
  /\ \A i \in 1 .. Len(vrpListSerial) :
       vrpListSerial[i] = Back(vrpCurrentSerial, Len(vrpListSerial) - i)

\* The serial n back maps to the difference that starts from it.  The first
\* update maps the current serial, which GetVRPsSerialDiff never looks up.
MapPointsAtDiffs ==
  /\ DOMAIN vrpMapSerial \subseteq WindowSerials
  /\ vrpCurrentSerial \in DOMAIN vrpMapSerial =>
       Len(vrpListSerial) = 1 /\ vrpMapSerial[vrpCurrentSerial] = 1
  /\ \A n \in 1 .. Len(vrpListSerial) - 1 :
       /\ Back(vrpCurrentSerial, n) \in DOMAIN vrpMapSerial
       /\ vrpMapSerial[Back(vrpCurrentSerial, n)] = Len(vrpListSerial) - n + 1

\* The stored data: the current list only announces, the history variable
\* agrees with it, and each difference leads from where it starts.
DiffsLeadToCurrent ==
  /\ Withdrawn(vrpCurrent) = {}
  /\ Len(vrpListSerial) > 0 =>
       published[vrpCurrentSerial] = Announced(vrpCurrent)
  /\ \A n \in 1 .. Len(vrpListSerial) - 1 :
       Delta(vrpListDiff[Len(vrpListSerial) - n + 1],
             published[Back(vrpCurrentSerial, n)], Announced(vrpCurrent))

\* The locals of a running AddVRPs still describe the store: nothing changes
\* it between the lock sections.
LocalsFresh ==
  /\ adding # "idle" => curDiff = ComputeDiff(AsList(newVrps), vrpCurrent)
  /\ adding = "store" =>
       /\ nextDiff = [i \in 1 .. Len(vrpListDiff) |->
                        ApplyDiff(curDiff, vrpListDiff[i])]
       /\ newVrpCurrent = AsList(newVrps)
       /\ curserial = vrpCurrentSerial

\* The store is consistent: window, map, differences and the locals of a
\* running AddVRPs all agree.
StoreInv ==
  /\ TypeOK
  /\ SerialsConsecutive
  /\ MapPointsAtDiffs
  /\ DiffsLeadToCurrent
  /\ LocalsFresh

=============================================================================
