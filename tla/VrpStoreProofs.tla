---------------------------- MODULE VrpStoreProofs ----------------------------
(***************************************************************************)
(* What ComputeDiff and ApplyDiff do to any two lists of VRPs; and then:   *)
(* the store keeps its window, its map and its differences consistent, for *)
(* every set of VRPs, every KeepDiff and every serial space larger than    *)
(* the window, as long as the store numbers the updates itself             *)
(* (~ManualSerial, which is how stayrtr runs it).                          *)
(***************************************************************************)
EXTENDS VrpStore, TLAPS

-----------------------------------------------------------------------------
(* ComputeDiff and ApplyDiff. *)

\* ComputeDiff, ApplyDiff and the list of a set are VRP lists.
LEMMA DiffTypes ==
  /\ NoVrps \in VrpList
  /\ \A S : AsList(S) \in VrpList
  /\ \A a, b : ComputeDiff(a, b) \in VrpList
  /\ \A a, b \in VrpList : ApplyDiff(a, b) \in VrpList
PROOF
  BY DEF NoVrps, AsList, ComputeDiff, ApplyDiff, VrpList, FLAG_ADDED,
         FLAG_REMOVED, Absent

\* A set of VRPs and the list it arrives as determine each other.
LEMMA AnnouncedAsList ==
  ASSUME NEW S \in SUBSET Keys
  PROVE  Announced(AsList(S)) = S /\ Withdrawn(AsList(S)) = {}
PROOF
  BY Zenon DEF Announced, Withdrawn, AsList, FLAG_ADDED, FLAG_REMOVED, Absent

\* A list that only announces is the list of the VRPs it announces.
LEMMA OnlyAnnounces ==
  ASSUME NEW list \in VrpList, Withdrawn(list) = {}
  PROVE  list = AsList(Announced(list))
PROOF
  <1>1. list = [k \in Keys |-> list[k]]
    BY DEF VrpList
  <1>2. ASSUME NEW k \in Keys
        PROVE  list[k] = IF k \in Announced(list) THEN FLAG_ADDED ELSE Absent
    BY DEF VrpList, Announced, Withdrawn
  <1> QED
    BY <1>1, <1>2, Zenon DEF AsList

\* Applying the difference between two lists to the older one gives the newer
\* one: what AddVRPs stores is the list it was called with.
THEOREM ApplyComputedDiff ==
  ASSUME NEW S \in SUBSET Keys, NEW prev \in VrpList, Withdrawn(prev) = {}
  PROVE  ApplyDiff(ComputeDiff(AsList(S), prev), prev) = AsList(S)
PROOF
  <1> DEFINE d == ComputeDiff(AsList(S), prev)
  <1>1. ASSUME NEW k \in Keys
        PROVE  ApplyDiff(d, prev)[k] = AsList(S)[k]
    BY DEF ApplyDiff, ComputeDiff, AsList, VrpList, Withdrawn, FLAG_ADDED,
           FLAG_REMOVED, Absent
  <1>2. /\ ApplyDiff(d, prev) = [k \in Keys |-> ApplyDiff(d, prev)[k]]
        /\ AsList(S) = [k \in Keys |-> AsList(S)[k]]
    BY DEF ApplyDiff, AsList
  <1> HIDE DEF d
  <1> QED
    BY <1>1, <1>2, Zenon DEF d

\* The difference between two sets leads from the one to the other.
LEMMA ComputedDelta ==
  ASSUME NEW B \in SUBSET Keys, NEW C \in SUBSET Keys
  PROVE  Delta(ComputeDiff(AsList(C), AsList(B)), B, C)
PROOF
  BY Zenon DEF Delta, ComputeDiff, AsList, Announced, Withdrawn, FLAG_ADDED,
         FLAG_REMOVED, Absent

\* Applying a newer difference to an older one keeps what matters: the result
\* leads from where the older one started towards where the newer one ends.
THEOREM ComposedDelta ==
  ASSUME NEW B \in SUBSET Keys, NEW C \in SUBSET Keys, NEW D \in SUBSET Keys,
         NEW d \in VrpList, Delta(d, B, C)
  PROVE  Delta(ApplyDiff(ComputeDiff(AsList(D), AsList(C)), d), B, D)
PROOF
  <1> DEFINE e == ComputeDiff(AsList(D), AsList(C))
             c == ApplyDiff(e, d)
  <1>1. ASSUME NEW k \in Keys
        PROVE  e[k] = IF k \in D /\ k \notin C THEN FLAG_ADDED
                      ELSE IF k \notin D /\ k \in C THEN FLAG_REMOVED
                      ELSE Absent
    BY DEF ComputeDiff, AsList, FLAG_ADDED, FLAG_REMOVED, Absent
  <1>2. ASSUME NEW k \in Keys
        PROVE  c[k] = IF e[k] = Absent THEN d[k]
                      ELSE IF e[k] = FLAG_REMOVED /\ d[k] = FLAG_ADDED THEN Absent
                      ELSE e[k]
    BY DEF ApplyDiff
  <1>3. ASSUME NEW k \in Keys
        PROVE  /\ c[k] = FLAG_ADDED => k \in D
               /\ c[k] = FLAG_REMOVED => k \in B /\ k \notin D
               /\ k \in D => k \in B \/ c[k] = FLAG_ADDED
    <2> HIDE DEF e, c
    <2> QED
      BY <1>1, <1>2 DEF Delta, Announced, Withdrawn, VrpList, FLAG_ADDED,
                        FLAG_REMOVED, Absent
  <1> HIDE DEF c
  <1> QED
    BY <1>3 DEF Delta, Announced, Withdrawn, c

\* A receiver that holds the set a difference starts from ends with all of the
\* set it leads to, and with nothing that is in neither.
THEOREM DeltaReceived ==
  ASSUME NEW B \in SUBSET Keys, NEW C \in SUBSET Keys, NEW d, Delta(d, B, C)
  PROVE  C \subseteq Receive(d, B) /\ Receive(d, B) \subseteq C \cup B
PROOF
  BY DEF Delta, Receive

\* One difference, or two of them composed, lead a receiver exactly to the
\* newest set.
THEOREM TwoDiffsExact ==
  ASSUME NEW A \in SUBSET Keys, NEW B \in SUBSET Keys, NEW C \in SUBSET Keys
  PROVE  /\ Receive(ComputeDiff(AsList(B), AsList(A)), A) = B
         /\ Receive(ApplyDiff(ComputeDiff(AsList(C), AsList(B)),
                              ComputeDiff(AsList(B), AsList(A))), A) = C
PROOF
  <1>1. ASSUME NEW X \in SUBSET Keys, NEW Y \in SUBSET Keys, NEW k \in Keys
        PROVE  ComputeDiff(AsList(Y), AsList(X))[k]
                 = IF k \in Y /\ k \notin X THEN FLAG_ADDED
                   ELSE IF k \notin Y /\ k \in X THEN FLAG_REMOVED
                   ELSE Absent
    BY DEF ComputeDiff, AsList, FLAG_ADDED, FLAG_REMOVED, Absent
  <1>2. Receive(ComputeDiff(AsList(B), AsList(A)), A) = B
    BY <1>1 DEF Receive, Announced, Withdrawn, FLAG_ADDED, FLAG_REMOVED, Absent
  <1>3. PICK d, e : /\ d = ComputeDiff(AsList(B), AsList(A))
                    /\ e = ComputeDiff(AsList(C), AsList(B))
    OBVIOUS
  <1>4. ASSUME NEW k \in Keys
        PROVE  /\ ApplyDiff(e, d)[k] = FLAG_ADDED => k \in C
               /\ ApplyDiff(e, d)[k] = FLAG_REMOVED => k \notin C
               /\ k \in C => k \in A \/ ApplyDiff(e, d)[k] = FLAG_ADDED
               /\ k \in A /\ k \notin C => ApplyDiff(e, d)[k] = FLAG_REMOVED
    <2>1. /\ d[k] = IF k \in B /\ k \notin A THEN FLAG_ADDED
                    ELSE IF k \notin B /\ k \in A THEN FLAG_REMOVED ELSE Absent
          /\ e[k] = IF k \in C /\ k \notin B THEN FLAG_ADDED
                    ELSE IF k \notin C /\ k \in B THEN FLAG_REMOVED ELSE Absent
      BY <1>1, <1>3
    <2> QED
      BY <2>1 DEF ApplyDiff, FLAG_ADDED, FLAG_REMOVED, Absent
  <1>5. Receive(ApplyDiff(e, d), A) = C
    BY <1>4 DEF Receive, Announced, Withdrawn, FLAG_ADDED, FLAG_REMOVED
  <1> QED
    BY <1>2, <1>3, <1>5

-----------------------------------------------------------------------------
(* Serial arithmetic. *)

\* Stepping back from a serial stays in the serial space, and distinct
\* distances below the size of the space give distinct serials.
LEMMA BackSerial ==
  ASSUME NEW s \in Serial, NEW n \in 0 .. SerialMax
  PROVE  /\ Back(s, n) \in Serial
         /\ Back(s, 0) = s
         /\ \A m \in 0 .. SerialMax : Back(s, m) = Back(s, n) => m = n
PROOF
  BY StoreAssumption DEF Back, Serial

\* One step back from the successor of a serial is the serial.
LEMMA BackSucc ==
  ASSUME NEW s \in Serial, NEW n \in 1 .. SerialMax
  PROVE  Succ(s) \in Serial /\ Back(Succ(s), n) = Back(s, n - 1)
PROOF
  BY StoreAssumption DEF Back, Serial, Succ

-----------------------------------------------------------------------------

\* The store starts consistent.
LEMMA InitInv == Init => StoreInv
PROOF
  <1> SUFFICES ASSUME Init PROVE StoreInv
    OBVIOUS
  <1> USE DEF Init
  <1>1. TypeOK
    BY StoreAssumption, DiffTypes DEF TypeOK, Serial
  <1>2. SerialsConsecutive
    BY StoreAssumption DEF SerialsConsecutive
  <1>3. MapPointsAtDiffs
    BY DEF MapPointsAtDiffs
  <1>4. DiffsLeadToCurrent
    BY DEF DiffsLeadToCurrent, Withdrawn, NoVrps, FLAG_REMOVED, Absent
  <1>5. LocalsFresh
    BY DEF LocalsFresh
  <1> QED
    BY <1>1, <1>2, <1>3, <1>4, <1>5 DEF StoreInv

\* The first read section of AddVRPs keeps the store consistent.
LEMMA AddVRPsInv ==
  ASSUME NEW vrps \in SUBSET Keys, StoreInv, AddVRPs(vrps)
  PROVE  StoreInv'
PROOF
  <1> USE DEF StoreInv, AddVRPs, storeVars
  <1>1. TypeOK'
    BY DiffTypes DEF TypeOK
  <1>2. SerialsConsecutive'
    BY DEF SerialsConsecutive
  <1>3. MapPointsAtDiffs'
    BY DEF MapPointsAtDiffs, WindowSerials
  <1>4. DiffsLeadToCurrent'
    BY DEF DiffsLeadToCurrent
  <1>5. LocalsFresh'
    BY DEF LocalsFresh
  <1> QED
    BY <1>1, <1>2, <1>3, <1>4, <1>5

\* The second read section keeps the store consistent.
LEMMA AddVRPsDiffApplyInv ==
  ASSUME StoreInv, AddVRPsDiffApply
  PROVE  StoreInv'
PROOF
  <1> USE DEF StoreInv, AddVRPsDiffApply, storeVars
  <1>1. TypeOK'
    <2>1. nextDiff' \in Seq(VrpList)
      BY DiffTypes DEF TypeOK
    <2>2. newVrpCurrent' \in VrpList
      BY DiffTypes DEF TypeOK
    <2> QED
      BY <2>1, <2>2 DEF TypeOK
  <1>2. SerialsConsecutive'
    BY DEF SerialsConsecutive
  <1>3. MapPointsAtDiffs'
    BY DEF MapPointsAtDiffs, WindowSerials
  <1>4. DiffsLeadToCurrent'
    BY DEF DiffsLeadToCurrent
  <1>5. LocalsFresh'
    <2>1. newVrpCurrent' = AsList(newVrps)
      BY ApplyComputedDiff, Zenon DEF LocalsFresh, TypeOK, DiffsLeadToCurrent
    <2> QED
      BY <2>1 DEF LocalsFresh
  <1> QED
    BY <1>1, <1>2, <1>3, <1>4, <1>5

\* Choosing the serial of the first update keeps the store consistent.
LEMMA SetSerialInv ==
  ASSUME NEW serial \in Serial, ~ManualSerial, StoreInv, SetSerial(serial)
  PROVE  StoreInv'
PROOF
  <1> USE DEF StoreInv, SetSerial, addVars
  <1>1. TypeOK'
    BY DEF TypeOK
  <1>2. SerialsConsecutive'
    BY DEF SerialsConsecutive
  <1>3. MapPointsAtDiffs'
    BY DEF MapPointsAtDiffs, WindowSerials
  <1>4. DiffsLeadToCurrent'
    BY DEF DiffsLeadToCurrent
  <1>5. LocalsFresh'
    BY DEF LocalsFresh
  <1> QED
    BY <1>1, <1>2, <1>3, <1>4, <1>5

-----------------------------------------------------------------------------
(* The write section of AddVRPsDiff. *)

\* How long the window is and which serial is next.
LEMMA TrimArith ==
  ASSUME StoreInv, ~ManualSerial
  PROVE  /\ Len(vrpListSerial) \in Nat
         /\ removeDiff \in {0, 1}
         /\ removeDiff = 1 => Len(vrpListSerial) = KeepDiff + 1
         /\ removeDiff = 0 => Len(vrpListSerial) <= KeepDiff
         /\ removeDiff <= Len(vrpListSerial)
         /\ generateSerial \in Serial
         /\ Len(vrpListSerial) = 0 => generateSerial = vrpCurrentSerial
         /\ Len(vrpListSerial) > 0 => generateSerial = Succ(vrpCurrentSerial)
PROOF
  <1>1. Len(vrpListSerial) \in Nat /\ Len(vrpListSerial) <= KeepDiff + 1
    BY DEF StoreInv, TypeOK, SerialsConsecutive
  <1>2. vrpCurrentSerial \in Serial
    BY DEF StoreInv, TypeOK
  <1>3. Len(vrpListSerial) > 0 =>
          vrpListSerial[Len(vrpListSerial)] = vrpCurrentSerial
    <2> SUFFICES ASSUME Len(vrpListSerial) > 0
                 PROVE  vrpListSerial[Len(vrpListSerial)] = vrpCurrentSerial
      OBVIOUS
    <2>1. vrpListSerial[Len(vrpListSerial)] = Back(vrpCurrentSerial, 0)
      BY <1>1 DEF StoreInv, SerialsConsecutive
    <2>2. Back(vrpCurrentSerial, 0) = vrpCurrentSerial
      BY <1>2 DEF Back, Serial
    <2> QED
      BY <2>1, <2>2
  <1>4. Succ(vrpCurrentSerial) \in Serial
    BY <1>2, StoreAssumption DEF Succ, Serial
  <1> QED
    BY <1>1, <1>2, <1>3, <1>4, StoreAssumption DEF removeDiff, generateSerial

\* The window after the step: the old one without the trimmed serials, then
\* the new serial.
LEMMA StoredSerials ==
  ASSUME StoreInv, ~ManualSerial, AddVRPsDiffStore
  PROVE  /\ vrpListSerial' \in Seq(Serial)
         /\ Len(vrpListSerial') = Len(vrpListSerial) - removeDiff + 1
         /\ vrpListSerial'[Len(vrpListSerial')] = generateSerial
         /\ \A i \in 1 .. Len(vrpListSerial') - 1 :
              vrpListSerial'[i] = vrpListSerial[i + removeDiff]
PROOF
  <1> DEFINE L == Len(vrpListSerial)
             r == removeDiff
             kept == SubSeq(vrpListSerial, r + 1, L)
  <1>1. L \in Nat /\ r \in Nat /\ r <= L /\ generateSerial \in Serial
    BY TrimArith
  <1>2. vrpListSerial \in Seq(Serial)
    BY DEF StoreInv, TypeOK
  <1> HIDE DEF r
  <1>3. /\ kept \in Seq(Serial)
        /\ Len(kept) = L - r
        /\ \A i \in 1 .. L - r : kept[i] = vrpListSerial[i + r]
    BY <1>1, <1>2
  <1>4. vrpListSerial' = Append(kept, generateSerial)
    BY DEF AddVRPsDiffStore, addSerial, r
  <1> HIDE DEF kept, L
  <1>5. /\ vrpListSerial' \in Seq(Serial)
        /\ Len(vrpListSerial') = L - r + 1
        /\ vrpListSerial'[L - r + 1] = generateSerial
    BY <1>1, <1>3, <1>4
  <1>6. ASSUME NEW i \in 1 .. L - r
        PROVE  vrpListSerial'[i] = vrpListSerial[i + r]
    BY <1>1, <1>3, <1>4
  <1> QED
    BY <1>1, <1>5, <1>6 DEF r, L

\* The differences after the step: the composed ones without the trimmed,
\* then the newest.
LEMMA StoredDiffs ==
  ASSUME StoreInv, ~ManualSerial, AddVRPsDiffStore
  PROVE  /\ vrpListDiff' \in Seq(VrpList)
         /\ Len(vrpListDiff') = Len(vrpListSerial) - removeDiff + 1
         /\ vrpListDiff'[Len(vrpListDiff')] = curDiff
         /\ \A i \in 1 .. Len(vrpListDiff') - 1 :
              vrpListDiff'[i] = ApplyDiff(curDiff, vrpListDiff[i + removeDiff])
PROOF
  <1> DEFINE L == Len(vrpListSerial)
             r == removeDiff
             next == Append(nextDiff, curDiff)
  <1>1. /\ L \in Nat /\ r \in {0, 1} /\ r <= L
        /\ r = 1 => L = KeepDiff + 1
    BY TrimArith
  <1>2. /\ nextDiff \in Seq(VrpList) /\ curDiff \in VrpList
        /\ Len(nextDiff) = L
        /\ \A i \in 1 .. L : nextDiff[i] = ApplyDiff(curDiff, vrpListDiff[i])
    BY <1>1 DEF StoreInv, TypeOK, SerialsConsecutive, LocalsFresh, AddVRPsDiffStore
  <1> HIDE DEF r, L
  <1>3. /\ next \in Seq(VrpList) /\ Len(next) = L + 1 /\ next[L + 1] = curDiff
        /\ \A i \in 1 .. L : next[i] = nextDiff[i]
    BY <1>1, <1>2
  <1> HIDE DEF next
  <1>4. vrpListDiff' = SubSeq(next, r + 1, L + 1)
    <2>1. vrpListDiff' = IF Len(next) >= KeepDiff
                         THEN SubSeq(next, r + 1, Len(next)) ELSE next
      BY DEF AddVRPsDiffStore, trimmedDiff, next, r
    <2>2. CASE Len(next) >= KeepDiff
      BY <2>1, <2>2, <1>3, Zenon
    <2>3. CASE ~(Len(next) >= KeepDiff)
      <3>1. r = 0
        BY <2>3, <1>1, <1>3, StoreAssumption
      <3>2. next = SubSeq(next, 1, Len(next))
        BY <1>3
      <3> QED
        BY <2>1, <2>3, <3>1, <3>2, <1>3
    <2> QED
      BY <2>2, <2>3
  <1>5. /\ vrpListDiff' \in Seq(VrpList)
        /\ Len(vrpListDiff') = L - r + 1
        /\ \A i \in 1 .. L - r + 1 : vrpListDiff'[i] = next[i + r]
    BY <1>1, <1>3, <1>4
  <1>6. vrpListDiff'[L - r + 1] = curDiff
    BY <1>1, <1>3, <1>5
  <1>7. ASSUME NEW i \in 1 .. L - r
        PROVE  vrpListDiff'[i] = ApplyDiff(curDiff, vrpListDiff[i + r])
    BY <1>1, <1>2, <1>3, <1>5
  <1> QED
    BY <1>1, <1>5, <1>6, <1>7 DEF r, L

\* The serial that was n - 1 back is n back after the step.
LEMMA StoredBack ==
  ASSUME StoreInv, ~ManualSerial, AddVRPsDiffStore,
         NEW n \in 1 .. Len(vrpListSerial) - removeDiff
  PROVE  /\ vrpCurrentSerial' = Succ(vrpCurrentSerial)
         /\ Back(vrpCurrentSerial', n) = Back(vrpCurrentSerial, n - 1)
         /\ Back(vrpCurrentSerial', n) \in Serial
         /\ n \in 1 .. SerialMax
PROOF
  <1>1. Len(vrpListSerial) > 0 /\ n \in 1 .. SerialMax /\ n - 1 \in 0 .. SerialMax
    BY TrimArith, StoreAssumption
  <1>2. vrpCurrentSerial' = Succ(vrpCurrentSerial)
    BY <1>1, TrimArith DEF AddVRPsDiffStore
  <1>3. vrpCurrentSerial \in Serial
    BY DEF StoreInv, TypeOK
  <1> QED
    BY <1>1, <1>2, <1>3, BackSucc, BackSerial

\* The window stays consecutive.
LEMMA StoredConsecutive ==
  ASSUME StoreInv, ~ManualSerial, AddVRPsDiffStore
  PROVE  SerialsConsecutive'
PROOF
  <1> DEFINE L == Len(vrpListSerial)
             r == removeDiff
  <1>1. L \in Nat /\ r \in {0, 1} /\ r <= L /\ L - r + 1 <= KeepDiff + 1
    BY TrimArith, StoreAssumption
  <1>2. Len(vrpListDiff') = L - r + 1 /\ Len(vrpListSerial') = L - r + 1
    BY StoredSerials, StoredDiffs
  <1>3. vrpCurrentSerial' = generateSerial /\ generateSerial \in Serial
    BY TrimArith DEF AddVRPsDiffStore
  <1>4. vrpListSerial'[L - r + 1] = Back(vrpCurrentSerial', 0)
    BY <1>2, <1>3, StoredSerials DEF Back, Serial
  <1>5. ASSUME NEW i \in 1 .. L - r
        PROVE  vrpListSerial'[i] = Back(vrpCurrentSerial', L - r + 1 - i)
    <2>1. vrpListSerial'[i] = vrpListSerial[i + r]
      BY <1>1, <1>2, StoredSerials
    <2>2. i + r \in 1 .. L
      BY <1>1
    <2>3. vrpListSerial[i + r] = Back(vrpCurrentSerial, L - (i + r))
      BY <2>2 DEF StoreInv, SerialsConsecutive
    <2>4. L - r + 1 - i \in 1 .. L - r /\ (L - r + 1 - i) - 1 = L - (i + r)
      BY <1>1
    <2>5. Back(vrpCurrentSerial', L - r + 1 - i) = Back(vrpCurrentSerial, L - (i + r))
      BY <2>4, StoredBack
    <2> QED
      BY <2>1, <2>3, <2>5
  <1> HIDE DEF L, r
  <1>6. ASSUME NEW i \in 1 .. L - r + 1
        PROVE  vrpListSerial'[i] = Back(vrpCurrentSerial', L - r + 1 - i)
    <2>1. CASE i = L - r + 1
      BY <2>1, <1>1, <1>4
    <2>2. CASE i # L - r + 1
      BY <2>2, <1>1, <1>5
    <2> QED
      BY <2>1, <2>2
  <1> QED
    BY <1>1, <1>2, <1>6 DEF SerialsConsecutive

\* The map keeps pointing at the differences that start from its serials.
LEMMA StoredMap ==
  ASSUME StoreInv, ~ManualSerial, AddVRPsDiffStore
  PROVE  MapPointsAtDiffs'
PROOF
  <1> DEFINE L == Len(vrpListSerial)
             r == removeDiff
             c == vrpCurrentSerial
  <1>1. /\ L \in Nat /\ r \in {0, 1} /\ r <= L /\ L <= SerialMax
        /\ r = 1 => L >= 2
        /\ SerialMax \in Nat
    BY TrimArith, StoreAssumption
  <1>2. c \in Serial /\ \A i \in 1 .. L : vrpListSerial[i] = Back(c, L - i)
    BY DEF StoreInv, TypeOK, SerialsConsecutive
  <1>3. /\ Len(vrpListSerial') = L - r + 1
        /\ Len(vrpListDiff') = L - r + 1
    BY StoredSerials, StoredDiffs
  <1>4. /\ DOMAIN vrpMapSerial' = (DOMAIN vrpMapSerial \cup {c}) \ removedSerials
        /\ \A s \in DOMAIN vrpMapSerial' :
             vrpMapSerial'[s] = IF s = c THEN L - r + 1 ELSE vrpMapSerial[s] - r
    <2>1. Len(trimmedDiff) = L - r + 1
      BY <1>3 DEF AddVRPsDiffStore
    <2>2. curserial = c
      BY DEF StoreInv, LocalsFresh, AddVRPsDiffStore
    <2> QED
      BY <2>1, <2>2 DEF AddVRPsDiffStore, trimmedMap
  <1>5. L > 0 => c = vrpListSerial[L] /\ vrpCurrentSerial' = Succ(c)
    <2>1. L > 0 => c = vrpListSerial[L]
      <3>1. L > 0 => vrpListSerial[L] = Back(c, 0)
        BY <1>1, <1>2
      <3>2. Back(c, 0) = c
        BY <1>2 DEF Back, Serial
      <3> QED
        BY <3>1, <3>2
    <2>2. L > 0 => generateSerial = Succ(c)
      BY TrimArith
    <2>3. vrpCurrentSerial' = generateSerial
      BY DEF AddVRPsDiffStore
    <2> QED
      BY <2>1, <2>2, <2>3
  <1>6. DOMAIN vrpMapSerial \subseteq WindowSerials
    BY DEF StoreInv, MapPointsAtDiffs
  <1>7. WindowSerials = {vrpListSerial[i] : i \in 1 .. L}
    BY DEF WindowSerials, StoreInv, TypeOK
  <1>8. WindowSerials' = {vrpListSerial'[i] : i \in 1 .. L - r + 1}
    BY <1>3, StoredSerials DEF WindowSerials
  <1>9. ASSUME L = 0
        PROVE  /\ DOMAIN vrpMapSerial = {} /\ r = 0 /\ vrpCurrentSerial' = c
               /\ vrpListSerial'[1] = c
    <2>1. generateSerial = c /\ vrpCurrentSerial' = c
      BY <1>9, TrimArith DEF AddVRPsDiffStore
    <2>2. r = 0 /\ Len(vrpListSerial') = 1
      BY <1>9, <1>1, <1>3
    <2>3. vrpListSerial'[1] = c
      BY <2>1, <2>2, StoredSerials
    <2>4. WindowSerials = {}
      BY <1>9, <1>7
    <2> QED
      BY <2>1, <2>2, <2>3, <2>4, <1>6, Zenon
  <1>10. DOMAIN vrpMapSerial' \subseteq WindowSerials'
    <2> SUFFICES ASSUME NEW s \in DOMAIN vrpMapSerial' PROVE s \in WindowSerials'
      OBVIOUS
    <2>1. CASE L = 0
      BY <2>1, <1>4, <1>8, <1>9
    <2>2. CASE L > 0
      <3>1. PICK j \in 1 .. L : s = vrpListSerial[j]
        BY <2>2, <1>1, <1>4, <1>5, <1>6, <1>7
      <3>2. j > r
        BY <3>1, <1>1, <1>4 DEF removedSerials
      <3>3. vrpListSerial'[j - r] = vrpListSerial[(j - r) + r]
        BY <3>2, <1>1, <1>3, StoredSerials
      <3> QED
        BY <3>1, <3>2, <3>3, <1>1, <1>8
    <2> QED
      BY <2>1, <2>2, <1>1
  <1>11. ASSUME L > 0, NEW m \in 0 .. L - 1
         PROVE  Back(c, m) # vrpCurrentSerial'
    <2>1. Back(Succ(c), m + 1) = Back(c, (m + 1) - 1) /\ Succ(c) \in Serial
      BY <1>11, <1>1, <1>2, BackSucc
    <2>2. Back(Succ(c), 0) = Succ(c) /\ Back(Succ(c), m + 1) # Back(Succ(c), 0)
      BY <2>1, <1>11, <1>1, BackSerial
    <2> QED
      BY <2>1, <2>2, <1>1, <1>5, <1>11
  <1>12. vrpCurrentSerial' \in DOMAIN vrpMapSerial' =>
           L - r + 1 = 1 /\ vrpMapSerial'[vrpCurrentSerial'] = 1
    <2>1. CASE L = 0
      BY <2>1, <1>4, <1>9
    <2>2. CASE L > 0
      <3>1. vrpCurrentSerial' \notin WindowSerials
        <4> SUFFICES ASSUME NEW j \in 1 .. L PROVE vrpListSerial[j] # vrpCurrentSerial'
          BY <1>7
        <4>1. L - j \in 0 .. L - 1
          BY <1>1
        <4> QED
          BY <4>1, <2>2, <1>2, <1>11
      <3>2. c \in WindowSerials
        BY <2>2, <1>1, <1>5, <1>7
      <3> QED
        BY <3>1, <3>2, <1>4, <1>6
    <2> QED
      BY <2>1, <2>2, <1>1
  <1>13. ASSUME NEW n \in 1 .. L - r
         PROVE  /\ Back(vrpCurrentSerial', n) \in DOMAIN vrpMapSerial'
                /\ vrpMapSerial'[Back(vrpCurrentSerial', n)] = L - r + 1 - n + 1
    <2>1. Back(vrpCurrentSerial', n) = Back(c, n - 1)
      BY StoredBack
    <2>2. n - 1 \in 0 .. L - r - 1 /\ L > 0
      BY <1>1
    <2>3. Back(c, n - 1) \notin removedSerials
      <3>1. ASSUME NEW i \in 1 .. r PROVE vrpListSerial[i] # Back(c, n - 1)
        <4>1. r = 1 /\ i = 1 /\ vrpListSerial[i] = Back(c, L - 1)
          BY <3>1, <1>1, <1>2
        <4>2. L - 1 \in 0 .. SerialMax /\ n - 1 \in 0 .. SerialMax /\ n - 1 # L - 1
          BY <4>1, <2>2, <1>1
        <4> QED
          BY <4>1, <4>2, <1>2, BackSerial
      <3> QED
        BY <3>1 DEF removedSerials
    <2>4. CASE n = 1
      <3>1. Back(c, n - 1) = c
        BY <2>4, <1>2, <1>1, BackSerial
      <3> QED
        BY <3>1, <2>1, <2>3, <2>4, <1>1, <1>4
    <2>5. CASE n > 1
      <3>1. n - 1 \in 1 .. L - 1
        BY <2>5, <2>2, <1>1
      <3>2. /\ Back(c, n - 1) \in DOMAIN vrpMapSerial
            /\ vrpMapSerial[Back(c, n - 1)] = L - (n - 1) + 1
        BY <3>1 DEF StoreInv, MapPointsAtDiffs
      <3>3. Back(c, n - 1) # c
        <4>1. n - 1 \in 0 .. SerialMax /\ 0 \in 0 .. SerialMax /\ n - 1 # 0
          BY <3>1, <1>1
        <4> QED
          BY <4>1, <1>2, BackSerial
      <3> QED
        BY <3>1, <3>2, <3>3, <2>1, <2>3, <1>1, <1>4
    <2> QED
      BY <2>4, <2>5
  <1> HIDE DEF L, r, c
  <1>14. \A n \in 1 .. Len(vrpListSerial') - 1 :
           /\ Back(vrpCurrentSerial', n) \in DOMAIN vrpMapSerial'
           /\ vrpMapSerial'[Back(vrpCurrentSerial', n)] = Len(vrpListSerial') - n + 1
    BY <1>1, <1>3, <1>13
  <1> QED
    BY <1>3, <1>10, <1>12, <1>14 DEF MapPointsAtDiffs

\* Every difference leads from where it starts to the new current VRPs.
LEMMA StoredDeltas ==
  ASSUME StoreInv, ~ManualSerial, AddVRPsDiffStore
  PROVE  DiffsLeadToCurrent'
PROOF
  <1> DEFINE L == Len(vrpListSerial)
             r == removeDiff
             c == vrpCurrentSerial
             C == Announced(vrpCurrent)
             D == newVrps
  <1>1. L \in Nat /\ r \in {0, 1} /\ r <= L /\ SerialMax \in Nat
    BY TrimArith, StoreAssumption
  <1>2. c \in Serial /\ C \in SUBSET Keys /\ D \in SUBSET Keys
    BY DEF StoreInv, TypeOK, Announced
  <1>3. vrpCurrent = AsList(C)
    BY OnlyAnnounces DEF StoreInv, TypeOK, DiffsLeadToCurrent
  <1>4. curDiff = ComputeDiff(AsList(D), AsList(C)) /\ vrpCurrent' = AsList(D)
    BY <1>3 DEF StoreInv, LocalsFresh, AddVRPsDiffStore
  <1>5. Announced(vrpCurrent') = D /\ Withdrawn(vrpCurrent') = {}
    BY <1>2, <1>4, AnnouncedAsList
  <1>6. /\ vrpCurrentSerial' \in Serial
        /\ published' = [published EXCEPT ![vrpCurrentSerial'] = D]
        /\ published \in [Serial -> SUBSET Keys]
    BY <1>2, <1>4, <1>5, TrimArith DEF StoreInv, TypeOK, AddVRPsDiffStore
  <1>7. Len(vrpListSerial') = L - r + 1 /\ Len(vrpListDiff') = L - r + 1
    BY StoredSerials, StoredDiffs
  <1>8. ASSUME NEW n \in 1 .. L - r
        PROVE  Delta(vrpListDiff'[L - r + 1 - n + 1],
                     published'[Back(vrpCurrentSerial', n)], D)
    <2>1. /\ Back(vrpCurrentSerial', n) = Back(c, n - 1)
          /\ Back(vrpCurrentSerial', n) \in Serial
          /\ n \in 0 .. SerialMax /\ n # 0
      BY <1>1, StoredBack
    <2>2. Back(vrpCurrentSerial', n) # vrpCurrentSerial'
      <3>1. Back(vrpCurrentSerial', 0) = vrpCurrentSerial' /\ 0 \in 0 .. SerialMax
        BY <1>1, <1>6, BackSerial
      <3> QED
        BY <3>1, <2>1, <1>6, BackSerial
    <2>3. published'[Back(vrpCurrentSerial', n)] = published[Back(c, n - 1)]
      BY <2>1, <2>2, <1>6
    <2>4. CASE n = 1
      <3>1. vrpListDiff'[L - r + 1 - n + 1] = curDiff
        BY <2>4, <1>1, <1>7, StoredDiffs
      <3>2. Back(c, n - 1) = c
        BY <2>4, <1>1, <1>2, BackSerial
      <3>3. published[c] = C
        BY <1>1, <1>8 DEF StoreInv, DiffsLeadToCurrent
      <3> QED
        BY <3>1, <3>2, <3>3, <2>3, <1>2, <1>4, ComputedDelta
    <2>5. CASE n > 1
      <3>1. n - 1 \in 1 .. L - 1 /\ L - (n - 1) + 1 \in 1 .. L
        BY <2>5, <1>1
      <3>2. Delta(vrpListDiff[L - (n - 1) + 1], published[Back(c, n - 1)], C)
        BY <3>1 DEF StoreInv, DiffsLeadToCurrent
      <3>3. vrpListDiff[L - (n - 1) + 1] \in VrpList
        BY <3>1 DEF StoreInv, TypeOK, SerialsConsecutive
      <3>4. published[Back(c, n - 1)] \in SUBSET Keys
        BY <2>1, <1>6
      <3>5. vrpListDiff'[L - r + 1 - n + 1]
              = ApplyDiff(curDiff, vrpListDiff[L - (n - 1) + 1])
        <4>1. /\ L - r + 1 - n + 1 \in 1 .. L - r
              /\ (L - r + 1 - n + 1) + r = L - (n - 1) + 1
          BY <2>5, <1>1
        <4>2. \A i \in 1 .. L - r :
                vrpListDiff'[i] = ApplyDiff(curDiff, vrpListDiff[i + r])
          BY <1>1, <1>7, StoredDiffs
        <4> QED
          BY <4>1, <4>2
      <3> QED
        BY <3>2, <3>3, <3>4, <3>5, <2>3, <1>2, <1>4, ComposedDelta
    <2> QED
      BY <2>4, <2>5
  <1> HIDE DEF L, r, D
  <1>9. \A n \in 1 .. Len(vrpListSerial') - 1 :
          Delta(vrpListDiff'[Len(vrpListSerial') - n + 1],
                published'[Back(vrpCurrentSerial', n)], Announced(vrpCurrent'))
    BY <1>1, <1>5, <1>7, <1>8
  <1>10. published'[vrpCurrentSerial'] = Announced(vrpCurrent')
    BY <1>5, <1>6
  <1> QED
    BY <1>5, <1>9, <1>10 DEF DiffsLeadToCurrent

\* The write section keeps the store consistent.
LEMMA AddVRPsDiffStoreInv ==
  ASSUME StoreInv, ~ManualSerial, AddVRPsDiffStore
  PROVE  StoreInv'
PROOF
  <1>1. TypeOK'
    <2>1. /\ DOMAIN vrpMapSerial' \subseteq Serial
          /\ \A s \in DOMAIN vrpMapSerial' : vrpMapSerial'[s] \in Int
      <3>1. /\ DOMAIN vrpMapSerial \cup {curserial} \subseteq Serial
            /\ \A s \in DOMAIN vrpMapSerial : vrpMapSerial[s] \in Int
        BY DEF StoreInv, TypeOK
      <3>2. removeDiff \in Int /\ Len(trimmedDiff) \in Int
        BY StoredDiffs, TrimArith DEF AddVRPsDiffStore
      <3> QED
        BY <3>1, <3>2 DEF AddVRPsDiffStore, trimmedMap
    <2>2. published' \in [Serial -> SUBSET Keys]
      BY TrimArith DEF StoreInv, TypeOK, AddVRPsDiffStore, Announced
    <2>3. vrpCurrent' \in VrpList /\ vrpCurrentSerial' \in Serial
      BY TrimArith DEF StoreInv, TypeOK, AddVRPsDiffStore
    <2>4. /\ adding' \in {"idle", "apply", "store"}
          /\ newVrps' \in SUBSET Keys
          /\ curDiff' \in VrpList
          /\ nextDiff' \in Seq(VrpList)
          /\ newVrpCurrent' \in VrpList
          /\ curserial' \in Serial
      BY DiffTypes, StoreAssumption DEF AddVRPsDiffStore, Serial
    <2> QED
      BY <2>1, <2>2, <2>3, <2>4, StoredSerials, StoredDiffs DEF TypeOK
  <1>2. LocalsFresh'
    BY DEF AddVRPsDiffStore, LocalsFresh
  <1> QED
    BY <1>1, <1>2, StoredConsecutive, StoredMap, StoredDeltas DEF StoreInv

-----------------------------------------------------------------------------
(* Theorems. *)

\* The store is consistent after every step of AddVRPs and SetSerial.
THEOREM StoreConsistent ==
  ASSUME ~ManualSerial
  PROVE  Spec => []StoreInv
PROOF
  <1>1. StoreInv /\ [Next]_vars => StoreInv'
    <2> SUFFICES ASSUME StoreInv, [Next]_vars PROVE StoreInv'
      OBVIOUS
    <2>1. CASE \E vrps \in SUBSET Keys : AddVRPs(vrps)
      BY <2>1, AddVRPsInv
    <2>2. CASE AddVRPsDiffApply
      BY <2>2, AddVRPsDiffApplyInv
    <2>3. CASE AddVRPsDiffStore
      BY <2>3, AddVRPsDiffStoreInv
    <2>4. CASE \E serial \in Serial : SetSerial(serial)
      BY <2>4, SetSerialInv, SMTT(30)
    <2>5. CASE UNCHANGED vars
      BY <2>5 DEF vars, storeVars, addVars, StoreInv, TypeOK, SerialsConsecutive,
                  MapPointsAtDiffs, WindowSerials, DiffsLeadToCurrent, LocalsFresh
    <2> QED
      BY <2>1, <2>2, <2>3, <2>4, <2>5 DEF Next
  <1> QED
    BY <1>1, InitInv, PTL DEF Spec

\* The serials that are answered, and where their differences are.
LEMMA Lookup ==
  ASSUME StoreInv, HasData
  PROVE  /\ Len(vrpListSerial) \in Nat
         /\ Len(vrpListSerial) <= SerialMax
         /\ \A n \in 0 .. Len(vrpListSerial) - 1 :
              /\ Back(vrpCurrentSerial, n) \in Serial
              /\ HasSerialDiff(Back(vrpCurrentSerial, n))
              /\ n = 0 => Back(vrpCurrentSerial, n) = vrpCurrentSerial
              /\ n > 0 => /\ Back(vrpCurrentSerial, n) # vrpCurrentSerial
                          /\ GetVRPsSerialDiff(Back(vrpCurrentSerial, n))
                               = vrpListDiff[Len(vrpListSerial) - n + 1]
         /\ \A s : HasSerialDiff(s) =>
              \E n \in 0 .. Len(vrpListSerial) - 1 : s = Back(vrpCurrentSerial, n)
PROOF
  <1> DEFINE L == Len(vrpListSerial)
             c == vrpCurrentSerial
  <1>1. L \in Nat /\ L > 0 /\ L <= SerialMax /\ SerialMax \in Nat
    BY StoreAssumption DEF StoreInv, TypeOK, SerialsConsecutive, HasData
  <1>2. c \in Serial
    BY DEF StoreInv, TypeOK
  <1>3. ASSUME NEW n \in 0 .. L - 1
        PROVE  /\ Back(c, n) \in Serial
               /\ HasSerialDiff(Back(c, n))
               /\ n = 0 => Back(c, n) = c
               /\ n > 0 => /\ Back(c, n) # c
                           /\ GetVRPsSerialDiff(Back(c, n)) = vrpListDiff[L - n + 1]
    <2>1. n \in 0 .. SerialMax /\ 0 \in 0 .. SerialMax
      BY <1>1
    <2>2. Back(c, n) \in Serial /\ (n = 0 => Back(c, n) = c)
      BY <2>1, <1>2, BackSerial
    <2>3. CASE n = 0
      BY <2>2, <2>3 DEF HasSerialDiff
    <2>4. CASE n > 0
      <3>1. Back(c, n) # c
        BY <2>1, <2>4, <1>2, BackSerial
      <3>2. n \in 1 .. L - 1
        BY <2>4
      <3>3. Back(c, n) \in DOMAIN vrpMapSerial /\ vrpMapSerial[Back(c, n)] = L - n + 1
        BY <3>2 DEF StoreInv, MapPointsAtDiffs
      <3> QED
        BY <2>2, <2>4, <3>1, <3>3 DEF HasSerialDiff, GetVRPsSerialDiff
    <2> QED
      BY <2>3, <2>4
  <1>4. ASSUME NEW s, HasSerialDiff(s)
        PROVE  \E n \in 0 .. L - 1 : s = Back(c, n)
    <2>1. CASE s = c
      BY <2>1, <1>1, <1>3
    <2>2. CASE s # c
      <3>1. s \in WindowSerials
        BY <2>2, <1>4 DEF HasSerialDiff, StoreInv, MapPointsAtDiffs
      <3>2. PICK i \in 1 .. L : s = vrpListSerial[i]
        BY <3>1 DEF WindowSerials, StoreInv, TypeOK
      <3>3. s = Back(c, L - i)
        BY <3>2 DEF StoreInv, SerialsConsecutive
      <3> QED
        BY <3>2, <3>3, <1>1
    <2> QED
      BY <2>1, <2>2
  <1> QED
    BY <1>1, <1>3, <1>4

\* The answer to a serial leads from the VRPs of that serial to the current.
LEMMA AnswerLeads ==
  ASSUME StoreInv, HasData, NEW s \in Serial, HasSerialDiff(s)
  PROVE  Delta(GetVRPsSerialDiff(s), published[s], Announced(vrpCurrent))
PROOF
  <1>1. PICK n \in 0 .. Len(vrpListSerial) - 1 : s = Back(vrpCurrentSerial, n)
    BY Lookup
  <1>2. Len(vrpListSerial) \in Nat
    BY Lookup
  <1>3. CASE n = 0
    <2>1. s = vrpCurrentSerial
      BY <1>1, <1>3, Lookup
    <2>2. published[s] = Announced(vrpCurrent)
      BY <2>1 DEF StoreInv, DiffsLeadToCurrent, HasData
    <2>3. Announced(NoVrps) = {} /\ Withdrawn(NoVrps) = {}
      BY DEF Announced, Withdrawn, NoVrps, FLAG_ADDED, FLAG_REMOVED, Absent
    <2> QED
      BY <2>1, <2>2, <2>3 DEF GetVRPsSerialDiff, Delta
  <1>4. CASE n > 0
    <2>1. GetVRPsSerialDiff(s) = vrpListDiff[Len(vrpListSerial) - n + 1]
      BY <1>1, <1>4, Lookup
    <2>2. n \in 1 .. Len(vrpListSerial) - 1
      BY <1>2, <1>4
    <2> QED
      BY <2>1, <2>2, <1>1 DEF StoreInv, DiffsLeadToCurrent
  <1> QED
    BY <1>3, <1>4

\* The store answers exactly the serials of the window, from positions that
\* exist.
THEOREM WindowIsExact ==
  ASSUME ~ManualSerial
  PROVE  Spec => []WindowExact
PROOF
  <1>1. StoreInv => WindowExact
    <2> SUFFICES ASSUME StoreInv, HasData
                 PROVE  /\ Len(vrpListSerial) <= KeepDiff + 1
                        /\ {s \in Serial : HasSerialDiff(s)}
                             = {Back(vrpCurrentSerial, n) :
                                  n \in 0 .. Len(vrpListSerial) - 1}
                        /\ \A s \in DOMAIN vrpMapSerial :
                             vrpMapSerial[s] \in DOMAIN vrpListDiff
      BY DEF WindowExact
    <2>1. Len(vrpListSerial) <= KeepDiff + 1
      BY DEF StoreInv, SerialsConsecutive
    <2>2. {s \in Serial : HasSerialDiff(s)}
            = {Back(vrpCurrentSerial, n) : n \in 0 .. Len(vrpListSerial) - 1}
      BY Lookup
    <2>3. ASSUME NEW s \in DOMAIN vrpMapSerial
          PROVE  vrpMapSerial[s] \in DOMAIN vrpListDiff
      <3>1. DOMAIN vrpListDiff = 1 .. Len(vrpListSerial)
        BY DEF StoreInv, TypeOK, SerialsConsecutive
      <3>2. CASE s = vrpCurrentSerial
        <4>1. Len(vrpListSerial) = 1 /\ vrpMapSerial[s] = 1
          BY <3>2, <2>3 DEF StoreInv, MapPointsAtDiffs
        <4> QED
          BY <3>1, <4>1
      <3>3. CASE s # vrpCurrentSerial
        <4>1. PICK n \in 0 .. Len(vrpListSerial) - 1 : s = Back(vrpCurrentSerial, n)
          BY <2>3, Lookup DEF HasSerialDiff
        <4>2. n \in 1 .. Len(vrpListSerial) - 1
          BY <4>1, <3>3, Lookup
        <4>3. vrpMapSerial[s] = Len(vrpListSerial) - n + 1
          BY <4>1, <4>2 DEF StoreInv, MapPointsAtDiffs
        <4> QED
          BY <3>1, <4>2, <4>3, Lookup
      <3> QED
        BY <3>2, <3>3
    <2> QED
      BY <2>1, <2>2, <2>3
  <1> QED
    BY <1>1, StoreConsistent, PTL

\* A router that follows by differences never misses a current VRP.
THEOREM RoutersMissNothing ==
  ASSUME ~ManualSerial
  PROVE  Spec => []NoVrpMissed
PROOF
  <1>1. StoreInv => NoVrpMissed
    <2> SUFFICES ASSUME StoreInv, HasData, NEW s \in Serial, HasSerialDiff(s)
                 PROVE  /\ Announced(vrpCurrent)
                             \subseteq Receive(GetVRPsSerialDiff(s), published[s])
                        /\ Receive(GetVRPsSerialDiff(s), published[s])
                             \subseteq Announced(vrpCurrent) \cup published[s]
      BY DEF NoVrpMissed
    <2>1. published[s] \in SUBSET Keys /\ Announced(vrpCurrent) \in SUBSET Keys
      BY DEF StoreInv, TypeOK, Announced
    <2> QED
      BY <2>1, AnswerLeads, DeltaReceived
  <1> QED
    BY <1>1, StoreConsistent, PTL

\* A router that follows by differences is never told to withdraw a VRP it
\* does not hold.
THEOREM WithdrawalsAreKnown ==
  ASSUME ~ManualSerial
  PROVE  Spec => []NoUnknownWithdrawal
PROOF
  <1>1. StoreInv => NoUnknownWithdrawal
    BY AnswerLeads DEF NoUnknownWithdrawal, Delta
  <1> QED
    BY <1>1, StoreConsistent, PTL

-----------------------------------------------------------------------------
(* The store implements the versioned cache. *)

\* The serials that are answered are those of the window, none at first.
AnswersWindow ==
  AnswerableSerials = {Back(vrpCurrentSerial, n) : n \in 0 .. Len(vrpListSerial) - 1}

\* In a consistent store the serials that are answered are those of the window.
LEMMA AnswerableIsWindow == StoreInv => AnswersWindow
PROOF
  <1> SUFFICES ASSUME StoreInv PROVE AnswersWindow
    OBVIOUS
  <1> USE DEF AnswersWindow
  <1>1. CASE HasData
    BY <1>1, Lookup DEF AnswerableSerials
  <1>2. CASE ~HasData
    <2>1. Len(vrpListSerial) = 0
      BY <1>2 DEF HasData, StoreInv, TypeOK
    <2> QED
      BY <1>2, <2>1 DEF AnswerableSerials
  <1> QED
    BY <1>1, <1>2

\* What is answered after a store step: the new serial and what was answered
\* and is still at most KeepDiff behind it.
LEMMA AnswerableStored ==
  ASSUME StoreInv, ~ManualSerial, AddVRPsDiffStore, StoreInv'
  PROVE  AnswerableSerials'
           = {generateSerial} \cup
             {s \in AnswerableSerials : Cache!Behind(s, generateSerial) <= KeepDiff}
PROOF
  <1> DEFINE L == Len(vrpListSerial)
             r == removeDiff
             c == vrpCurrentSerial
             g == generateSerial
  <1>1. /\ L \in Nat /\ r \in {0, 1} /\ r <= L /\ SerialMax \in Nat /\ KeepDiff \in Nat
        /\ L <= KeepDiff + 1 /\ L <= SerialMax
        /\ r = 1 => L = KeepDiff + 1
        /\ r = 0 => L <= KeepDiff
    BY TrimArith, StoreAssumption
  <1>2. c \in Serial /\ g \in Serial /\ vrpCurrentSerial' = g
    BY TrimArith DEF StoreInv, TypeOK, AddVRPsDiffStore
  <1>3. Len(vrpListSerial') = L - r + 1
    BY StoredSerials
  <1>4. HasData'
    BY <1>1, <1>3 DEF HasData
  <1>5. AnswerableSerials' = {Back(g, n) : n \in 0 .. L - r}
    <2>1. AnswersWindow'
      BY AnswerableIsWindow, PTL
    <2> QED
      BY <2>1, <1>1, <1>2, <1>3 DEF AnswersWindow
  <1>6. AnswerableSerials = {Back(c, n) : n \in 0 .. L - 1}
    BY AnswerableIsWindow DEF AnswersWindow
  <1>7. ASSUME NEW n \in 1 .. L
        PROVE  Back(g, n) = Back(c, n - 1)
    <2>1. g = Succ(c) /\ n \in 1 .. SerialMax
      BY <1>1, TrimArith
    <2> QED
      BY <2>1, <1>2, BackSucc
  <1>8. ASSUME NEW n \in 0 .. L
        PROVE  Cache!Behind(Back(g, n), g) = n
    BY <1>1, <1>2 DEF Cache!Behind, Back, Serial
  <1>9. Back(g, 0) = g
    BY <1>2 DEF Back, Serial
  <1> HIDE DEF L, r, c, g
  <1>10. AnswerableSerials = {Back(g, n) : n \in 1 .. L}
    <2>1. ASSUME NEW n \in 0 .. L - 1 PROVE Back(c, n) = Back(g, n + 1) /\ n + 1 \in 1 .. L
      BY <1>1, <1>7
    <2>2. ASSUME NEW n \in 1 .. L PROVE Back(g, n) = Back(c, n - 1) /\ n - 1 \in 0 .. L - 1
      BY <1>1, <1>7
    <2> QED
      BY <1>6, <2>1, <2>2
  <1>11. {s \in AnswerableSerials : Cache!Behind(s, g) <= KeepDiff}
           = {Back(g, n) : n \in 1 .. L - r}
    <2>1. ASSUME NEW n \in 1 .. L
          PROVE  Cache!Behind(Back(g, n), g) <= KeepDiff <=> n \in 1 .. L - r
      BY <1>1, <1>8
    <2>2. 1 .. L - r \subseteq 1 .. L
      BY <1>1
    <2> QED
      BY <1>10, <2>1, <2>2
  <1>12. {Back(g, n) : n \in 0 .. L - r} = {g} \cup {Back(g, n) : n \in 1 .. L - r}
    BY <1>1, <1>9
  <1> QED
    BY <1>5, <1>11, <1>12 DEF g

\* Updates are atomic and versioned: every behaviour of the store is one of
\* the versioned cache.
THEOREM StoreImplementsCache ==
  ASSUME ~ManualSerial
  PROVE  Spec => ImplementsCache
PROOF
  <1>1. Init => Cache!CacheInit
    BY DEF Init, Cache!CacheInit, AnswerableSerials, HasData, Announced, NoVrps,
           FLAG_ADDED, Absent
  <1>2. StoreInv /\ StoreInv' /\ [Next]_vars => [Cache!CacheNext]_(Cache!cacheVars)
    <2> SUFFICES ASSUME StoreInv, StoreInv', [Next]_vars
                 PROVE  [Cache!CacheNext]_(Cache!cacheVars)
      OBVIOUS
    <2>1. ASSUME NEW vrps \in SUBSET Keys, AddVRPs(vrps)
          PROVE  Cache!Ask(vrps)
      BY <2>1 DEF AddVRPs, Cache!Ask, storeVars, AnswerableSerials, HasData,
                  HasSerialDiff
    <2>2. CASE AddVRPsDiffApply
      BY <2>2 DEF AddVRPsDiffApply, Cache!cacheVars, storeVars, AnswerableSerials,
                  HasData, HasSerialDiff
    <2>3. ASSUME AddVRPsDiffStore
          PROVE  newVrps \in SUBSET Keys /\ Cache!Publish(newVrps)
      <3>1. newVrps \in SUBSET Keys /\ Announced(vrpCurrent') = newVrps
        BY <2>3, AnnouncedAsList DEF StoreInv, TypeOK, LocalsFresh, AddVRPsDiffStore
      <3>2. Cache!NextSerial = generateSerial
        <4>1. AnswerableSerials = {} <=> Len(vrpListSerial) = 0
          <5>1. Len(vrpListSerial) \in Nat /\ vrpCurrentSerial \in Serial
            BY DEF StoreInv, TypeOK
          <5>2. HasData => vrpCurrentSerial \in AnswerableSerials
            BY <5>1 DEF AnswerableSerials, HasSerialDiff
          <5>3. ~HasData => AnswerableSerials = {}
            BY DEF AnswerableSerials
          <5> QED
            BY <5>1, <5>2, <5>3 DEF HasData
        <4> QED
          BY <4>1, TrimArith DEF Cache!NextSerial, Succ
      <3> QED
        BY <2>3, <3>1, <3>2, AnswerableStored, SMTT(30) DEF AddVRPsDiffStore, Cache!Publish
    <2>4. ASSUME NEW s \in Serial, SetSerial(s)
          PROVE  Cache!ChooseSerial(s)
      BY <2>4 DEF SetSerial, Cache!ChooseSerial, addVars, AnswerableSerials, HasData
    <2>5. CASE UNCHANGED vars
      BY <2>5 DEF vars, storeVars, addVars, Cache!cacheVars, AnswerableSerials,
                  HasData, HasSerialDiff
    <2> QED
      BY <2>1, <2>2, <2>3, <2>4, <2>5 DEF Next, Cache!CacheNext, Serial
  <1> QED
    BY <1>1, <1>2, StoreConsistent, PTL DEF Spec, ImplementsCache, Cache!CacheSpec

\* A stored update never takes the difference away from a router that was at
\* most KeepDiff - 1 updates behind.
THEOREM WindowIsKept ==
  ASSUME ~ManualSerial
  PROVE  Spec => WindowKept
PROOF
  <1> DEFINE Kept == \A s \in AnswerableSerials :
                       (\E n \in 0 .. KeepDiff - 1 : s = Back(vrpCurrentSerial, n))
                         => HasSerialDiff(s)'
  <1>1. StoreInv /\ StoreInv' /\ [Next]_vars => [Kept]_storeVars
    <2> SUFFICES ASSUME StoreInv, StoreInv', [Next]_vars PROVE [Kept]_storeVars
      OBVIOUS
    <2>1. CASE \E vrps \in SUBSET Keys : AddVRPs(vrps)
      BY <2>1 DEF AddVRPs
    <2>2. CASE AddVRPsDiffApply
      BY <2>2 DEF AddVRPsDiffApply
    <2>3. CASE AddVRPsDiffStore
      <3> SUFFICES ASSUME NEW s \in AnswerableSerials,
                          NEW n \in 0 .. KeepDiff - 1, s = Back(vrpCurrentSerial, n)
                   PROVE  HasSerialDiff(s)'
        OBVIOUS
      <3>1. HasData /\ s \in Serial
        BY DEF AnswerableSerials
      <3>2. generateSerial = Succ(vrpCurrentSerial) /\ generateSerial \in Serial
        BY <3>1, TrimArith DEF HasData
      <3>3. vrpCurrentSerial \in Serial /\ n + 1 \in 1 .. SerialMax /\ n + 1 <= KeepDiff
        BY StoreAssumption DEF StoreInv, TypeOK
      <3>4. s = Back(generateSerial, n + 1)
        BY <3>2, <3>3, BackSucc
      <3>5. Cache!Behind(s, generateSerial) = n + 1
        BY <3>2, <3>3, <3>4, StoreAssumption DEF Cache!Behind, Back, Serial
      <3>6. s \in AnswerableSerials'
        BY <2>3, <3>3, <3>5, AnswerableStored
      <3> QED
        BY <3>6 DEF AnswerableSerials
    <2>4. CASE \E serial \in Serial : SetSerial(serial)
      BY <2>4 DEF SetSerial, AnswerableSerials, HasData
    <2>5. CASE UNCHANGED vars
      BY <2>5, SMTT(30) DEF vars
    <2> QED
      BY <2>1, <2>2, <2>3, <2>4, <2>5 DEF Next
  <1> QED
    BY <1>1, StoreConsistent, PTL DEF Spec, WindowKept

-----------------------------------------------------------------------------
(* Routers that are near. *)

\* DeltaExactNear needs to know that the newest difference is a computed one:
\* only then does one more update compose it without loss.
NearExact ==
  LET L == Len(vrpListSerial)
  IN  /\ L >= 2 => vrpListDiff[L] =
                     ComputeDiff(AsList(Announced(vrpCurrent)),
                                 AsList(published[Back(vrpCurrentSerial, 1)]))
      /\ L >= 3 => Receive(vrpListDiff[L - 1], published[Back(vrpCurrentSerial, 2)])
                     = Announced(vrpCurrent)

\* The write section composes the newest difference once.
LEMMA NearStored ==
  ASSUME StoreInv, ~ManualSerial, NearExact, AddVRPsDiffStore
  PROVE  NearExact'
PROOF
  <1> DEFINE c == vrpCurrentSerial
  <1>1. PICK L, r, C, D : /\ L = Len(vrpListSerial) /\ r = removeDiff
                          /\ C = Announced(vrpCurrent) /\ D = newVrps
    BY Zenon
  <1>2. /\ L \in Nat /\ r \in {0, 1} /\ r <= L /\ SerialMax \in Nat
        /\ r = 1 => L = KeepDiff + 1
    BY <1>1, TrimArith, StoreAssumption
  <1>3. c \in Serial /\ C \in SUBSET Keys /\ D \in SUBSET Keys
    BY <1>1 DEF StoreInv, TypeOK, Announced
  <1>4. vrpCurrent = AsList(C)
    BY <1>1, OnlyAnnounces DEF StoreInv, TypeOK, DiffsLeadToCurrent
  <1>5. curDiff = ComputeDiff(AsList(D), AsList(C)) /\ vrpCurrent' = AsList(D)
    BY <1>1, <1>4 DEF StoreInv, LocalsFresh, AddVRPsDiffStore
  <1>6. Announced(vrpCurrent') = D
    BY <1>3, <1>5, AnnouncedAsList
  <1>7. /\ vrpCurrentSerial' \in Serial
        /\ published' = [published EXCEPT ![vrpCurrentSerial'] = D]
        /\ published \in [Serial -> SUBSET Keys]
    BY <1>5, <1>6, TrimArith DEF StoreInv, TypeOK, AddVRPsDiffStore
  <1>8. /\ Len(vrpListSerial') = L - r + 1 /\ Len(vrpListDiff') = L - r + 1
        /\ vrpListDiff'[L - r + 1] = curDiff
        /\ \A i \in 1 .. L - r : vrpListDiff'[i] = ApplyDiff(curDiff, vrpListDiff[i + r])
    BY <1>1, <1>2, StoredSerials, StoredDiffs
  <1>9. ASSUME NEW n \in 1 .. L - r
        PROVE  /\ published'[Back(vrpCurrentSerial', n)] = published[Back(c, n - 1)]
               /\ Back(c, n - 1) \in Serial
    <2>1. /\ Back(vrpCurrentSerial', n) = Back(c, n - 1)
          /\ Back(vrpCurrentSerial', n) \in Serial
          /\ n \in 0 .. SerialMax /\ n # 0
      BY <1>1, <1>2, StoredBack
    <2>2. Back(vrpCurrentSerial', n) # vrpCurrentSerial'
      <3>1. Back(vrpCurrentSerial', 0) = vrpCurrentSerial' /\ 0 \in 0 .. SerialMax
        BY <1>2, <1>7, BackSerial
      <3> QED
        BY <3>1, <2>1, <1>7, BackSerial
    <2> QED
      BY <2>1, <2>2, <1>7
  <1>10. ASSUME L - r >= 1
         PROVE  published'[Back(vrpCurrentSerial', 1)] = C
    <2>1. published'[Back(vrpCurrentSerial', 1)] = published[Back(c, 0)]
      BY <1>2, <1>9, <1>10
    <2>2. Back(c, 0) = c
      BY <1>2, <1>3, BackSerial
    <2>3. published[c] = C
      BY <1>1, <1>2, <1>10 DEF StoreInv, DiffsLeadToCurrent
    <2> QED
      BY <2>1, <2>2, <2>3
  <1>11. ASSUME L - r >= 2
         PROVE  Receive(vrpListDiff'[L - r], published'[Back(vrpCurrentSerial', 2)]) = D
    <2>1. PICK B : B = published[Back(c, 1)]
      OBVIOUS
    <2>2. published'[Back(vrpCurrentSerial', 2)] = B /\ B \in SUBSET Keys
      BY <1>2, <1>7, <1>9, <1>11, <2>1
    <2>3. vrpListDiff[L] = ComputeDiff(AsList(C), AsList(B))
      BY <1>1, <1>2, <1>11, <2>1 DEF NearExact
    <2>4. vrpListDiff'[L - r] = ApplyDiff(curDiff, vrpListDiff[L])
      BY <1>2, <1>8, <1>11
    <2> QED
      BY <1>3, <1>5, <2>2, <2>3, <2>4, TwoDiffsExact
  <1> QED
    BY <1>2, <1>5, <1>6, <1>8, <1>10, <1>11 DEF NearExact

\* A router that is at most two updates behind ends with exactly the current
\* VRPs, whatever the VRPs and however long the store has been running.
THEOREM NearRoutersExact ==
  ASSUME ~ManualSerial
  PROVE  Spec => []DeltaExactNear
PROOF
  <1>1. Init => NearExact
    BY DEF Init, NearExact
  <1>2. StoreInv /\ NearExact /\ [Next]_vars => NearExact'
    <2> SUFFICES ASSUME StoreInv, NearExact, [Next]_vars PROVE NearExact'
      OBVIOUS
    <2>1. CASE AddVRPsDiffStore
      BY <2>1, NearStored, SMTT(30)
    <2>2. CASE \/ \E vrps \in SUBSET Keys : AddVRPs(vrps)
               \/ AddVRPsDiffApply \/ UNCHANGED vars
      BY <2>2, SMTT(30) DEF NearExact, AddVRPs, AddVRPsDiffApply, vars, storeVars
    <2>3. CASE \E serial \in Serial : SetSerial(serial)
      <3>1. vrpListSerial = << >> /\ vrpListSerial' = vrpListSerial
        BY <2>3 DEF SetSerial
      <3> QED
        BY <3>1 DEF NearExact
    <2> QED
      BY <2>1, <2>2, <2>3 DEF Next
  <1>3. StoreInv /\ NearExact => DeltaExactNear
    <2> SUFFICES ASSUME StoreInv, NearExact, HasData, NEW m \in 0 .. 2,
                        HasSerialDiff(Back(vrpCurrentSerial, m))
                 PROVE  Receive(GetVRPsSerialDiff(Back(vrpCurrentSerial, m)),
                                published[Back(vrpCurrentSerial, m)])
                          = Announced(vrpCurrent)
      BY DEF DeltaExactNear
    <2>1. PICK L, C : L = Len(vrpListSerial) /\ C = Announced(vrpCurrent)
      BY Zenon
    <2>2. PICK n \in 0 .. L - 1 : Back(vrpCurrentSerial, m) = Back(vrpCurrentSerial, n)
      BY <2>1, Lookup
    <2>3. m = n /\ L \in Nat
      <3>1. L \in Nat /\ L <= SerialMax
        BY <2>1, Lookup
      <3>2. n \in 0 .. SerialMax /\ m \in 0 .. SerialMax
        BY <2>2, <3>1, StoreAssumption
      <3>3. vrpCurrentSerial \in Serial
        BY DEF StoreInv, TypeOK
      <3> QED
        BY <2>2, <3>1, <3>2, <3>3, BackSerial
    <2>4. /\ vrpCurrentSerial \in Serial /\ C \in SUBSET Keys
          /\ published[Back(vrpCurrentSerial, m)] \in SUBSET Keys
      BY <2>1, <2>2, Lookup DEF StoreInv, TypeOK, Announced
    <2>5. CASE m = 0
      <3>1. Back(vrpCurrentSerial, m) = vrpCurrentSerial
        BY <2>1, <2>3, <2>5, Lookup
      <3>2. published[vrpCurrentSerial] = C
        BY <2>1, <2>2, <2>3 DEF StoreInv, DiffsLeadToCurrent
      <3>3. Receive(NoVrps, C) = C
        BY DEF Receive, Announced, Withdrawn, NoVrps, FLAG_ADDED, FLAG_REMOVED, Absent
      <3> QED
        BY <2>1, <3>1, <3>2, <3>3, SMTT(30) DEF GetVRPsSerialDiff
    <2>6. CASE m > 0
      <3>1. GetVRPsSerialDiff(Back(vrpCurrentSerial, m)) = vrpListDiff[L - m + 1]
        BY <2>1, <2>2, <2>3, <2>6, Lookup, SMTT(30)
      <3>2. CASE m = 1
        BY <2>1, <2>2, <2>3, <2>4, <3>1, <3>2, TwoDiffsExact, SMTT(30) DEF NearExact
      <3>3. CASE m = 2
        BY <2>1, <2>2, <2>3, <3>1, <3>3 DEF NearExact
      <3> QED
        BY <2>6, <3>2, <3>3
    <2> QED
      BY <2>5, <2>6
  <1> QED
    BY <1>1, <1>2, <1>3, StoreConsistent, PTL DEF Spec

=============================================================================
