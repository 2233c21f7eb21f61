---------------------------- MODULE RtrSessionFacts ----------------------------
(***************************************************************************)
(* The inductive invariant of the sessions, and what the steps do to the   *)
(* state of one client: its queries, its request and the PDUs on their way *)
(* to it.                                                                  *)
(***************************************************************************)
EXTENDS RtrSession, VrpStoreProofs, ListFacts

-----------------------------------------------------------------------------
(* The inductive invariant. *)

\* The VRPs of every version since the serial s.
Stable(s) == {k \in Keys : \A n \in s .. vrpCurrentSerial : k \in published[n]}

\* The updater: an update that is under way has a serial left to take, and
\* notifies nobody.
UpdaterInv ==
  /\ notifying \in {"no", "list", "stamp", "send"}
  /\ adding # "idle" => notifying = "no" /\ vrpCurrentSerial < LastSerial
  /\ clients \in Seq(Clients) /\ toNotify \in Seq(Clients)
  /\ (notifying \in {"stamp", "send"}) <=> (toNotify # << >>)

\* Serials have not wrapped, and a VRP that is current and that a difference
\* does not announce was valid ever since the serial the difference starts
\* from.  Delta alone allows it to have been away for a while.
SteadyInv ==
  /\ Len(vrpListSerial) <= vrpCurrentSerial + 1
  /\ \A n \in 1 .. Len(vrpListSerial) - 1 :
       Announced(vrpCurrent)
         \subseteq Announced(vrpListDiff[Len(vrpListSerial) - n + 1])
                     \cup Stable(vrpCurrentSerial - n)

\* Each client has its state.
Shaped ==
  /\ DOMAIN request = Clients /\ DOMAIN queries = Clients
  /\ DOMAIN transmits = Clients /\ DOMAIN connected = Clients
  /\ DOMAIN serial = Clients /\ DOMAIN vrps = Clients
  /\ DOMAIN lastUpdate = Clients /\ DOMAIN told = Clients
  /\ DOMAIN closed = Clients

\* The queries q of a client that holds the serial s: a client never asks
\* from a serial it has yet to reach.
QueriesOK(q, s) ==
  /\ IsSeq(q)
  /\ \A i \in 1 .. Len(q) : /\ q[i].type \in {"reset_query", "serial_query"}
                            /\ q[i].serial \in 0 .. s

\* The PDUs t on their way to it: their serials never go back, and never
\* behind the one it holds.
TransmitsOK(t, s) ==
  /\ IsSeq(t) /\ Len(t) <= ChanSize
  /\ \A i \in 1 .. Len(t) :
       /\ t[i].type \in {"data", "cache_reset", "serial_notify", "error_report"}
       /\ t[i].serial \in 0 .. vrpCurrentSerial /\ t[i].list \in VrpList
       /\ t[i].type = "data" => HasData /\ t[i].serial >= s
  /\ \A i, j \in 1 .. Len(t) :
       i < j /\ t[i].type = "data" /\ t[j].type = "data" => t[i].serial <= t[j].serial

\* The request r that is handled: the serial it read is behind none that was
\* sent before.
RequestOK(r, t, s) ==
  /\ {"at", "query", "pdu"} \subseteq DOMAIN r
  /\ r.at \in {"none", "data", "send"}
  /\ r.at = "none" => r = NoRequest
  /\ r.at = "send" => r.pdu.type \in {"data", "cache_reset", "error_report"}
  /\ r.query.type \in {"reset_query", "serial_query"} /\ r.query.serial \in 0 .. s
  /\ {"type", "version", "serial", "list"} \subseteq DOMAIN r.pdu
  /\ r.pdu.list \in VrpList /\ r.pdu.serial \in 0 .. vrpCurrentSerial
  /\ r.at = "data" \/ (r.at = "send" /\ r.pdu.type = "data") =>
       /\ HasData /\ r.pdu.serial >= s
       /\ \A i \in 1 .. Len(t) : t[i].type = "data" => t[i].serial <= r.pdu.serial

\* The response p withdraws no VRP that has been valid since its serial, and
\* announces it unless it has been valid since the serial s.
Leads(p, s) ==
  /\ Stable(p.serial) \cap Withdrawn(p.list) = {}
  /\ Stable(p.serial) \subseteq Announced(p.list) \cup Stable(s)

\* The response p announces every VRP that has been valid since its serial.
Complete(p) == Stable(p.serial) \subseteq Announced(p.list)

Decides(p) == p.type \in {"data", "error_report"}

\* What the client holds (v, with the serial s) and what it will be sent: the
\* first response it ever gets answers its Reset Query.
HoldsOK(q, t, r, on, s, v, got) ==
  /\ v \subseteq Keys
  /\ got # {} => HasData /\ Stable(s) \subseteq v
  /\ \A i \in 1 .. Len(t) : t[i].type = "data" =>
       /\ Leads(t[i], s)
       /\ got # {} \/ Complete(t[i]) \/ \E j \in 1 .. i - 1 : Decides(t[j])
  /\ r.at = "send" /\ r.pdu.type = "data" => Leads(r.pdu, s)
  /\ r.at = "send" /\ r.query.type = "reset_query" =>
       Decides(r.pdu) /\ (r.pdu.type = "data" => Complete(r.pdu))
  /\ on # {} /\ got = {} /\ (\A i \in 1 .. Len(t) : ~Decides(t[i])) =>
       IF r.at = "none" THEN Len(q) > 0 /\ q[1].type = "reset_query"
                        ELSE r.query.type = "reset_query"

Local(q, t, r, on, s, v, got) ==
  /\ s \in 0 .. vrpCurrentSerial
  /\ QueriesOK(q, s)
  /\ TransmitsOK(t, s)
  /\ RequestOK(r, t, s)
  /\ HoldsOK(q, t, r, on, s, v, got)

\* A flag of c, as a set: empty where it is not set.
Flag(f, c) == {d \in {c} : f[d]}

\* Whether the connection of c is open, as such a set.
On(c) == {d \in {c} : Open(d)}

ClientOK(c) ==
  Local(queries[c], transmits[c], request[c], On(c), serial[c], vrps[c],
        Flag(lastUpdate, c))

SessionInv ==
  /\ StoreInv /\ UpdaterInv /\ SteadyInv /\ Shaped
  /\ \A c \in Clients : ClientOK(c)

\* The current serial still is to be told to c.
Owed(c) == notifying = "list" \/ c \in Members(toNotify)

\* The request r is about to tell its client a serial.
Telling(r) == r.at = "data" \/ (r.at = "send" /\ r.pdu.type = "data")

\* What the clients were told.  A client whose connection is open and that is not yet
\* registered was told nothing and is on no list; a registered one was told the
\* current serial, or is owed it, or is about to be sent it.
ToldOK(c) ==
  /\ c \notin Registered => request[c] = NoRequest
  /\ c \notin Registered /\ Open(c) => told[c] = {} /\ c \notin Members(toNotify)
  /\ c \in Registered /\ told[c] # {} => vrpCurrentSerial \in told[c] \/ Owed(c)
  /\ Telling(request[c]) =>
       request[c].pdu.serial = vrpCurrentSerial \/ vrpCurrentSerial \in told[c] \/ Owed(c)

ToldInv == \A c \in Clients : ToldOK(c)

-----------------------------------------------------------------------------
(* An update is stored. *)

\* The first update keeps the serial, each later one takes the next, and the
\* earlier versions stay as they were published.
LEMMA StoredVersion ==
  ASSUME StoreInv, UpdaterInv, AddVRPsDiffStore
  PROVE  /\ vrpCurrentSerial \in Nat /\ vrpCurrentSerial' \in Nat
         /\ vrpCurrentSerial' >= vrpCurrentSerial
         /\ vrpCurrentSerial' <= LastSerial
         /\ HasData'
         /\ Announced(vrpCurrent') = newVrps /\ newVrps \subseteq Keys
         /\ HasData =>
              /\ vrpCurrentSerial' = vrpCurrentSerial + 1
              /\ published'[vrpCurrentSerial + 1] = newVrps
              /\ \A n \in 0 .. vrpCurrentSerial : published'[n] = published[n]
  <1>1. ~ManualSerial /\ LastSerial \in 0 .. SerialMax /\ SerialMax \in Nat
    BY SessionAssumption, StoreAssumption
  <1>2. vrpCurrentSerial \in 0 .. SerialMax /\ published \in [0 .. SerialMax -> SUBSET Keys]
    BY DEF StoreInv, TypeOK, Serial
  <1>3. vrpCurrentSerial < LastSerial
    BY DEF UpdaterInv, AddVRPsDiffStore
  <1>4. vrpCurrentSerial' = generateSerial
    BY DEF AddVRPsDiffStore
  <1>5. /\ Len(vrpListSerial) \in Nat
        /\ Len(vrpListSerial) = 0 => vrpCurrentSerial' = vrpCurrentSerial
        /\ Len(vrpListSerial) > 0 => vrpCurrentSerial' = vrpCurrentSerial + 1
    BY <1>1, <1>2, <1>3, <1>4, TrimArith DEF Succ
  <1>6. newVrps \in SUBSET Keys /\ newVrpCurrent = AsList(newVrps)
    BY DEF StoreInv, TypeOK, LocalsFresh, AddVRPsDiffStore
  <1>7. Announced(vrpCurrent') = newVrps
    BY <1>6, AnnouncedAsList DEF AddVRPsDiffStore
  <1>8. published' = [published EXCEPT ![vrpCurrentSerial'] = newVrps]
    BY <1>4, <1>6, AnnouncedAsList, Zenon DEF AddVRPsDiffStore
  <1>9. HasData'
    <2>1. Len(vrpListSerial') = Len(vrpListSerial) - removeDiff + 1
      BY <1>1, StoredSerials
    <2> QED
      BY <1>1, <1>5, <2>1, TrimArith DEF HasData
  <1>10. HasData =>
           /\ vrpCurrentSerial' = vrpCurrentSerial + 1
           /\ published'[vrpCurrentSerial + 1] = newVrps
           /\ \A n \in 0 .. vrpCurrentSerial : published'[n] = published[n]
    BY <1>1, <1>2, <1>3, <1>5, <1>8 DEF HasData
  <1> QED
    BY <1>1, <1>2, <1>3, <1>5, <1>6, <1>7, <1>9, <1>10

\* What has been valid since a serial still is if it is in the new version.
LEMMA StoredStable ==
  ASSUME StoreInv, UpdaterInv, AddVRPsDiffStore, HasData,
         NEW s \in 0 .. vrpCurrentSerial
  PROVE  Stable(s)' = Stable(s) \cap newVrps
  <1>1. /\ vrpCurrentSerial \in Nat /\ vrpCurrentSerial' = vrpCurrentSerial + 1
        /\ published'[vrpCurrentSerial + 1] = newVrps
        /\ \A n \in 0 .. vrpCurrentSerial : published'[n] = published[n]
    BY StoredVersion
  <1>2. /\ \A n \in s .. vrpCurrentSerial + 1 :
             n \in s .. vrpCurrentSerial \/ n = vrpCurrentSerial + 1
        /\ \A n \in s .. vrpCurrentSerial :
             n \in s .. vrpCurrentSerial + 1 /\ n \in 0 .. vrpCurrentSerial
        /\ vrpCurrentSerial + 1 \in s .. vrpCurrentSerial + 1
    BY <1>1
  <1>3. ASSUME NEW k \in Keys
        PROVE  (\A n \in s .. vrpCurrentSerial + 1 : k \in published'[n]) <=>
               (\A n \in s .. vrpCurrentSerial : k \in published[n]) /\ k \in newVrps
    BY <1>1, <1>2
  <1>4. newVrps \subseteq Keys
    BY StoredVersion
  <1>5. Stable(s)' = {k \in Keys : \A n \in s .. vrpCurrentSerial + 1 : k \in published'[n]}
    BY <1>1 DEF Stable
  <1>6. Stable(s) = {k \in Keys : \A n \in s .. vrpCurrentSerial : k \in published[n]}
    BY DEF Stable
  <1>7. ASSUME NEW k PROVE k \in Stable(s)' <=> k \in Stable(s) \cap newVrps
    BY <1>3, <1>4, <1>5, <1>6, Zenon
  <1> QED
    BY <1>7, Zenon

\* The newest difference announces what the version before did not have; an
\* older one still announces what it must, once the newest is applied to it.
LEMMA StoredSteady ==
  ASSUME StoreInv, UpdaterInv, SteadyInv, AddVRPsDiffStore
  PROVE  SteadyInv'
  <1>1. PICK L, r, cur, C, D : /\ L = Len(vrpListSerial) /\ r = removeDiff
                               /\ cur = vrpCurrentSerial
                               /\ C = Announced(vrpCurrent) /\ D = newVrps
    BY Zenon
  <1>2. ~ManualSerial
    BY SessionAssumption
  <1>3. /\ L \in Nat /\ r \in {0, 1} /\ r <= L
        /\ Len(vrpListSerial') = L - r + 1 /\ Len(vrpListDiff') = L - r + 1
    BY <1>1, <1>2, TrimArith, StoredSerials, StoredDiffs
  <1>4. /\ cur \in Nat /\ Announced(vrpCurrent') = D /\ D \subseteq Keys /\ C \subseteq Keys
        /\ L > 0 => vrpCurrentSerial' = cur + 1 /\ HasData
        /\ L <= cur + 1
    BY <1>1, StoredVersion DEF HasData, SteadyInv, Announced
  <1>5. Len(vrpListSerial') <= vrpCurrentSerial' + 1
    <2>1. vrpCurrentSerial' \in Nat
      BY StoredVersion
    <2>2. CASE L = 0
      <3>1. r = 0
        BY <1>3, <2>2
      <3>2. L - r + 1 = 1
        BY <2>2, <3>1
      <3>3. \A n \in Nat : 1 <= n + 1
        OBVIOUS
      <3> QED
        BY <1>3, <2>1, <3>2, <3>3, Zenon
    <2>3. CASE L > 0
      <3>1. L \in Nat /\ r \in {0, 1} /\ cur \in Nat /\ L <= cur + 1
        BY <1>3, <1>4
      <3>2. L - r + 1 <= cur + 1 + 1
        BY <3>1
      <3> QED
        BY <1>3, <1>4, <2>3, <3>2
    <2> QED
      BY <1>3, <2>2, <2>3
  <1>6. ASSUME NEW n \in 1 .. L - r
        PROVE  D \subseteq Announced(vrpListDiff'[L - r + 1 - n + 1]) \cup Stable(cur + 1 - n)'
    <2>1. L > 0 /\ n - 1 \in 0 .. cur /\ cur + 1 - n \in 0 .. cur
      BY <1>3, <1>4
    <2>2. Stable(cur + 1 - n)' = Stable(cur + 1 - n) \cap D
      BY <1>1, <1>4, <2>1, StoredStable
    <2>3. /\ vrpCurrent = AsList(C) /\ curDiff = ComputeDiff(AsList(D), AsList(C))
      <3>1. vrpCurrent = AsList(C)
        BY <1>1, OnlyAnnounces DEF StoreInv, TypeOK, DiffsLeadToCurrent
      <3> QED
        BY <1>1, <3>1 DEF StoreInv, LocalsFresh, AddVRPsDiffStore
    <2>4. ASSUME NEW k \in D
          PROVE  curDiff[k] = IF k \in C THEN Absent ELSE FLAG_ADDED
      BY <1>4, <2>3 DEF ComputeDiff, AsList, FLAG_ADDED, FLAG_REMOVED, Absent
    <2>5. CASE n = 1
      <3>1. vrpListDiff'[L - r + 1 - n + 1] = curDiff
        BY <1>2, <1>3, <2>5, StoredDiffs
      <3>2. C = Stable(cur)
        <4>1. published[cur] = C
          BY <1>1, <2>1 DEF StoreInv, DiffsLeadToCurrent
        <4>2. cur .. cur = {cur}
          BY <1>4
        <4> QED
          BY <1>1, <1>4, <4>1, <4>2 DEF Stable
      <3>3. cur + 1 - n = cur
        BY <1>4, <2>5
      <3> QED
        BY <1>4, <2>2, <2>4, <3>1, <3>2, <3>3 DEF Announced
    <2>6. CASE n > 1
      <3>1. PICK m, old : /\ m = n - 1 /\ old = vrpListDiff[L - m + 1]
        OBVIOUS
      <3>2. m \in 1 .. L - 1 /\ cur - m = cur + 1 - n
        BY <1>3, <1>4, <2>6, <3>1
      <3>3. C \subseteq Announced(old) \cup Stable(cur + 1 - n)
        BY <1>1, <3>1, <3>2 DEF SteadyInv
      <3>4. vrpListDiff'[L - r + 1 - n + 1] = ApplyDiff(curDiff, old)
        <4>1. /\ L - r + 1 - n + 1 \in 1 .. L - r
              /\ (L - r + 1 - n + 1) + r = L - m + 1
          BY <1>3, <2>6, <3>1
        <4>2. \A i \in 1 .. L - r :
                vrpListDiff'[i] = ApplyDiff(curDiff, vrpListDiff[i + r])
          BY <1>1, <1>2, <1>3, StoredDiffs
        <4> QED
          BY <3>1, <4>1, <4>2
      <3>5. ASSUME NEW k \in D
            PROVE  k \in Announced(ApplyDiff(curDiff, old)) \/ k \in Stable(cur + 1 - n)
        <4>1. k \in Keys /\ ApplyDiff(curDiff, old)[k] = IF k \in C THEN old[k] ELSE FLAG_ADDED
          BY <1>4, <2>4 DEF ApplyDiff, FLAG_ADDED, FLAG_REMOVED, Absent
        <4> QED
          BY <3>3, <4>1 DEF Announced
      <3> QED
        BY <2>2, <3>4, <3>5
    <2> QED
      BY <2>5, <2>6
  <1>7. PICK cur2 : cur2 = vrpCurrentSerial'
    OBVIOUS
  <1>8. ASSUME NEW n \in 1 .. L - r + 1 - 1
        PROVE  Announced(vrpCurrent')
                 \subseteq Announced(vrpListDiff'[L - r + 1 - n + 1]) \cup Stable(cur2 - n)'
    <2>1. n \in 1 .. L - r /\ L > 0
      BY <1>3
    <2>2. cur2 - n = cur + 1 - n
      BY <1>4, <1>7, <2>1
    <2> QED
      BY <1>4, <1>6, <2>1, <2>2
  <1> QED
    BY <1>3, <1>5, <1>7, <1>8 DEF SteadyInv, Stable

\* A response leads a client as far as it did, for what is still valid.
LEMMA StoredLeads ==
  ASSUME StoreInv, UpdaterInv, AddVRPsDiffStore, HasData, NEW p,
         p.serial \in 0 .. vrpCurrentSerial
  PROVE  /\ \A s \in 0 .. vrpCurrentSerial : Leads(p, s) => Leads(p, s)'
         /\ Complete(p) => Complete(p)'
  <1>1. PICK n : n = p.serial
    OBVIOUS
  <1>2. Stable(n)' = Stable(n) \cap newVrps
    BY <1>1, StoredStable
  <1>3. Complete(p) => Complete(p)'
    BY <1>1, <1>2 DEF Complete
  <1>4. ASSUME NEW s \in 0 .. vrpCurrentSerial, Leads(p, s) PROVE Leads(p, s)'
    <2>1. Stable(s)' = Stable(s) \cap newVrps
      BY StoredStable
    <2> QED
      BY <1>1, <1>2, <1>4, <2>1 DEF Leads
  <1> QED
    BY <1>3, <1>4

\* A new version leaves a client's session as good as it was.
LEMMA StoredLocal ==
  ASSUME StoreInv, UpdaterInv, AddVRPsDiffStore,
         NEW q, NEW t, NEW r, NEW on, NEW s, NEW v, NEW got,
         Local(q, t, r, on, s, v, got)
  PROVE  Local(q, t, r, on, s, v, got)'
  <1>1. /\ vrpCurrentSerial \in Nat /\ vrpCurrentSerial' \in Nat
        /\ vrpCurrentSerial' >= vrpCurrentSerial /\ HasData'
    BY StoredVersion
  <1>2. /\ s \in 0 .. vrpCurrentSerial /\ QueriesOK(q, s) /\ TransmitsOK(t, s)
        /\ RequestOK(r, t, s) /\ HoldsOK(q, t, r, on, s, v, got)
    BY SMTT(30) DEF Local
  <1>3. s \in 0 .. vrpCurrentSerial' /\ TransmitsOK(t, s)' /\ RequestOK(r, t, s)'
    BY <1>1, <1>2, SMTT(30) DEF TransmitsOK, RequestOK
  <1>4. got # {} => Stable(s)' \subseteq v
    BY <1>2, StoredStable, Zenon DEF HoldsOK
  <1>5. ASSUME NEW i \in 1 .. Len(t), t[i].type = "data"
        PROVE  /\ Leads(t[i], s)'
               /\ got # {} \/ Complete(t[i])' \/ \E j \in 1 .. i - 1 : Decides(t[j])
    <2>1. HasData /\ t[i].serial \in 0 .. vrpCurrentSerial
      BY <1>2, <1>5, Zenon DEF TransmitsOK
    <2> QED
      BY <1>2, <1>5, <2>1, StoredLeads DEF HoldsOK
  <1>6. ASSUME r.at = "send"
        PROVE  /\ r.pdu.type = "data" => Leads(r.pdu, s)'
               /\ r.query.type = "reset_query" =>
                    Decides(r.pdu) /\ (r.pdu.type = "data" => Complete(r.pdu)')
    <2>1. r.pdu.type = "data" => HasData /\ r.pdu.serial \in 0 .. vrpCurrentSerial
      BY <1>2, <1>6, Zenon DEF RequestOK
    <2> QED
      BY <1>2, <1>6, <2>1, StoredLeads, SMTT(30) DEF HoldsOK
  <1>7. HoldsOK(q, t, r, on, s, v, got)'
    BY <1>1, <1>2, <1>4, <1>5, <1>6, Zenon DEF HoldsOK
  <1> QED
    BY <1>2, <1>3, <1>7 DEF Local

-----------------------------------------------------------------------------
(* Steps that leave the store alone. *)

\* A session is as good as it was while the store is not changed.
LEMMA SameLocal ==
  ASSUME UNCHANGED vars, NEW q, NEW t, NEW r, NEW on, NEW s, NEW v, NEW got,
         Local(q, t, r, on, s, v, got)
  PROVE  Local(q, t, r, on, s, v, got)'
  <1>1. UNCHANGED <<vrpCurrentSerial, published, vrpListSerial>>
    BY DEF vars, storeVars
  <1> QED
    BY <1>1, Zenon DEF Local, TransmitsOK, RequestOK, HoldsOK, Leads, Complete, Stable, HasData

\* A PDU is put at the end of transmits.
LEMMA PushTransmits ==
  ASSUME NEW t, NEW s, TransmitsOK(t, s), Len(t) < ChanSize, NEW p,
         p.type \in {"data", "cache_reset", "serial_notify", "error_report"},
         p.serial \in 0 .. vrpCurrentSerial, p.list \in VrpList,
         p.type = "data" =>
           /\ HasData /\ p.serial >= s
           /\ \A i \in 1 .. Len(t) : t[i].type = "data" => t[i].serial <= p.serial
  PROVE  /\ TransmitsOK(Append(t, p), s)
         /\ Len(t) \in Nat /\ Len(Append(t, p)) = Len(t) + 1
         /\ \A i \in 1 .. Len(t) : Append(t, p)[i] = t[i]
         /\ Append(t, p)[Len(t) + 1] = p
         /\ \A i \in 1 .. Len(t) + 1 : i \in 1 .. Len(t) \/ i = Len(t) + 1
  <1>1. PICK u, L : u = Append(t, p) /\ L = Len(t)
    BY Zenon
  <1>2. /\ IsSeq(u) /\ L \in Nat /\ Len(u) = L + 1
        /\ \A k \in 1 .. L + 1 : u[k] = IF k <= L THEN t[k] ELSE p
    BY <1>1, AppendToSeq, SMTT(30) DEF TransmitsOK
  <1>3. /\ \A i \in 1 .. L : u[i] = t[i]
        /\ u[L + 1] = p
        /\ \A i \in 1 .. L + 1 : i \in 1 .. L \/ i = L + 1
    BY <1>2
  <1>4. Len(u) <= ChanSize
    BY <1>1, <1>2, SessionAssumption
  <1>5. ASSUME NEW i \in 1 .. L + 1
        PROVE  /\ u[i].type \in {"data", "cache_reset", "serial_notify", "error_report"}
               /\ u[i].serial \in 0 .. vrpCurrentSerial /\ u[i].list \in VrpList
               /\ u[i].type = "data" => HasData /\ u[i].serial >= s
    BY <1>1, <1>3 DEF TransmitsOK
  <1>6. ASSUME NEW i \in 1 .. L + 1, NEW j \in 1 .. L + 1, i < j,
               u[i].type = "data", u[j].type = "data"
        PROVE  u[i].serial <= u[j].serial
    <2>1. i \in 1 .. L
      BY <1>2, <1>6
    <2>2. CASE j = L + 1
      BY <1>1, <1>3, <1>6, <2>1, <2>2, SMTT(30)
    <2>3. CASE j \in 1 .. L
      BY <1>1, <1>3, <1>6, <2>1, <2>3, SMTT(30) DEF TransmitsOK
    <2> QED
      BY <1>3, <2>2, <2>3
  <1>7. TransmitsOK(u, s)
    BY <1>2, <1>4, <1>5, <1>6 DEF TransmitsOK
  <1> QED
    BY <1>1, <1>2, <1>3, <1>7

\* The first PDU is taken from transmits.
LEMMA PopTransmits ==
  ASSUME NEW t, NEW s, TransmitsOK(t, s), t # << >>
  PROVE  /\ TransmitsOK(Tail(t), s)
         /\ Len(t) \in Nat /\ Len(t) > 0 /\ Head(t) = t[1]
         /\ Len(Tail(t)) = Len(t) - 1
         /\ \A i \in 1 .. Len(t) - 1 : Tail(t)[i] = t[i + 1] /\ i + 1 \in 1 .. Len(t)
  <1>1. PICK u, L : u = Tail(t) /\ L = Len(t)
    BY Zenon
  <1>2. /\ IsSeq(u) /\ L \in Nat \ {0} /\ Head(t) = t[1] /\ Len(u) = L - 1
        /\ \A k \in 1 .. L - 1 : u[k] = t[k + 1]
    BY <1>1, TailOfSeq DEF TransmitsOK
  <1>3. \A i \in 1 .. L - 1 : i + 1 \in 1 .. L
    BY <1>2
  <1>4. Len(u) <= ChanSize
    BY <1>1, <1>2, SessionAssumption DEF TransmitsOK
  <1>5. ASSUME NEW i \in 1 .. L - 1, NEW j \in 1 .. L - 1, i < j
        PROVE  i + 1 < j + 1
    BY <1>2, <1>5
  <1>6. TransmitsOK(u, s)
    BY <1>1, <1>2, <1>3, <1>4, <1>5, SMTT(30) DEF TransmitsOK
  <1> QED
    BY <1>1, <1>2, <1>3, <1>6

\* SendPDU of a PDU that is not a response.
LEMMA LocalPush ==
  ASSUME NEW q, NEW t, NEW r, NEW on, NEW s, NEW v, NEW got,
         Local(q, t, r, on, s, v, got), Len(t) < ChanSize, NEW p,
         p.type \in {"cache_reset", "serial_notify", "error_report"},
         p.serial \in 0 .. vrpCurrentSerial, p.list \in VrpList
  PROVE  /\ Local(q, Append(t, p), r, on, s, v, got)
         /\ Decides(p) => \E i \in 1 .. Len(Append(t, p)) : Decides(Append(t, p)[i])
  <1>1. PICK u, L : u = Append(t, p) /\ L = Len(t)
    BY Zenon
  <1>2. /\ s \in 0 .. vrpCurrentSerial /\ QueriesOK(q, s) /\ TransmitsOK(t, s)
        /\ RequestOK(r, t, s) /\ HoldsOK(q, t, r, on, s, v, got)
    BY SMTT(30) DEF Local
  <1>3. /\ TransmitsOK(u, s) /\ L \in Nat /\ Len(u) = L + 1
        /\ \A i \in 1 .. L : u[i] = t[i]
        /\ u[L + 1] = p
        /\ \A i \in 1 .. L + 1 : i \in 1 .. L \/ i = L + 1
    BY <1>1, <1>2, PushTransmits, SMTT(30)
  <1>4. L + 1 \in 1 .. L + 1 /\ \A i \in 1 .. L : i \in 1 .. L + 1
    BY <1>3
  <1>5. RequestOK(r, u, s)
    BY <1>1, <1>2, <1>3, Zenon DEF RequestOK
  <1>6. ASSUME NEW i \in 1 .. L + 1, u[i].type = "data"
        PROVE  /\ Leads(u[i], s)
               /\ got # {} \/ Complete(u[i]) \/ \E j \in 1 .. i - 1 : Decides(u[j])
    <2>1. i \in 1 .. L /\ u[i] = t[i]
      BY <1>3, <1>6, Zenon
    <2>2. \A j \in 1 .. i - 1 : u[j] = t[j]
      BY <1>3, <2>1, SMTT(30)
    <2> QED
      BY <1>1, <1>2, <1>6, <2>1, <2>2, Zenon DEF HoldsOK
  <1>7. (\A i \in 1 .. L + 1 : ~Decides(u[i])) => \A i \in 1 .. L : ~Decides(t[i])
    BY <1>3, <1>4
  <1>8. HoldsOK(q, u, r, on, s, v, got)
    BY <1>1, <1>2, <1>3, <1>6, <1>7, Zenon DEF HoldsOK
  <1>9. Decides(p) => \E i \in 1 .. L + 1 : Decides(u[i])
    BY <1>3, <1>4, Zenon
  <1> QED
    BY <1>1, <1>2, <1>3, <1>5, <1>8, <1>9 DEF Local

\* Such a PDU.
Plain(p) ==
  /\ p.type \in {"cache_reset", "serial_notify", "error_report"}
  /\ p.serial \in 0 .. vrpCurrentSerial /\ p.list \in VrpList

Decided(t) == \E i \in 1 .. Len(t) : Decides(t[i])

\* The same, in the form the steps below use.
LEMMA LocalPlain ==
  ASSUME NEW q, NEW t, NEW r, NEW on, NEW s, NEW v, NEW got,
         Local(q, t, r, on, s, v, got), Len(t) < ChanSize, NEW p, Plain(p)
  PROVE  /\ Local(q, Append(t, p), r, on, s, v, got)
         /\ Decides(p) => Decided(Append(t, p))
  <1>1. /\ p.type \in {"cache_reset", "serial_notify", "error_report"}
        /\ p.serial \in 0 .. vrpCurrentSerial /\ p.list \in VrpList
    BY DEF Plain
  <1> QED
    BY <1>1, LocalPush DEF Decided

\* The first query is read once the first response is decided on.
LEMMA LocalPopQuery ==
  ASSUME NEW q, NEW t, NEW r, NEW on, NEW s, NEW v, NEW got,
         Local(q, t, r, on, s, v, got), q # << >>,
         on = {} \/ \E i \in 1 .. Len(t) : Decides(t[i])
  PROVE  Local(Tail(q), t, r, on, s, v, got)
  <1>1. PICK u, L : u = Tail(q) /\ L = Len(q)
    BY Zenon
  <1>2. /\ IsSeq(u) /\ L \in Nat \ {0} /\ Len(u) = L - 1
        /\ \A k \in 1 .. L - 1 : u[k] = q[k + 1]
    BY <1>1, TailOfSeq, SMTT(30) DEF Local, QueriesOK
  <1>3. \A k \in 1 .. L - 1 : k + 1 \in 1 .. L
    BY <1>2, SMTT(30)
  <1>4. QueriesOK(u, s)
    BY <1>1, <1>2, <1>3 DEF Local, QueriesOK
  <1>5. HoldsOK(u, t, r, on, s, v, got)
    BY Zenon DEF Local, HoldsOK
  <1> QED
    BY <1>1, <1>4, <1>5 DEF Local

\* RequestCache and RequestNewVersion read the serial.
LEMMA LocalSerial ==
  ASSUME NEW q, NEW t, NEW on, NEW s, NEW v, NEW got, StoreInv,
         Local(q, t, NoRequest, on, s, v, got), q # << >>, NEW r, r = Begun(Head(q))
  PROVE  Local(Tail(q), t, r, on, s, v, got)
  <1>1. PICK u, L : u = Tail(q) /\ L = Len(q)
    BY Zenon
  <1>2. /\ IsSeq(u) /\ L \in Nat \ {0} /\ Len(u) = L - 1 /\ Head(q) = q[1]
        /\ \A k \in 1 .. L - 1 : u[k] = q[k + 1]
    BY <1>1, TailOfSeq DEF Local, QueriesOK
  <1>3. 1 \in 1 .. L /\ \A k \in 1 .. L - 1 : k + 1 \in 1 .. L
    BY <1>2
  <1>4. QueriesOK(u, s)
    BY <1>1, <1>2, <1>3, SMTT(30) DEF Local, QueriesOK
  <1>5. /\ IF HasData THEN r.at = "data" /\ r.pdu.serial = vrpCurrentSerial
                      ELSE r.at = "send" /\ r.pdu.type = "error_report" /\ r.pdu.serial = 0
        /\ r.query = q[1] /\ r.pdu.list = NoVrps /\ DOMAIN r = {"at", "query", "pdu"}
        /\ {"type", "version", "serial", "list"} \subseteq DOMAIN r.pdu
    <2>1. CASE HasData
      <3>1. r = [NoRequest EXCEPT !.at = "data", !.query = q[1], !.pdu.serial = vrpCurrentSerial]
        BY <1>2, <2>1 DEF Begun
      <3>2. r = [at |-> "data", query |-> q[1], pdu |-> Pdu("none", vrpCurrentSerial, NoVrps)]
        BY <3>1, Zenon DEF NoRequest, Pdu
      <3> QED
        BY <2>1, <3>2 DEF Pdu
    <2>2. CASE ~HasData
      <3>1. r = [NoRequest EXCEPT !.at = "send", !.query = q[1],
                                  !.pdu = Pdu("error_report", 0, NoVrps)]
        BY <1>2, <2>2 DEF Begun
      <3>2. r = [at |-> "send", query |-> q[1], pdu |-> Pdu("error_report", 0, NoVrps)]
        BY <3>1, Zenon DEF NoRequest, Pdu
      <3> QED
        BY <2>2, <3>2 DEF Pdu
    <2> QED
      BY <2>1, <2>2, SMTT(30)
  <1>6. /\ vrpCurrentSerial \in Nat /\ NoVrps \in VrpList
        /\ s \in 0 .. vrpCurrentSerial
    BY DiffTypes DEF StoreInv, TypeOK, Serial, Local
  <1>7. q[1].type \in {"reset_query", "serial_query"} /\ q[1].serial \in 0 .. s
    BY <1>1, <1>3 DEF Local, QueriesOK
  <1>8. \A i \in 1 .. Len(t) : t[i].serial \in 0 .. vrpCurrentSerial
    BY SMTT(30) DEF Local, TransmitsOK
  <1>9. RequestOK(r, t, s)
    BY <1>5, <1>6, <1>7, <1>8 DEF RequestOK
  <1>10. HoldsOK(q, t, NoRequest, on, s, v, got) /\ NoRequest.at = "none"
    BY SMTT(30) DEF Local, NoRequest
  <1>11. HoldsOK(u, t, r, on, s, v, got)
    BY <1>5, <1>10 DEF HoldsOK, Decides
  <1> QED
    BY <1>1, <1>4, <1>9, <1>11 DEF Local

\* A difference that GetVRPsSerialDiff returns announces every current VRP
\* that was not valid all the time since the serial it is asked for.
LEMMA AnswerSteady ==
  ASSUME StoreInv, SteadyInv, HasData, NEW n \in Serial, HasSerialDiff(n)
  PROVE  /\ GetVRPsSerialDiff(n) \in VrpList
         /\ Announced(vrpCurrent) \subseteq Announced(GetVRPsSerialDiff(n)) \cup Stable(n)
  <1>1. PICK L, cur : L = Len(vrpListSerial) /\ cur = vrpCurrentSerial
    BY Zenon
  <1>2. PICK m \in 0 .. L - 1 : n = Back(cur, m)
    BY <1>1, Lookup, SMTT(30)
  <1>3. L \in Nat /\ cur \in Nat /\ L <= cur + 1
    BY <1>1, Lookup DEF SteadyInv, StoreInv, TypeOK, Serial
  <1>4. n = cur - m
    BY <1>2, <1>3 DEF Back
  <1>5. CASE m = 0
    <2>1. n = cur /\ cur .. cur = {cur}
      BY <1>3, <1>4, <1>5
    <2>2. GetVRPsSerialDiff(n) = NoVrps
      BY <1>1, <2>1 DEF GetVRPsSerialDiff
    <2>3. published[cur] = Announced(vrpCurrent)
      BY <1>1 DEF StoreInv, DiffsLeadToCurrent, HasData
    <2>4. Stable(n) = Announced(vrpCurrent)
      BY <1>1, <2>1, <2>3 DEF Stable, Announced
    <2> QED
      BY <2>2, <2>4, DiffTypes
  <1>6. CASE m > 0
    <2>1. GetVRPsSerialDiff(n) = vrpListDiff[L - m + 1]
      BY <1>1, <1>2, <1>6, Lookup
    <2>2. m \in 1 .. L - 1 /\ L - m + 1 \in 1 .. L
      BY <1>2, <1>3, <1>6
    <2>3. vrpListDiff[L - m + 1] \in VrpList
      BY <1>1, <2>2 DEF StoreInv, TypeOK, SerialsConsecutive
    <2> QED
      BY <1>1, <1>4, <2>1, <2>2, <2>3, SMTT(30) DEF SteadyInv
  <1> QED
    BY <1>3, <1>5, <1>6

\* Stable grows with the serial, and only has current VRPs.
LEMMA StableGrows ==
  ASSUME StoreInv, HasData, NEW n \in 0 .. vrpCurrentSerial
  PROVE  /\ Stable(n) \subseteq Announced(vrpCurrent)
         /\ \A m \in 0 .. n : Stable(m) \subseteq Stable(n)
  <1>1. vrpCurrentSerial \in Nat /\ vrpCurrentSerial \in n .. vrpCurrentSerial
    BY DEF StoreInv, TypeOK, Serial
  <1>2. published[vrpCurrentSerial] = Announced(vrpCurrent)
    BY DEF StoreInv, DiffsLeadToCurrent, HasData
  <1>3. \A m \in 0 .. n : n .. vrpCurrentSerial \subseteq m .. vrpCurrentSerial
    BY <1>1
  <1> QED
    BY <1>1, <1>2, <1>3 DEF Stable

\* GetCurrentVRPs or GetVRPsSerialDiff, an update or more after the serial was
\* read.
LEMMA LocalData ==
  ASSUME NEW q, NEW t, NEW r, NEW on, NEW s, NEW v, NEW got, StoreInv, SteadyInv,
         Local(q, t, r, on, s, v, got), r.at = "data", NEW r2,
         r2 = [r EXCEPT !.at = "send", !.pdu = Answer(r.query, r.pdu.serial)]
  PROVE  Local(q, t, r2, on, s, v, got)
  <1>1. /\ s \in 0 .. vrpCurrentSerial /\ RequestOK(r, t, s)
        /\ HoldsOK(q, t, r, on, s, v, got)
    BY DEF Local
  <1>2. PICK n, p : n = r.pdu.serial /\ p = Answer(r.query, n)
    OBVIOUS
  <1>3. /\ r2.at = "send" /\ r2.query = r.query /\ r2.pdu = p
        /\ {"at", "query", "pdu"} \subseteq DOMAIN r2
    BY <1>1, <1>2 DEF RequestOK
  <1>4. /\ HasData /\ n \in 0 .. vrpCurrentSerial /\ n >= s /\ vrpCurrentSerial \in Nat
        /\ r.query.type \in {"reset_query", "serial_query"} /\ r.query.serial \in 0 .. s
        /\ \A i \in 1 .. Len(t) : t[i].type = "data" => t[i].serial <= n
    BY <1>1, <1>2 DEF RequestOK, StoreInv, TypeOK, Serial
  <1>5. /\ Stable(n) \subseteq Announced(vrpCurrent)
        /\ \A m \in 0 .. s : Stable(m) \subseteq Stable(s)
    BY <1>1, <1>4, StableGrows
  <1>6. /\ p.type \in {"data", "cache_reset"} /\ p.list \in VrpList
        /\ {"type", "version", "serial", "list"} \subseteq DOMAIN p
        /\ p.type = "data" => p.serial = n /\ Leads(p, s)
        /\ p.type # "data" => p.serial = 0
        /\ r.query.type = "reset_query" => p.type = "data" /\ Complete(p)
    <2>1. CASE r.query.type = "reset_query"
      <3>1. p = Pdu("data", n, vrpCurrent)
        BY <1>2, <2>1 DEF Answer, GetCurrentVRPs
      <3>2. /\ p.type = "data" /\ p.serial = n /\ p.list = vrpCurrent
            /\ {"type", "version", "serial", "list"} \subseteq DOMAIN p
        BY <3>1 DEF Pdu
      <3>3. vrpCurrent \in VrpList /\ Withdrawn(vrpCurrent) = {}
        BY DEF StoreInv, TypeOK, DiffsLeadToCurrent
      <3>4. Complete(p) /\ Leads(p, s)
        BY <1>5, <3>2, <3>3 DEF Complete, Leads
      <3> QED
        BY <3>2, <3>3, <3>4
    <2>2. CASE r.query.type # "reset_query" /\ HasSerialDiff(r.query.serial)
      <3>1. PICK m, d : m = r.query.serial /\ d = GetVRPsSerialDiff(m)
        OBVIOUS
      <3>2. p = Pdu("data", n, d)
        BY <1>2, <2>2, <3>1 DEF Answer
      <3>3. /\ p.type = "data" /\ p.serial = n /\ p.list = d
            /\ {"type", "version", "serial", "list"} \subseteq DOMAIN p
        BY <3>2 DEF Pdu
      <3>4. m \in Serial
        BY <1>1, <1>4, <3>1, StoreAssumption, SMTT(30) DEF Serial, StoreInv, TypeOK
      <3>5. d \in VrpList /\ Announced(vrpCurrent) \subseteq Announced(d) \cup Stable(m)
        BY <1>4, <2>2, <3>1, <3>4, AnswerSteady, SMTT(30)
      <3>6. Withdrawn(d) \cap Announced(vrpCurrent) = {}
        BY <1>4, <2>2, <3>1, <3>4, AnswerLeads, SMTT(30) DEF Delta
      <3>7. Stable(m) \subseteq Stable(s)
        BY <1>4, <1>5, <3>1
      <3>8. Leads(p, s)
        BY <1>5, <3>3, <3>5, <3>6, <3>7 DEF Leads
      <3> QED
        BY <2>2, <3>3, <3>5, <3>8
    <2>3. CASE r.query.type # "reset_query" /\ ~HasSerialDiff(r.query.serial)
      <3>1. p = Pdu("cache_reset", 0, NoVrps)
        BY <1>2, <2>3 DEF Answer
      <3> QED
        BY <2>3, <3>1, DiffTypes DEF Pdu
    <2> QED
      BY <2>1, <2>2, <2>3
  <1>7. RequestOK(r2, t, s)
    BY <1>3, <1>4, <1>6 DEF RequestOK
  <1>8. HoldsOK(q, t, r2, on, s, v, got)
    <2>1. r.at # "none" /\ r2.at # "none" /\ r2.at = "send" /\ r2.query = r.query /\ r2.pdu = p
      BY <1>3
    <2> QED
      BY <1>1, <1>6, <2>1 DEF HoldsOK, Decides
  <1> QED
    BY <1>7, <1>8 DEF Local

\* No request is handled.
LEMMA NoRequestOK ==
  ASSUME StoreInv, NEW t, NEW s \in 0 .. vrpCurrentSerial
  PROVE  RequestOK(NoRequest, t, s) /\ NoRequest.at = "none"
  <1>1. vrpCurrentSerial \in Nat
    BY SMTT(30) DEF StoreInv, TypeOK, Serial
  <1>2. /\ NoRequest.at = "none" /\ NoRequest.query.type = "reset_query"
        /\ NoRequest.query.serial = 0 /\ NoRequest.pdu.serial = 0
        /\ NoRequest.pdu.list = NoVrps /\ DOMAIN NoRequest = {"at", "query", "pdu"}
        /\ {"type", "version", "serial", "list"} \subseteq DOMAIN NoRequest.pdu
    BY DEF NoRequest, ResetQuery, Pdu
  <1>3. PICK z : z = NoRequest
    BY SMTT(30)
  <1>4. RequestOK(z, t, s)
    BY <1>1, <1>2, <1>3, DiffTypes DEF RequestOK
  <1> QED
    BY <1>2, <1>3, <1>4

\* The goroutine is through with a request.
LEMMA LocalAnswered ==
  ASSUME NEW q, NEW t, NEW r, NEW on, NEW s, NEW v, NEW got, StoreInv,
         Local(q, t, r, on, s, v, got),
         on = {} \/ got # {} \/ \E i \in 1 .. Len(t) : Decides(t[i])
  PROVE  Local(q, t, NoRequest, on, s, v, got)
  <1>1. s \in 0 .. vrpCurrentSerial /\ HoldsOK(q, t, r, on, s, v, got)
    BY DEF Local
  <1>2. PICK z : z = NoRequest
    OBVIOUS
  <1>3. RequestOK(z, t, s) /\ z.at = "none"
    BY <1>1, <1>2, NoRequestOK
  <1>4. HoldsOK(q, t, z, on, s, v, got)
    BY <1>1, <1>3, Zenon DEF HoldsOK
  <1> QED
    BY <1>2, <1>3, <1>4 DEF Local

\* The PDUs p and e differ in their versions at most.
Alike(p, e) == p.type = e.type /\ p.serial = e.serial /\ p.list = e.list

\* SendVRPs, SendCacheReset or SendNoDataError, on a connection that is open.
LEMMA LocalSend ==
  ASSUME NEW q, NEW t, NEW r, NEW on, NEW s, NEW v, NEW got, StoreInv, on # {},
         Local(q, t, r, on, s, v, got), r.at = "send", Len(t) < ChanSize,
         NEW p, Alike(p, r.pdu)
  PROVE  Local(q, Append(t, p), NoRequest, on, s, v, got)
  <1>1. PICK u, L, z : u = Append(t, p) /\ L = Len(t) /\ z = NoRequest
    BY ZenonT(30)
  <1>7. /\ p.type = r.pdu.type /\ p.serial = r.pdu.serial /\ p.list = r.pdu.list
        /\ Leads(r.pdu, s) => Leads(p, s)
        /\ Complete(r.pdu) => Complete(p)
        /\ Decides(r.pdu) => Decides(p)
    BY DEF Alike, Leads, Complete, Decides
  <1>2. /\ s \in 0 .. vrpCurrentSerial /\ QueriesOK(q, s) /\ TransmitsOK(t, s)
        /\ RequestOK(r, t, s) /\ HoldsOK(q, t, r, on, s, v, got)
    BY DEF Local
  <1>3. /\ p.type \in {"data", "cache_reset", "error_report"}
        /\ p.serial \in 0 .. vrpCurrentSerial /\ p.list \in VrpList
        /\ p.type = "data" =>
             /\ HasData /\ p.serial >= s
             /\ \A i \in 1 .. L : t[i].type = "data" => t[i].serial <= p.serial
    BY <1>1, <1>7, <1>2, Zenon DEF RequestOK
  <1>4. CASE p.type = "data"
    <2>1. /\ TransmitsOK(u, s) /\ L \in Nat /\ Len(u) = L + 1
          /\ \A i \in 1 .. L : u[i] = t[i]
          /\ u[L + 1] = p
          /\ \A i \in 1 .. L + 1 : i \in 1 .. L \/ i = L + 1
      BY <1>1, <1>2, <1>3, <1>4, PushTransmits, SMTT(30)
    <2>2. L + 1 \in 1 .. L + 1 /\ 1 .. (L + 1) - 1 = 1 .. L
      BY <2>1
    <2>3. Leads(p, s)
      BY <1>1, <1>7, <1>2, <1>4, Zenon DEF HoldsOK
    <2>4. got # {} \/ Complete(p) \/ \E j \in 1 .. L : Decides(t[j])
      BY <1>1, <1>7, <1>2, <1>4, Zenon DEF HoldsOK
    <2>5. ASSUME NEW i \in 1 .. L + 1, u[i].type = "data"
          PROVE  /\ Leads(u[i], s)
                 /\ got # {} \/ Complete(u[i]) \/ \E j \in 1 .. i - 1 : Decides(u[j])
      <3>1. CASE i = L + 1
        BY <2>1, <2>2, <2>3, <2>4, <3>1, Zenon
      <3>2. CASE i \in 1 .. L
        <4>1. u[i] = t[i] /\ \A j \in 1 .. i - 1 : u[j] = t[j]
          BY <2>1, <3>2, SMTT(30)
        <4> QED
          BY <1>1, <1>2, <2>5, <3>2, <4>1, ZenonT(30) DEF HoldsOK
      <3> QED
        BY <2>1, <3>1, <3>2, Zenon
    <2>6. \E i \in 1 .. L + 1 : Decides(u[i])
      BY <1>4, <2>1, <2>2, SMTT(30) DEF Decides
    <2>7. RequestOK(z, u, s) /\ z.at = "none"
      BY <1>1, <1>2, NoRequestOK
    <2>8. HoldsOK(q, u, z, on, s, v, got)
      BY <1>2, <2>1, <2>5, <2>6, <2>7, Zenon DEF HoldsOK
    <2> QED
      BY <1>1, <1>2, <2>1, <2>7, <2>8, ZenonT(30) DEF Local
  <1>5. CASE p.type = "cache_reset"
    <2>0. ~Decides(r.pdu)
      BY <1>7, <1>5 DEF Decides
    <2>1. got # {} \/ \E j \in 1 .. L : Decides(t[j])
      BY <1>1, <1>2, <2>0, Zenon DEF HoldsOK
    <2>2. Local(q, t, z, on, s, v, got)
      BY <1>1, <2>1, LocalAnswered, SMTT(30)
    <2>3. Plain(p)
      BY <1>3, <1>5 DEF Plain
    <2>4. Local(q, u, z, on, s, v, got)
      BY <1>1, <2>2, <2>3, LocalPlain, Zenon
    <2> QED
      BY <1>1, <2>4, SMTT(30)
  <1>6. CASE p.type = "error_report"
    <2>1. Plain(p) /\ Decides(p)
      BY <1>3, <1>6 DEF Plain, Decides
    <2>2. Local(q, u, r, on, s, v, got) /\ Decided(u)
      BY <1>1, <2>1, LocalPlain, Zenon
    <2> QED
      BY <1>1, <2>2, LocalAnswered, ZenonT(30) DEF Decided
  <1> QED
    BY <1>3, <1>4, <1>5, <1>6, Zenon

\* Start opens a connection; its first query is a Reset Query.
LEMMA LocalDial ==
  ASSUME NEW q, NEW t, NEW on, NEW s, NEW v, NEW got, StoreInv,
         Local(q, t, NoRequest, on, s, v, got), NEW on2
  PROVE  Local(<<ResetQuery(1)>>, << >>, NoRequest, on2, s, v, got)
  <1>1. PICK q2, t2, z : q2 = <<ResetQuery(1)>> /\ t2 = << >> /\ z = NoRequest
    BY Zenon
  <1>2. /\ s \in 0 .. vrpCurrentSerial /\ vrpCurrentSerial \in Nat
        /\ HoldsOK(q, t, z, on, s, v, got)
    BY <1>1 DEF Local, StoreInv, TypeOK, Serial
  <1>3. /\ IsSeq(q2) /\ Len(q2) = 1 /\ q2[1] = ResetQuery(1)
        /\ IsSeq(t2) /\ Len(t2) = 0
    <2>1. q2 \in Seq({ResetQuery(1)}) /\ t2 \in Seq({})
      BY <1>1
    <2>2. IsSeq(q2) /\ IsSeq(t2)
      BY <2>1, Zenon DEF IsSeq
    <2>3. Len(q2) = 1 /\ q2[1] = ResetQuery(1)
      BY <1>1
    <2>4. Len(t2) = 0
      BY <1>1, SMTT(30)
    <2> QED
      BY <2>2, <2>3, <2>4
  <1>4. q2[1].type = "reset_query" /\ q2[1].serial = 0
    BY <1>3, SMTT(30) DEF ResetQuery
  <1>5. QueriesOK(q2, s)
    BY <1>2, <1>3, <1>4, SMTT(30) DEF QueriesOK
  <1>6. TransmitsOK(t2, s)
    BY <1>3, SessionAssumption, SMTT(30) DEF TransmitsOK
  <1>7. RequestOK(z, t2, s) /\ z.at = "none"
    BY <1>1, <1>2, NoRequestOK, SMTT(30)
  <1>8. HoldsOK(q2, t2, z, on2, s, v, got)
    <2>1. Len(q2) > 0 /\ \A i : i \notin 1 .. Len(t2)
      BY <1>3
    <2> QED
      BY <1>2, <1>4, <1>7, <2>1, Zenon DEF HoldsOK
  <1> QED
    BY <1>1, <1>2, <1>5, <1>6, <1>7, <1>8 DEF Local

\* continuousRTR sends a Serial Query.
LEMMA LocalPoll ==
  ASSUME NEW q, NEW t, NEW r, NEW on, NEW s, NEW v, NEW got,
         Local(q, t, r, on, s, v, got), NEW n
  PROVE  Local(Append(q, SerialQuery(n, s)), t, r, on, s, v, got)
  <1>1. PICK u, L, e : u = Append(q, e) /\ L = Len(q) /\ e = SerialQuery(n, s)
    BY Zenon
  <1>2. /\ IsSeq(u) /\ L \in Nat /\ Len(u) = L + 1
        /\ \A k \in 1 .. L + 1 : u[k] = IF k <= L THEN q[k] ELSE e
    BY <1>1, AppendToSeq, Zenon DEF Local, QueriesOK
  <1>3. e.type = "serial_query" /\ e.serial = s /\ s \in 0 .. s
    BY <1>1, SMTT(30) DEF SerialQuery, Local
  <1>4. \A k \in 1 .. L + 1 : IF k <= L THEN k \in 1 .. L /\ u[k] = q[k] ELSE u[k] = e
    BY <1>2
  <1>5. QueriesOK(u, s)
    BY <1>1, <1>2, <1>3, <1>4, Zenon DEF QueriesOK, Local
  <1>6. L > 0 => Len(u) > 0 /\ u[1] = q[1]
    BY <1>2
  <1>7. HoldsOK(u, t, r, on, s, v, got)
    BY <1>1, <1>6, Zenon DEF HoldsOK, Local
  <1> QED
    BY <1>1, <1>5, <1>7 DEF Local

\* HandlePDU on a response: the client ends with every VRP that has been valid
\* since the serial it now holds.
LEMMA LocalReceive ==
  ASSUME NEW q, NEW t, NEW r, NEW on, NEW s, NEW v, NEW got, StoreInv,
         Local(q, t, r, on, s, v, got), t # << >>, NEW p, p = Head(t), p.type = "data",
         NEW got2, got2 # {}
  PROVE  /\ Local(q, Tail(t), r, on, p.serial, Receive(p.list, v), got2)
         /\ p.serial >= s
  <1>1. PICK u, L, n, w : /\ u = Tail(t) /\ L = Len(t)
                          /\ n = p.serial /\ w = Receive(p.list, v)
    BY Zenon
  <1>2. /\ s \in 0 .. vrpCurrentSerial /\ QueriesOK(q, s) /\ TransmitsOK(t, s)
        /\ RequestOK(r, t, s) /\ HoldsOK(q, t, r, on, s, v, got)
        /\ vrpCurrentSerial \in Nat
    BY DEF Local, StoreInv, TypeOK, Serial
  <1>3. /\ TransmitsOK(u, s) /\ L \in Nat /\ L > 0 /\ p = t[1] /\ Len(u) = L - 1
        /\ \A i \in 1 .. L - 1 : u[i] = t[i + 1] /\ i + 1 \in 1 .. L
    BY <1>1, <1>2, PopTransmits, ZenonT(30)
  <1>4. 1 \in 1 .. L /\ 1 .. 1 - 1 = {} /\ \A i \in 1 .. L - 1 : 1 < i + 1
    BY <1>3, SMTT(30)
  <1>5. /\ HasData /\ n \in 0 .. vrpCurrentSerial /\ n >= s
        /\ p.list \in VrpList
        /\ \A i \in 2 .. L : t[i].type = "data" => n <= t[i].serial
    <2>1. HasData /\ n \in 0 .. vrpCurrentSerial /\ n >= s /\ p.list \in VrpList
      BY <1>1, <1>2, <1>3, <1>4, Zenon DEF TransmitsOK
    <2>2. \A i \in 2 .. L : i \in 1 .. L /\ 1 < i
      BY <1>3
    <2>3. \A i \in 2 .. L : t[i].type = "data" => n <= t[i].serial
      BY <1>1, <1>2, <1>3, <1>4, <2>2, ZenonT(30) DEF TransmitsOK
    <2> QED
      BY <2>1, <2>3
  <1>6. QueriesOK(q, n)
    BY <1>2, <1>5 DEF QueriesOK
  <1>7. TransmitsOK(u, n)
    <2>1. \A i \in 1 .. L - 1 : u[i].type = "data" => n <= u[i].serial
      BY <1>1, <1>2, <1>3, <1>4, Zenon DEF TransmitsOK
    <2> QED
      BY <1>3, <1>5, <2>1, Zenon DEF TransmitsOK
  <1>8. RequestOK(r, u, n)
    <2>1. r.query.serial \in 0 .. n
      BY <1>2, <1>5 DEF RequestOK
    <2>2. ASSUME r.at = "data" \/ (r.at = "send" /\ r.pdu.type = "data")
          PROVE  /\ r.pdu.serial >= n
                 /\ \A i \in 1 .. L - 1 : u[i].type = "data" => u[i].serial <= r.pdu.serial
      <3>1. \A i \in 1 .. L : t[i].type = "data" => t[i].serial <= r.pdu.serial
        BY <1>1, <1>2, <2>2, Zenon DEF RequestOK
      <3>2. r.pdu.serial \in 0 .. vrpCurrentSerial
        BY <1>2, Zenon DEF RequestOK
      <3> QED
        BY <1>1, <1>3, <1>4, <1>5, <3>1, <3>2, Zenon
    <2> QED
      BY <1>2, <1>3, <2>1, <2>2, ZenonT(30) DEF RequestOK
  <1>9. Leads(p, s) /\ (got # {} \/ Complete(p))
    BY <1>1, <1>2, <1>3, <1>4, Zenon DEF HoldsOK
  <1>10. Stable(n) \subseteq w /\ w \subseteq Keys
    <2>1. got # {} => Stable(s) \subseteq v
      BY <1>2, Zenon DEF HoldsOK
    <2>2. v \subseteq Keys /\ Announced(p.list) \subseteq Keys
      BY <1>2, Zenon DEF HoldsOK, Announced
    <2>3. Stable(n) \cap Withdrawn(p.list) = {} /\ Stable(n) \subseteq v \cup Announced(p.list)
      BY <1>1, <1>9, <2>1, SMTT(30) DEF Leads, Complete
    <2> QED
      BY <1>1, <2>2, <2>3 DEF Receive
  <1>11. Stable(s) \subseteq Stable(n)
    BY <1>2, <1>5, StableGrows, SMTT(30)
  <1>12. \A x : Leads(x, s) => Leads(x, n)
    BY <1>11 DEF Leads
  <1>13. HoldsOK(q, u, r, on, n, w, got2)
    BY <1>1, <1>2, <1>3, <1>5, <1>10, <1>12, ZenonT(30) DEF HoldsOK
  <1> QED
    BY <1>1, <1>5, <1>6, <1>7, <1>8, <1>13, SMTT(30) DEF Local

\* HandlePDU on a PDU that is only logged.
LEMMA LocalLogged ==
  ASSUME NEW q, NEW t, NEW r, NEW on, NEW s, NEW v, NEW got,
         Local(q, t, r, on, s, v, got), t # << >>, ~Decides(Head(t))
  PROVE  Local(q, Tail(t), r, on, s, v, got)
  <1>1. PICK u, L : u = Tail(t) /\ L = Len(t)
    BY Zenon
  <1>2. /\ s \in 0 .. vrpCurrentSerial /\ QueriesOK(q, s) /\ TransmitsOK(t, s)
        /\ RequestOK(r, t, s) /\ HoldsOK(q, t, r, on, s, v, got)
    BY SMTT(30) DEF Local
  <1>3. /\ TransmitsOK(u, s) /\ L \in Nat /\ L > 0 /\ Head(t) = t[1] /\ Len(u) = L - 1
        /\ \A i \in 1 .. L - 1 : u[i] = t[i + 1] /\ i + 1 \in 1 .. L
    BY <1>1, <1>2, PopTransmits
  <1>4. RequestOK(r, u, s)
    BY <1>1, <1>2, <1>3, Zenon DEF RequestOK
  <1>5. ASSUME NEW j \in 1 .. L, Decides(t[j])
        PROVE  j - 1 \in 1 .. L - 1 /\ u[j - 1] = t[j]
    <2>1. j # 1
      BY <1>3, <1>5
    <2>2. j - 1 \in 1 .. L - 1 /\ (j - 1) + 1 = j
      BY <1>3, <2>1, SMTT(30)
    <2> QED
      BY <1>3, <2>2
  <1>6. ASSUME NEW i \in 1 .. L - 1, u[i].type = "data"
        PROVE  /\ Leads(u[i], s)
               /\ got # {} \/ Complete(u[i]) \/ \E j \in 1 .. i - 1 : Decides(u[j])
    <2>1. u[i] = t[i + 1] /\ i + 1 \in 1 .. L
      BY <1>3
    <2>2. /\ Leads(t[i + 1], s)
          /\ got # {} \/ Complete(t[i + 1]) \/ \E j \in 1 .. (i + 1) - 1 : Decides(t[j])
      BY <1>1, <1>2, <1>6, <2>1, Zenon DEF HoldsOK
    <2>3. ASSUME NEW j \in 1 .. (i + 1) - 1, Decides(t[j])
          PROVE  \E k \in 1 .. i - 1 : Decides(u[k])
      <3>1. j \in 1 .. L
        BY <1>3
      <3>2. j - 1 \in 1 .. L - 1 /\ u[j - 1] = t[j]
        BY <1>5, <2>3, <3>1, SMTT(30)
      <3>3. j - 1 \in 1 .. i - 1
        BY <1>3, <3>2
      <3> QED
        BY <2>3, <3>2, <3>3, SMTT(30)
    <2> QED
      BY <2>1, <2>2, <2>3
  <1>7. (\A i \in 1 .. L - 1 : ~Decides(u[i])) => \A i \in 1 .. L : ~Decides(t[i])
    BY <1>5
  <1>8. HoldsOK(q, u, r, on, s, v, got)
    BY <1>1, <1>2, <1>3, <1>6, <1>7, Zenon DEF HoldsOK
  <1> QED
    BY <1>1, <1>2, <1>3, <1>4, <1>8 DEF Local

\* One end closes the connection; the other still reads what is on its way.
LEMMA LocalOff ==
  ASSUME NEW q, NEW t, NEW r, NEW on, NEW s, NEW v, NEW got,
         Local(q, t, r, on, s, v, got)
  PROVE  Local(q, t, r, {}, s, v, got)
  <1>1. HoldsOK(q, t, r, {}, s, v, got)
    BY Zenon DEF Local, HoldsOK
  <1> QED
    BY <1>1, Zenon DEF Local

\* The connection is closed; what was on its way is lost.
LEMMA LocalClosed ==
  ASSUME NEW q, NEW t, NEW r, NEW on, NEW s, NEW v, NEW got,
         Local(q, t, r, on, s, v, got)
  PROVE  Local(<< >>, << >>, r, {}, s, v, got)
  <1>1. PICK e : e = << >>
    OBVIOUS
  <1>2. IsSeq(e) /\ Len(e) = 0
    <2>1. e \in Seq({})
      BY <1>1
    <2> QED
      BY <1>1, <2>1 DEF IsSeq
  <1>3. QueriesOK(e, s)
    BY <1>2, SMTT(30) DEF QueriesOK
  <1>4. TransmitsOK(e, s)
    BY <1>2, SessionAssumption, SMTT(30) DEF TransmitsOK
  <1>5. RequestOK(r, e, s)
    BY <1>2 DEF RequestOK, Local
  <1>6. HoldsOK(e, e, r, {}, s, v, got)
    <2>1. HoldsOK(q, t, r, on, s, v, got)
      BY Zenon DEF Local
    <2>2. \A i : i \notin 1 .. Len(e)
      BY <1>2
    <2> QED
      BY <2>1, <2>2, Zenon DEF HoldsOK
  <1> QED
    BY <1>1, <1>3, <1>4, <1>5, <1>6, SMTT(30) DEF Local

=============================================================================
