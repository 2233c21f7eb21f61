--------------------------- MODULE RtrSessionProofs ---------------------------
(***************************************************************************)
(* What the sessions of any number of clients keep, for any VRPs, any      *)
(* KeepDiff, any number of updates before the serial wraps, and any sizes  *)
(* of the channels.                                                        *)
(***************************************************************************)
EXTENDS RtrSessionFacts

-----------------------------------------------------------------------------
(* The steps of the system. *)

\* The flags of the other clients stay.
Untouched(d) ==
  /\ queries'[d] = queries[d] /\ transmits'[d] = transmits[d] /\ request'[d] = request[d]
  /\ connected'[d] = connected[d] /\ serial'[d] = serial[d] /\ vrps'[d] = vrps[d]
  /\ lastUpdate'[d] = lastUpdate[d] /\ closed'[d] = closed[d]

\* A step of the session of one client.
LEMMA OneClient ==
  ASSUME SessionInv, UNCHANGED vars, UpdaterInv', Shaped', NEW c,
         \A d \in Clients \ {c} : Untouched(d),
         c \in Clients =>
           Local(queries'[c], transmits'[c], request'[c], On(c)', serial'[c],
                 vrps'[c], Flag(lastUpdate', c))
  PROVE  SessionInv'
  <1>1. StoreInv'
    BY Zenon DEF SessionInv, vars, storeVars, addVars, StoreInv, TypeOK, SerialsConsecutive,
           MapPointsAtDiffs, WindowSerials, DiffsLeadToCurrent, LocalsFresh
  <1>2. SteadyInv'
    BY Zenon DEF SessionInv, vars, storeVars, SteadyInv, Stable
  <1>3. ASSUME NEW d \in Clients PROVE ClientOK(d)'
    <2>1. PICK q, t, r, on, s, v, got :
            /\ q = queries'[d] /\ t = transmits'[d] /\ r = request'[d]
            /\ on = On(d)' /\ s = serial'[d] /\ v = vrps'[d]
            /\ got = Flag(lastUpdate', d)
      BY Zenon
    <2>2. Local(q, t, r, on, s, v, got)
      <3>1. CASE d = c
        BY <2>1, <3>1, Zenon
      <3>2. CASE d # c
        <4>1. Untouched(d) /\ ClientOK(d)
          BY <3>2, Zenon DEF SessionInv
        <4>2. On(d)' = On(d) /\ Flag(lastUpdate', d) = Flag(lastUpdate, d)
          BY <4>1, Zenon DEF Untouched, Flag, On, Open
        <4> QED
          BY <2>1, <4>1, <4>2, Zenon DEF Untouched, ClientOK
      <3> QED
        BY <3>1, <3>2, Zenon
    <2>3. Local(q, t, r, on, s, v, got)'
      BY <2>2, SameLocal, Zenon
    <2> QED
      BY <2>1, <2>3, Zenon DEF ClientOK
  <1> QED
    BY <1>1, <1>2, <1>3, Zenon DEF SessionInv

\* A step of no client's session.
LEMMA NoClient ==
  ASSUME SessionInv, UNCHANGED vars, UpdaterInv',
         UNCHANGED <<request, clientVars, netVars>>
  PROVE  SessionInv'
  <1>1. UNCHANGED <<request, queries, transmits, connected, closed, serial, vrps, lastUpdate, told>>
    BY SMTT(30) DEF clientVars, netVars
  <1>2. Shaped'
    BY <1>1, Zenon DEF SessionInv, Shaped
  <1>3. \A d \in Clients : Untouched(d)
    BY <1>1, Zenon DEF Untouched
  <1>4. PICK c : c \notin Clients
    <2>1. {d \in Clients : d \notin d} \notin Clients
      OBVIOUS
    <2> QED
      BY <2>1
  <1> QED
    BY <1>2, <1>3, <1>4, OneClient, Zenon

\* Nobody is connected at first.
LEMMA SessionInvInit == SessionInit => SessionInv
  <1> SUFFICES ASSUME SessionInit PROVE SessionInv
    OBVIOUS
  <1>1. StoreInv
    BY InitInv, SMTT(30) DEF SessionInit
  <1>2. UpdaterInv /\ Shaped
    BY DEF SessionInit, Init, UpdaterInv, Shaped
  <1>3. SteadyInv
    BY DEF SessionInit, Init, SteadyInv
  <1>4. ASSUME NEW c \in Clients PROVE ClientOK(c)
    <2>1. PICK e, z : e = << >> /\ z = NoRequest
      OBVIOUS
    <2>2. IsSeq(e) /\ Len(e) = 0
      <3>1. e \in Seq({})
        BY <2>1, SMTT(30)
      <3> QED
        BY <2>1, <3>1 DEF IsSeq
    <2>3. /\ queries[c] = e /\ transmits[c] = e /\ request[c] = z /\ serial[c] = 0
          /\ vrps[c] = {} /\ ~connected[c] /\ ~lastUpdate[c] /\ vrpCurrentSerial = 0
      BY <2>1, SMTT(30) DEF SessionInit, Init
    <2>4. On(c) = {} /\ Flag(lastUpdate, c) = {}
      BY <2>3 DEF Flag, On, Open
    <2>5. 0 \in 0 .. vrpCurrentSerial
      BY <2>3
    <2>6. RequestOK(z, e, 0) /\ z.at = "none"
      BY <1>1, <2>1, <2>5, NoRequestOK, SMTT(30)
    <2>7. QueriesOK(e, 0) /\ TransmitsOK(e, 0)
      BY <2>2, SessionAssumption, SMTT(30) DEF QueriesOK, TransmitsOK
    <2>8. HoldsOK(e, e, z, {}, 0, {}, {})
      BY <2>2, <2>6 DEF HoldsOK
    <2>9. Local(e, e, z, {}, 0, {}, {})
      BY <2>5, <2>6, <2>7, <2>8 DEF Local
    <2> QED
      BY <2>3, <2>4, <2>9, Zenon DEF ClientOK
  <1> QED
    BY <1>1, <1>2, <1>3, <1>4 DEF SessionInv

\* AddVRPs and what AddVRPsDiff reads; the sessions go on as they were.
LEMMA InvUpdating ==
  ASSUME SessionInv, (\E list \in SUBSET Keys : UpdateBegin(list)) \/ UpdateApply
  PROVE  SessionInv'
  <1>1. /\ UNCHANGED sessionVars
        /\ (\E list \in SUBSET Keys : AddVRPs(list)) \/ AddVRPsDiffApply
        /\ StoreInv
    BY DEF UpdateBegin, UpdateApply, SessionInv
  <1>2. UNCHANGED storeVars
    BY <1>1 DEF AddVRPs, AddVRPsDiffApply
  <1>3. StoreInv'
    BY <1>1, AddVRPsInv, AddVRPsDiffApplyInv, SMTT(30)
  <1>4. SteadyInv'
    BY <1>2 DEF SessionInv, storeVars, SteadyInv, Stable
  <1>5. UpdaterInv'
    BY <1>1, <1>2, Zenon DEF SessionInv, UpdaterInv, sessionVars, serverVars, storeVars,
          UpdateBegin, UpdateApply, AddVRPs, AddVRPsDiffApply
  <1>6. Shaped'
    BY <1>1, Zenon DEF SessionInv, Shaped, sessionVars, serverVars, clientVars, netVars
  <1>7. ASSUME NEW c \in Clients PROVE ClientOK(c)'
    <2>1. ClientOK(c)
      BY DEF SessionInv
    <2>2. UNCHANGED <<queries[c], transmits[c], request[c], On(c), serial[c],
                      vrps[c], Flag(lastUpdate, c), vrpCurrentSerial, published,
                      vrpListSerial>>
      BY <1>1, <1>2, Zenon DEF sessionVars, serverVars, clientVars, netVars, storeVars, Flag, On, Open
    <2>3. PICK q, t, r, on, s, v, got :
            /\ q = queries[c] /\ t = transmits[c] /\ r = request[c]
            /\ on = On(c) /\ s = serial[c] /\ v = vrps[c]
            /\ got = Flag(lastUpdate, c)
      OBVIOUS
    <2>4. Local(q, t, r, on, s, v, got)
      BY <2>1, <2>3, Zenon DEF ClientOK
    <2>5. Local(q, t, r, on, s, v, got)'
      BY <2>2, <2>4, Zenon DEF Local, TransmitsOK, RequestOK, HoldsOK, Leads, Complete, Stable,
                        HasData
    <2> QED
      BY <2>2, <2>3, <2>5, Zenon DEF ClientOK
  <1> QED
    BY <1>3, <1>4, <1>5, <1>6, <1>7 DEF SessionInv

\* AddVRPsDiff stores a version.
LEMMA InvStore ==
  ASSUME SessionInv, UpdateStore
  PROVE  SessionInv'
  <1>1. /\ StoreInv /\ UpdaterInv /\ SteadyInv /\ AddVRPsDiffStore /\ notifying' = "list"
        /\ UNCHANGED <<clients, toNotify, request, clientVars, netVars>>
    BY DEF UpdateStore, SessionInv
  <1>2. StoreInv' /\ SteadyInv'
    BY <1>1, SessionAssumption, AddVRPsDiffStoreInv, StoredSteady, SMTT(30)
  <1>3. UpdaterInv'
    BY <1>1 DEF UpdaterInv, AddVRPsDiffStore
  <1>4. Shaped'
    BY <1>1, Zenon DEF SessionInv, Shaped, clientVars, netVars
  <1>5. ASSUME NEW c \in Clients PROVE ClientOK(c)'
    <2>1. PICK q, t, r, on, s, v, got :
            /\ q = queries[c] /\ t = transmits[c] /\ r = request[c]
            /\ on = On(c) /\ s = serial[c] /\ v = vrps[c]
            /\ got = Flag(lastUpdate, c)
      OBVIOUS
    <2>2. Local(q, t, r, on, s, v, got)
      BY <2>1, Zenon DEF SessionInv, ClientOK
    <2>3. Local(q, t, r, on, s, v, got)'
      BY <1>1, <2>2, StoredLocal, SMTT(30)
    <2>4. UNCHANGED <<queries[c], transmits[c], request[c], On(c), serial[c],
                      vrps[c], Flag(lastUpdate, c)>>
      BY <1>1 DEF clientVars, netVars, Flag, On, Open
    <2> QED
      BY <2>1, <2>3, <2>4, Zenon DEF ClientOK
  <1> QED
    BY <1>2, <1>3, <1>4, <1>5 DEF SessionInv

\* The list of clients is read, or changes.
LEMMA InvList ==
  ASSUME SessionInv, NEW c,
         \/ NotifyClientsLatest \/ NotifyStamp
         \/ c \in Clients /\ (ClientConnected(c) \/ ClientDisconnected(c))
  PROVE  SessionInv'
  <1>1. /\ UNCHANGED vars /\ UNCHANGED <<request, clientVars, netVars>>
        /\ UpdaterInv /\ clients \in Seq(Clients)
    BY Zenon DEF NotifyClientsLatest, NotifyStamp, ClientConnected, ClientDisconnected,
                 SessionInv, UpdaterInv
  <1>2. UNCHANGED <<adding, vrpCurrentSerial>>
    BY <1>1 DEF vars, storeVars, addVars
  <1>3. CASE NotifyClientsLatest
    <2>1. UpdaterInv'
      BY <1>1, <1>2, <1>3 DEF UpdaterInv, NotifyClientsLatest
    <2> QED
      BY <1>1, <2>1, NoClient, SMTT(30)
  <1>5. CASE NotifyStamp
    <2>1. UpdaterInv'
      BY <1>1, <1>2, <1>5 DEF UpdaterInv, NotifyStamp
    <2> QED
      BY <1>1, <2>1, NoClient, SMTT(30)
  <1>4. CASE c \in Clients /\ (ClientConnected(c) \/ ClientDisconnected(c))
    <2>1. UNCHANGED <<notifying, toNotify>>
      BY <1>4, Zenon DEF ClientConnected, ClientDisconnected
    <2>2. clients' \in Seq(Clients)
      BY <1>1, <1>4, WithoutFacts, SMTT(30) DEF ClientConnected, ClientDisconnected
    <2>3. UpdaterInv'
      BY <1>1, <1>2, <2>1, <2>2 DEF UpdaterInv
    <2> QED
      BY <1>1, <2>3, NoClient
  <1> QED
    BY <1>3, <1>4, <1>5

\* SendPDU, for one client.
LEMMA SendTo ==
  ASSUME Shaped, NEW c \in Clients, NEW p, NEW n, Send(c, n, p), CanSend(c)
  PROVE  /\ DOMAIN transmits' = Clients
         /\ \A d \in Clients \ {c} : transmits'[d] = transmits[d]
         /\ \/ /\ On(c) = {} /\ transmits'[c] = transmits[c]
            \/ /\ On(c) # {} /\ transmits'[c] = Append(transmits[c], Stamped(p, n))
               /\ Len(transmits[c]) < ChanSize
  <1>1. CASE Open(c)
    <2>1. /\ transmits' = [transmits EXCEPT ![c] = Append(@, Stamped(p, n))]
          /\ Len(transmits[c]) < ChanSize
      BY <1>1, Zenon DEF Send, CanSend
    <2>2. c \in On(c)
      BY <1>1 DEF On
    <2> QED
      BY <2>1, <2>2, Zenon DEF Shaped
  <1>2. CASE ~Open(c)
    <2>1. transmits' = transmits
      BY <1>2, Zenon DEF Send
    <2>2. On(c) = {}
      BY <1>2, Zenon DEF On
    <2> QED
      BY <2>1, <2>2, Zenon DEF Shaped
  <1> QED
    BY <1>1, <1>2, Zenon

\* SendPDU sets the version and nothing else.
LEMMA StampedAlike ==
  ASSUME NEW p, NEW n, {"type", "version", "serial", "list"} \subseteq DOMAIN p
  PROVE  Alike(Stamped(p, n), p)
  BY DEF Alike, Stamped

\* A Serial Notify and an error report, with their versions.
LEMMA StampedPlain ==
  ASSUME StoreInv, NEW type \in {"serial_notify", "error_report"},
         NEW s \in 0 .. vrpCurrentSerial, NEW n
  PROVE  /\ Plain(Stamped(Pdu(type, s, NoVrps), n))
         /\ type = "error_report" => Decides(Stamped(Pdu(type, s, NoVrps), n))
  <1>1. PICK p : p = Stamped(Pdu(type, s, NoVrps), n)
    BY Zenon
  <1>2. p.type = type /\ p.serial = s /\ p.list = NoVrps
    BY <1>1 DEF Stamped, Pdu
  <1>3. Plain(p) /\ (type = "error_report" => Decides(p))
    BY <1>2, DiffTypes DEF Plain, Decides
  <1> QED
    BY <1>1, <1>3, Zenon

\* A Serial Notify is sent to the next client.
LEMMA InvNotify ==
  ASSUME SessionInv, Notify
  PROVE  SessionInv'
  <1>1. PICK c, p : c = Head(toNotify) /\ p = Pdu("serial_notify", vrpCurrentSerial, NoVrps)
    BY SMTT(30)
  <1>0. PICK p2 : p2 = Stamped(p, stamp)
    BY SMTT(30)
  <1>2. /\ UpdaterInv /\ Shaped /\ StoreInv /\ notifying = "send"
        /\ toNotify \in Seq(Clients) /\ toNotify # << >>
        /\ UNCHANGED vars /\ UNCHANGED <<clients, request, clientVars, queries, closed>>
        /\ CanSend(c) /\ Send(c, stamp, p)
        /\ told' = [told EXCEPT ![c] = @ \cup {vrpCurrentSerial}]
        /\ toNotify' = Tail(toNotify)
        /\ notifying' = IF Tail(toNotify) = << >> THEN "no" ELSE "stamp"
    BY <1>1 DEF SessionInv, UpdaterInv, Notify
  <1>3. c \in Clients /\ Tail(toNotify) \in Seq(Clients)
    BY <1>1, <1>2, SMTT(30)
  <1>4. UpdaterInv'
    <2>1. UNCHANGED <<adding, vrpCurrentSerial>>
      BY <1>2 DEF vars, storeVars, addVars
    <2> QED
      BY <1>2, <1>3, <2>1, SMTT(30) DEF UpdaterInv
  <1>5. /\ UNCHANGED <<request, queries, connected, closed, serial, vrps, lastUpdate>>
        /\ DOMAIN told' = Clients
    BY <1>2, Zenon DEF clientVars, Shaped
  <1>6. /\ DOMAIN transmits' = Clients
        /\ \A d \in Clients \ {c} : transmits'[d] = transmits[d]
        /\ \/ /\ On(c) = {} /\ transmits'[c] = transmits[c]
           \/ /\ On(c) # {} /\ transmits'[c] = Append(transmits[c], p2)
              /\ Len(transmits[c]) < ChanSize
    BY <1>0, <1>2, <1>3, SendTo, Zenon
  <1>7. Shaped'
    BY <1>2, <1>5, <1>6, Zenon DEF Shaped
  <1>8. \A d \in Clients \ {c} : Untouched(d)
    BY <1>5, <1>6, Zenon DEF Untouched
  <1>9. PICK q, t, r, on, s, v, got :
            /\ q = queries[c] /\ t = transmits[c] /\ r = request[c]
            /\ on = On(c) /\ s = serial[c] /\ v = vrps[c]
            /\ got = Flag(lastUpdate, c)
    BY Zenon
  <1>10. Local(q, t, r, on, s, v, got)
    BY <1>3, <1>9, Zenon DEF SessionInv, ClientOK
  <1>11. Plain(p2)
    <2>1. vrpCurrentSerial \in 0 .. vrpCurrentSerial
      BY <1>2 DEF StoreInv, TypeOK, Serial
    <2> QED
      BY <1>0, <1>1, <1>2, <2>1, StampedPlain, SMTT(30)
  <1>12. Len(t) < ChanSize => Local(q, Append(t, p2), r, on, s, v, got)
    BY <1>10, <1>11, LocalPlain, Zenon
  <1>13. Local(q, transmits'[c], r, on, s, v, got)
    BY <1>6, <1>9, <1>10, <1>12, Zenon
  <1>14. /\ q = queries'[c] /\ r = request'[c] /\ on = On(c)'
         /\ s = serial'[c] /\ v = vrps'[c] /\ got = Flag(lastUpdate', c)
    BY <1>5, <1>9, SMTT(30) DEF Flag, On, Open
  <1> QED
    BY <1>2, <1>4, <1>7, <1>8, <1>13, <1>14, OneClient, Zenon

\* The updater is not part of the step.
LEMMA SameUpdater ==
  ASSUME SessionInv, UNCHANGED vars, UNCHANGED <<clients, notifying, toNotify>>
  PROVE  UpdaterInv'
  BY DEF SessionInv, UpdaterInv, vars, storeVars, addVars

\* A client leaves the list.
LEMMA WithoutUpdater ==
  ASSUME SessionInv, UNCHANGED vars, UNCHANGED <<notifying, toNotify>>, NEW c,
         clients' = Without(clients, c)
  PROVE  UpdaterInv'
  <1>1. clients' \in Seq(Clients)
    BY WithoutFacts DEF SessionInv, UpdaterInv
  <1> QED
    BY <1>1 DEF SessionInv, UpdaterInv, vars, storeVars, addVars

\* A query is refused.
LEMMA InvWrongVersion ==
  ASSUME SessionInv, NEW c \in Clients, SendWrongVersionError(c)
  PROVE  SessionInv'
  <1>1. PICK p : p = Pdu("error_report", 0, NoVrps)
    BY SMTT(30)
  <1>0. PICK p2 : p2 = Stamped(p, GetVersion(c))
    BY SMTT(30)
  <1>2. /\ UNCHANGED vars /\ UNCHANGED <<notifying, toNotify>> /\ clients' = Without(clients, c)
        /\ UNCHANGED <<request, connected, serial, vrps, lastUpdate, told>>
        /\ Shaped /\ StoreInv /\ CanSend(c) /\ Send(c, GetVersion(c), p) /\ queries[c] # << >>
        /\ queries' = [queries EXCEPT ![c] = Tail(@)]
        /\ closed' = [closed EXCEPT ![c] = TRUE]
    BY <1>1, Zenon DEF SessionInv, SendWrongVersionError, clientVars
  <1>3. UpdaterInv'
    BY <1>2, WithoutUpdater
  <1>4. /\ DOMAIN transmits' = Clients
        /\ \A d \in Clients \ {c} : transmits'[d] = transmits[d]
        /\ \/ /\ On(c) = {} /\ transmits'[c] = transmits[c]
           \/ /\ On(c) # {} /\ transmits'[c] = Append(transmits[c], p2)
              /\ Len(transmits[c]) < ChanSize
    BY <1>0, <1>2, SendTo, Zenon
  <1>5. /\ DOMAIN queries' = Clients /\ queries'[c] = Tail(queries[c])
        /\ DOMAIN closed' = Clients /\ closed'[c]
        /\ \A d \in Clients \ {c} : queries'[d] = queries[d] /\ closed'[d] = closed[d]
    BY <1>2, Zenon DEF Shaped
  <1>6. Shaped'
    BY <1>2, <1>4, <1>5, Zenon DEF Shaped
  <1>7. \A d \in Clients \ {c} : Untouched(d)
    BY <1>2, <1>4, <1>5, Zenon DEF Untouched
  <1>8. PICK q, t, r, on, s, v, got :
            /\ q = queries[c] /\ t = transmits[c] /\ r = request[c]
            /\ on = On(c) /\ s = serial[c] /\ v = vrps[c]
            /\ got = Flag(lastUpdate, c)
    OBVIOUS
  <1>9. Local(q, t, r, on, s, v, got)
    BY <1>8, Zenon DEF SessionInv, ClientOK
  <1>10. Plain(p2)
    <2>1. 0 \in 0 .. vrpCurrentSerial
      BY <1>2 DEF StoreInv, TypeOK, Serial
    <2> QED
      BY <1>0, <1>1, <1>2, <2>1, StampedPlain, SMTT(30)
  <1>11. PICK t2 : t2 = transmits'[c]
    BY SMTT(30)
  <1>12. Local(q, t2, r, on, s, v, got)
    BY <1>4, <1>8, <1>9, <1>10, <1>11, LocalPlain, Zenon
  <1>13. Local(Tail(q), t2, r, {}, s, v, got)
    BY <1>2, <1>8, <1>12, LocalOff, LocalPopQuery, Zenon
  <1>14. /\ Tail(q) = queries'[c] /\ t2 = transmits'[c] /\ r = request'[c]
         /\ On(c)' = {}
         /\ s = serial'[c] /\ v = vrps'[c] /\ got = Flag(lastUpdate', c)
    BY <1>2, <1>5, <1>8, <1>11, Zenon DEF Flag, On, Open
  <1> QED
    BY <1>2, <1>3, <1>6, <1>7, <1>13, <1>14, OneClient, Zenon

\* A query is read, and the current serial.
LEMMA InvRequestSerial ==
  ASSUME SessionInv, NEW c \in Clients, RequestSerial(c)
  PROVE  SessionInv'
  <1>1. PICK r2 : r2 = Begun(Head(queries[c]))
    BY SMTT(30)
  <1>2. /\ UNCHANGED vars /\ UNCHANGED <<clients, notifying, toNotify>>
        /\ UNCHANGED <<transmits, connected, closed, serial, vrps, lastUpdate, told>>
        /\ Shaped /\ StoreInv /\ queries[c] # << >> /\ request[c] = NoRequest
        /\ queries' = [queries EXCEPT ![c] = Tail(@)]
        /\ request' = [request EXCEPT ![c] = r2]
    BY <1>1, Zenon DEF SessionInv, RequestSerial, clientVars
  <1>3. UpdaterInv'
    BY <1>2, SameUpdater
  <1>4. /\ DOMAIN queries' = Clients /\ queries'[c] = Tail(queries[c])
        /\ DOMAIN request' = Clients /\ request'[c] = r2
        /\ \A d \in Clients \ {c} : queries'[d] = queries[d] /\ request'[d] = request[d]
    BY <1>2, Zenon DEF Shaped
  <1>5. Shaped'
    BY <1>2, <1>4, Zenon DEF Shaped
  <1>6. \A d \in Clients \ {c} : Untouched(d)
    BY <1>2, <1>4, Zenon DEF Untouched
  <1>7. PICK q, t, r, on, s, v, got :
            /\ q = queries[c] /\ t = transmits[c] /\ r = request[c]
            /\ on = On(c) /\ s = serial[c] /\ v = vrps[c]
            /\ got = Flag(lastUpdate, c)
    OBVIOUS
  <1>8. Local(q, t, NoRequest, on, s, v, got)
    BY <1>2, <1>7, Zenon DEF SessionInv, ClientOK
  <1>9. Local(Tail(q), t, r2, on, s, v, got)
    BY <1>1, <1>2, <1>7, <1>8, LocalSerial, Zenon
  <1>10. /\ Tail(q) = queries'[c] /\ t = transmits'[c] /\ r2 = request'[c]
         /\ on = On(c)'
         /\ s = serial'[c] /\ v = vrps'[c] /\ got = Flag(lastUpdate', c)
    BY <1>2, <1>4, <1>7, Zenon DEF Flag, On, Open
  <1> QED
    BY <1>2, <1>3, <1>5, <1>6, <1>9, <1>10, OneClient, Zenon

\* The data is read.
LEMMA InvRequestData ==
  ASSUME SessionInv, NEW c \in Clients, RequestData(c)
  PROVE  SessionInv'
  <1>1. PICK r2 : r2 = [request[c] EXCEPT !.at = "send",
                          !.pdu = Answer(request[c].query, request[c].pdu.serial)]
    OBVIOUS
  <1>2. /\ UNCHANGED vars /\ UNCHANGED <<clients, notifying, toNotify>>
        /\ UNCHANGED <<queries, transmits, connected, closed, serial, vrps, lastUpdate, told>>
        /\ Shaped /\ StoreInv /\ SteadyInv /\ request[c].at = "data"
        /\ request' = [request EXCEPT ![c].at = "send",
                         ![c].pdu = Answer(request[c].query, request[c].pdu.serial)]
    BY DEF SessionInv, RequestData, clientVars, netVars
  <1>3. UpdaterInv'
    BY <1>2, SameUpdater
  <1>4. /\ DOMAIN request' = Clients /\ request'[c] = r2
        /\ \A d \in Clients \ {c} : request'[d] = request[d]
    BY <1>1, <1>2 DEF Shaped
  <1>5. Shaped'
    BY <1>2, <1>4 DEF Shaped
  <1>6. \A d \in Clients \ {c} : Untouched(d)
    BY <1>2, <1>4, SMTT(30) DEF Untouched
  <1>7. PICK q, t, r, on, s, v, got :
            /\ q = queries[c] /\ t = transmits[c] /\ r = request[c]
            /\ on = On(c) /\ s = serial[c] /\ v = vrps[c]
            /\ got = Flag(lastUpdate, c)
    OBVIOUS
  <1>8. Local(q, t, r, on, s, v, got)
    BY <1>7, Zenon DEF SessionInv, ClientOK
  <1>9. Local(q, t, r2, on, s, v, got)
    BY <1>1, <1>2, <1>7, <1>8, LocalData, Zenon
  <1>10. /\ q = queries'[c] /\ t = transmits'[c] /\ r2 = request'[c]
         /\ on = On(c)'
         /\ s = serial'[c] /\ v = vrps'[c] /\ got = Flag(lastUpdate', c)
    BY <1>2, <1>4, <1>7 DEF Flag, On, Open
  <1> QED
    BY <1>2, <1>3, <1>5, <1>6, <1>9, <1>10, OneClient, Zenon

\* The response is sent.
LEMMA InvRequestSend ==
  ASSUME SessionInv, NEW c \in Clients, RequestSend(c)
  PROVE  SessionInv'
  <1>1. PICK p : p = request[c].pdu
    OBVIOUS
  <1>0. PICK n, p2 : n = GetVersion(c) /\ p2 = Stamped(p, n)
    BY Zenon
  <1>2. /\ UNCHANGED vars /\ UNCHANGED <<clients, notifying, toNotify>>
        /\ UNCHANGED <<queries, connected, closed, serial, vrps, lastUpdate>>
        /\ Shaped /\ StoreInv /\ CanSend(c) /\ Send(c, n, p) /\ request[c].at = "send"
        /\ request' = [request EXCEPT ![c] = NoRequest]
        /\ DOMAIN told' = Clients
    BY <1>0, <1>1, Zenon DEF SessionInv, RequestSend, clientVars, Shaped
  <1>3. UpdaterInv'
    BY <1>2, SameUpdater
  <1>4. /\ DOMAIN transmits' = Clients
        /\ \A d \in Clients \ {c} : transmits'[d] = transmits[d]
        /\ \/ /\ On(c) = {} /\ transmits'[c] = transmits[c]
           \/ /\ On(c) # {} /\ transmits'[c] = Append(transmits[c], p2)
              /\ Len(transmits[c]) < ChanSize
    <2>1. /\ DOMAIN transmits' = Clients
          /\ \A d \in Clients \ {c} : transmits'[d] = transmits[d]
          /\ \/ /\ On(c) = {} /\ transmits'[c] = transmits[c]
             \/ /\ On(c) # {} /\ transmits'[c] = Append(transmits[c], Stamped(p, n))
                /\ Len(transmits[c]) < ChanSize
      BY <1>2, SendTo, Zenon
    <2> QED
      BY <1>0, <2>1, Zenon
  <1>5. /\ DOMAIN request' = Clients /\ request'[c] = NoRequest
        /\ \A d \in Clients \ {c} : request'[d] = request[d]
    BY <1>2, Zenon DEF Shaped
  <1>6. Shaped'
    BY <1>2, <1>4, <1>5, Zenon DEF Shaped
  <1>7. \A d \in Clients \ {c} : Untouched(d)
    BY <1>2, <1>4, <1>5, Zenon DEF Untouched
  <1>8. PICK q, t, r, on, s, v, got :
            /\ q = queries[c] /\ t = transmits[c] /\ r = request[c]
            /\ on = On(c) /\ s = serial[c] /\ v = vrps[c]
            /\ got = Flag(lastUpdate, c)
    OBVIOUS
  <1>9. Local(q, t, r, on, s, v, got)
    BY <1>8, Zenon DEF SessionInv, ClientOK
  <1>10. Local(q, transmits'[c], NoRequest, on, s, v, got)
    <2>1. CASE on = {}
      <3>1. transmits'[c] = t
        BY <1>4, <1>8, <2>1, Zenon
      <3> QED
        BY <1>2, <1>9, <2>1, <3>1, LocalAnswered, Zenon
    <2>2. CASE on # {}
      <3>1. Len(t) < ChanSize /\ transmits'[c] = Append(t, p2) /\ r.at = "send"
        BY <1>2, <1>4, <1>8, <2>2, Zenon
      <3>2. {"type", "version", "serial", "list"} \subseteq DOMAIN r.pdu
        BY <1>9, Zenon DEF Local, RequestOK
      <3>3. Alike(p2, r.pdu)
        BY <1>0, <1>1, <1>8, <3>2, StampedAlike, Zenon
      <3> QED
        BY <1>2, <1>9, <2>2, <3>1, <3>3, LocalSend, Zenon
    <2> QED
      BY <2>1, <2>2
  <1>11. /\ q = queries'[c] /\ NoRequest = request'[c] /\ on = On(c)'
         /\ s = serial'[c] /\ v = vrps'[c] /\ got = Flag(lastUpdate', c)
    BY <1>2, <1>5, <1>8, Zenon DEF Flag, On, Open
  <1> QED
    BY <1>2, <1>3, <1>6, <1>7, <1>10, <1>11, OneClient, Zenon

\* The client opens a connection.  The goroutine of its last one is gone.
LEMMA InvDial ==
  ASSUME SessionInv, NEW c \in Clients, Dial(c), request[c] = NoRequest
  PROVE  SessionInv'
  <1>1. /\ UNCHANGED vars /\ UNCHANGED <<clients, notifying, toNotify>>
        /\ UNCHANGED <<request, serial, vrps, lastUpdate>>
        /\ Shaped /\ StoreInv
        /\ connected' = [connected EXCEPT ![c] = TRUE]
        /\ queries' = [queries EXCEPT ![c] = <<ResetQuery(1)>>]
        /\ transmits' = [transmits EXCEPT ![c] = << >>]
        /\ closed' = [closed EXCEPT ![c] = FALSE]
        /\ told' = [told EXCEPT ![c] = {}]
    BY Zenon DEF SessionInv, Dial
  <1>2. UpdaterInv'
    BY <1>1, SameUpdater
  <1>3. /\ DOMAIN queries' = Clients /\ queries'[c] = <<ResetQuery(1)>>
        /\ DOMAIN transmits' = Clients /\ transmits'[c] = << >>
        /\ \A d \in Clients \ {c} : queries'[d] = queries[d] /\ transmits'[d] = transmits[d]
    BY <1>1, Zenon DEF Shaped
  <1>4. /\ DOMAIN connected' = Clients /\ DOMAIN told' = Clients /\ DOMAIN closed' = Clients
        /\ \A d \in Clients \ {c} : connected'[d] = connected[d] /\ closed'[d] = closed[d]
    BY <1>1, Zenon DEF Shaped
  <1>5. Shaped'
    BY <1>1, <1>3, <1>4, Zenon DEF Shaped
  <1>6. \A d \in Clients \ {c} : Untouched(d)
    BY <1>1, <1>3, <1>4, Zenon DEF Untouched
  <1>7. PICK q, t, r, on, s, v, got :
            /\ q = queries[c] /\ t = transmits[c] /\ r = request[c]
            /\ on = On(c) /\ s = serial[c] /\ v = vrps[c]
            /\ got = Flag(lastUpdate, c)
    OBVIOUS
  <1>8. Local(q, t, NoRequest, on, s, v, got)
    BY <1>7, Zenon DEF SessionInv, ClientOK
  <1>9. PICK on2 : on2 = On(c)'
    BY SMTT(30)
  <1>10. Local(<<ResetQuery(1)>>, << >>, NoRequest, on2, s, v, got)
    BY <1>1, <1>8, LocalDial
  <1>11. /\ NoRequest = request'[c] /\ on2 = On(c)'
         /\ s = serial'[c] /\ v = vrps'[c] /\ got = Flag(lastUpdate', c)
    BY <1>1, <1>7, <1>9, Zenon DEF Flag, On, Open
  <1> QED
    BY <1>1, <1>2, <1>3, <1>5, <1>6, <1>10, <1>11, OneClient, Zenon

\* The client sends a Serial Query.
LEMMA InvPoll ==
  ASSUME SessionInv, NEW c \in Clients, Poll(c)
  PROVE  SessionInv'
  <1>1. /\ UNCHANGED vars /\ UNCHANGED <<clients, notifying, toNotify>>
        /\ UNCHANGED <<request, transmits, connected, closed, serial, vrps, lastUpdate, told>>
        /\ Shaped
        /\ queries' = [queries EXCEPT ![c] = Append(@, SerialQuery(version[c], serial[c]))]
    BY SMTT(30) DEF SessionInv, Poll, serverVars, clientVars
  <1>2. UpdaterInv'
    BY <1>1, SameUpdater
  <1>3. /\ DOMAIN queries' = Clients
        /\ queries'[c] = Append(queries[c], SerialQuery(version[c], serial[c]))
        /\ \A d \in Clients \ {c} : queries'[d] = queries[d]
    BY <1>1, Zenon DEF Shaped
  <1>4. Shaped'
    BY <1>1, <1>3, Zenon DEF Shaped
  <1>5. \A d \in Clients \ {c} : Untouched(d)
    BY <1>1, <1>3, Zenon DEF Untouched
  <1>6. PICK q, t, r, on, s, v, got :
            /\ q = queries[c] /\ t = transmits[c] /\ r = request[c]
            /\ on = On(c) /\ s = serial[c] /\ v = vrps[c]
            /\ got = Flag(lastUpdate, c)
    OBVIOUS
  <1>7. Local(q, t, r, on, s, v, got)
    BY <1>6, Zenon DEF SessionInv, ClientOK
  <1>8. Local(Append(q, SerialQuery(version[c], s)), t, r, on, s, v, got)
    BY <1>7, LocalPoll
  <1>9. /\ Append(q, SerialQuery(version[c], s)) = queries'[c] /\ t = transmits'[c]
        /\ r = request'[c] /\ on = On(c)'
        /\ s = serial'[c] /\ v = vrps'[c] /\ got = Flag(lastUpdate', c)
    BY <1>1, <1>3, <1>6, Zenon DEF Flag, On, Open
  <1> QED
    BY <1>1, <1>2, <1>4, <1>5, <1>8, <1>9, OneClient, ZenonT(30)

\* The client takes a response; its serial does not go back.
LEMMA InvHandleData ==
  ASSUME SessionInv, NEW c \in Clients, HandleData(c)
  PROVE  SessionInv' /\ serial'[c] >= serial[c]
  <1>1. PICK p : p = Head(transmits[c])
    OBVIOUS
  <1>2. /\ UNCHANGED vars /\ UNCHANGED <<clients, notifying, toNotify>>
        /\ UNCHANGED <<request, connected, closed, queries, told>>
        /\ Shaped /\ StoreInv /\ transmits[c] # << >> /\ p.type = "data"
        /\ vrps' = [vrps EXCEPT ![c] = Receive(p.list, @)]
        /\ serial' = [serial EXCEPT ![c] = p.serial]
        /\ lastUpdate' = [lastUpdate EXCEPT ![c] = TRUE]
        /\ transmits' = [transmits EXCEPT ![c] = Tail(@)]
    BY <1>1, Zenon DEF SessionInv, HandleData, Incoming, serverVars
  <1>3. UpdaterInv'
    BY <1>2, SameUpdater
  <1>4. /\ DOMAIN vrps' = Clients /\ vrps'[c] = Receive(p.list, vrps[c])
        /\ DOMAIN serial' = Clients /\ serial'[c] = p.serial
        /\ DOMAIN transmits' = Clients /\ transmits'[c] = Tail(transmits[c])
        /\ \A d \in Clients \ {c} : /\ vrps'[d] = vrps[d] /\ serial'[d] = serial[d]
                                    /\ transmits'[d] = transmits[d]
    BY <1>2, Zenon DEF Shaped
  <1>5. /\ DOMAIN lastUpdate' = Clients /\ lastUpdate'[c]
        /\ \A d \in Clients \ {c} : lastUpdate'[d] = lastUpdate[d]
    BY <1>2, Zenon DEF Shaped
  <1>6. Shaped'
    BY <1>2, <1>4, <1>5, Zenon DEF Shaped
  <1>7. \A d \in Clients \ {c} : Untouched(d)
    BY <1>2, <1>4, <1>5, Zenon DEF Untouched
  <1>8. PICK q, t, r, on, s, v, got :
            /\ q = queries[c] /\ t = transmits[c] /\ r = request[c]
            /\ on = On(c) /\ s = serial[c] /\ v = vrps[c]
            /\ got = Flag(lastUpdate, c)
    OBVIOUS
  <1>9. Local(q, t, r, on, s, v, got)
    BY <1>8, Zenon DEF SessionInv, ClientOK
  <1>10. PICK got2 : got2 = Flag(lastUpdate', c)
    OBVIOUS
  <1>11. c \in got2
    BY <1>5, <1>10, Zenon DEF Flag, On, Open
  <1>12. /\ Local(q, Tail(t), r, on, p.serial, Receive(p.list, v), got2)
         /\ p.serial >= s
    BY <1>1, <1>2, <1>8, <1>9, <1>11, LocalReceive, Zenon
  <1>13. /\ q = queries'[c] /\ Tail(t) = transmits'[c]
         /\ r = request'[c] /\ on = On(c)'
         /\ p.serial = serial'[c] /\ Receive(p.list, v) = vrps'[c]
    BY <1>2, <1>4, <1>8, Zenon DEF Flag, On, Open
  <1>14. SessionInv'
    BY <1>2, <1>3, <1>6, <1>7, <1>10, <1>12, <1>13, OneClient, Zenon
  <1> QED
    BY <1>8, <1>12, <1>13, <1>14, Zenon

\* The client logs a PDU.
LEMMA InvHandleLogged ==
  ASSUME SessionInv, NEW c \in Clients, HandleLogged(c)
  PROVE  SessionInv'
  <1>1. /\ UNCHANGED vars /\ UNCHANGED <<clients, notifying, toNotify>>
        /\ UNCHANGED <<request, connected, closed, serial, vrps, lastUpdate, queries, told>>
        /\ Shaped /\ transmits[c] # << >>
        /\ Head(transmits[c]).type \in {"cache_reset", "serial_notify"}
        /\ transmits' = [transmits EXCEPT ![c] = Tail(@)]
    BY SMTT(30) DEF SessionInv, HandleLogged, Incoming, serverVars
  <1>2. UpdaterInv'
    BY <1>1, SameUpdater
  <1>3. /\ DOMAIN transmits' = Clients /\ transmits'[c] = Tail(transmits[c])
        /\ \A d \in Clients \ {c} : transmits'[d] = transmits[d]
    BY <1>1, Zenon DEF Shaped
  <1>4. Shaped'
    BY <1>1, <1>3, Zenon DEF Shaped
  <1>5. \A d \in Clients \ {c} : Untouched(d)
    BY <1>1, <1>3, Zenon DEF Untouched
  <1>6. PICK q, t, r, on, s, v, got :
            /\ q = queries[c] /\ t = transmits[c] /\ r = request[c]
            /\ on = On(c) /\ s = serial[c] /\ v = vrps[c]
            /\ got = Flag(lastUpdate, c)
    OBVIOUS
  <1>7. Local(q, t, r, on, s, v, got) /\ ~Decides(Head(t))
    BY <1>1, <1>6, Zenon DEF SessionInv, ClientOK, Decides
  <1>8. Local(q, Tail(t), r, on, s, v, got)
    BY <1>1, <1>6, <1>7, LocalLogged, Zenon
  <1>9. /\ q = queries'[c] /\ Tail(t) = transmits'[c]
        /\ r = request'[c] /\ on = On(c)'
        /\ s = serial'[c] /\ v = vrps'[c] /\ got = Flag(lastUpdate', c)
    BY <1>1, <1>3, <1>6, Zenon DEF Flag, On, Open
  <1> QED
    BY <1>1, <1>2, <1>4, <1>5, <1>8, <1>9, OneClient, Zenon

\* The client disconnects, or ends.
LEMMA InvHangUp ==
  ASSUME SessionInv, NEW c \in Clients, HandleError(c) \/ ConnectionLost(c)
  PROVE  SessionInv'
  <1>1. /\ UNCHANGED vars /\ UNCHANGED <<clients, notifying, toNotify>>
        /\ UNCHANGED <<request, serial, vrps, lastUpdate, closed, told>>
        /\ Shaped
        /\ connected' = [connected EXCEPT ![c] = FALSE]
        /\ queries' = [queries EXCEPT ![c] = << >>]
        /\ transmits' = [transmits EXCEPT ![c] = << >>]
    BY Zenon DEF SessionInv, HandleError, ConnectionLost, serverVars
  <1>2. UpdaterInv'
    BY <1>1, SameUpdater, SMTT(30)
  <1>3. /\ DOMAIN queries' = Clients /\ queries'[c] = << >>
        /\ DOMAIN transmits' = Clients /\ transmits'[c] = << >>
        /\ \A d \in Clients \ {c} : queries'[d] = queries[d] /\ transmits'[d] = transmits[d]
    BY <1>1, Zenon DEF Shaped
  <1>4. /\ DOMAIN connected' = Clients /\ ~connected'[c]
        /\ \A d \in Clients \ {c} : connected'[d] = connected[d]
    BY <1>1, Zenon DEF Shaped
  <1>5. Shaped'
    BY <1>1, <1>3, <1>4, Zenon DEF Shaped
  <1>6. \A d \in Clients \ {c} : Untouched(d)
    BY <1>1, <1>3, <1>4, Zenon DEF Untouched
  <1>7. PICK q, t, r, on, s, v, got :
            /\ q = queries[c] /\ t = transmits[c] /\ r = request[c]
            /\ on = On(c) /\ s = serial[c] /\ v = vrps[c]
            /\ got = Flag(lastUpdate, c)
    OBVIOUS
  <1>8. Local(q, t, r, on, s, v, got)
    BY <1>7, Zenon DEF SessionInv, ClientOK
  <1>9. Local(<< >>, << >>, r, {}, s, v, got)
    BY <1>8, LocalClosed, SMTT(30)
  <1>10. On(c)' = {}
    BY <1>4 DEF Flag, On, Open
  <1>11. /\ r = request'[c] /\ s = serial'[c] /\ v = vrps'[c]
         /\ got = Flag(lastUpdate', c)
    BY <1>1, <1>7, Zenon DEF Flag, On, Open
  <1> QED
    BY <1>1, <1>2, <1>3, <1>5, <1>6, <1>9, <1>10, <1>11, OneClient, Zenon

-----------------------------------------------------------------------------
(* What the clients are told. *)

\* A step in which nobody is told anything, or comes and goes.
LEMMA ToldSame ==
  ASSUME ToldInv, UNCHANGED <<vrpCurrentSerial, clients, notifying, toNotify>>,
         \A d \in Clients : /\ told'[d] = told[d] /\ request'[d] = request[d]
                            /\ Open(d)' => Open(d)
  PROVE  ToldInv'
  <1>1. Registered' = Registered /\ \A d : Owed(d)' <=> Owed(d)
    BY DEF Registered, Owed
  <1>2. ASSUME NEW d \in Clients PROVE ToldOK(d)'
    <2>1. ToldOK(d)
      BY DEF ToldInv
    <2>2. Telling(request[d])' <=> Telling(request[d])
      BY Zenon DEF Telling
    <2> QED
      BY <1>1, <2>1, <2>2, Zenon DEF ToldOK
  <1> QED
    BY <1>2, SMTT(30) DEF ToldInv

\* The first of a list and the others.
LEMMA HeadAndTail ==
  ASSUME NEW S, NEW l \in Seq(S), l # << >>
  PROVE  Head(l) \in S /\ Tail(l) \in Seq(S) /\ Members(l) = {Head(l)} \cup Members(Tail(l))
  <1>1. Tail(l) \in Seq(S) /\ IsSeq(l)
    BY DEF IsSeq
  <1>2. PICK u, L : u = Tail(l) /\ L = Len(l)
    BY Zenon
  <1>3. /\ L \in Nat \ {0} /\ Head(l) = l[1] /\ Len(u) = L - 1
        /\ \A k \in 1 .. L - 1 : u[k] = l[k + 1]
    BY <1>1, <1>2, TailOfSeq, SMTT(30)
  <1>4. DOMAIN l = 1 .. L /\ DOMAIN u = 1 .. L - 1 /\ \A i \in 1 .. L : l[i] \in S
    BY <1>1, <1>2, <1>3
  <1>5. /\ 1 \in 1 .. L /\ \A i \in 1 .. L - 1 : i + 1 \in 1 .. L
        /\ \A i \in 1 .. L : i = 1 \/ (i - 1 \in 1 .. L - 1 /\ (i - 1) + 1 = i)
    BY <1>3, SMTT(30)
  <1>6. ASSUME NEW m PROVE m \in Members(l) <=> m = l[1] \/ m \in Members(u)
    <2>1. ASSUME NEW i \in 1 .. L, m = l[i]
          PROVE  m = l[1] \/ \E j \in 1 .. L - 1 : m = u[j]
      <3>1. CASE i = 1
        BY <2>1, <3>1
      <3>2. CASE i # 1
        <4>1. i - 1 \in 1 .. L - 1 /\ u[i - 1] = l[i]
          BY <1>3, <1>5, <3>2
        <4> QED
          BY <2>1, <4>1, SMTT(30)
      <3> QED
        BY <3>1, <3>2
    <2>2. ASSUME NEW j \in 1 .. L - 1, m = u[j] PROVE \E i \in 1 .. L : m = l[i]
      <3>1. j + 1 \in 1 .. L /\ l[j + 1] = u[j]
        BY <1>3, <1>5
      <3> QED
        BY <2>2, <3>1, SMTT(30)
    <2> QED
      BY <1>4, <1>5, <2>1, <2>2, SMTT(30) DEF Members
  <1>7. Members(l) = {Head(l)} \cup Members(u)
    BY <1>3, <1>6, Zenon
  <1> QED
    BY <1>1, <1>2, <1>3, <1>4, <1>5, <1>7, SMTT(30)

\* The updater stores, lists and notifies.
LEMMA ToldUpdater ==
  ASSUME SessionInv, ToldInv, UpdaterStep
  PROVE  ToldInv'
  <1>1. /\ UpdaterInv /\ Shaped /\ Registered = Members(clients)
    BY SMTT(30) DEF SessionInv, Registered, Members
  <1>2. CASE UpdateApply
    <2>1. UNCHANGED <<vrpCurrentSerial, clients, notifying, toNotify, told, request, connected, closed>>
      BY <1>2 DEF UpdateApply, AddVRPsDiffApply, storeVars, sessionVars, serverVars,
                  clientVars, netVars
    <2> QED
      BY <2>1, ToldSame, Zenon DEF Open
  <1>3. CASE UpdateStore
    <2>1. UNCHANGED <<clients, toNotify, told, request, connected, closed>> /\ notifying' = "list"
      BY <1>3 DEF UpdateStore, clientVars, netVars
    <2> QED
      BY <2>1, Zenon DEF ToldInv, ToldOK, Registered, Owed, Open
  <1>4. CASE NotifyClientsLatest
    <2>1. /\ UNCHANGED <<vrpCurrentSerial, clients, told, request, connected, closed>>
          /\ toNotify' = clients
      BY <1>4 DEF NotifyClientsLatest, clientVars, netVars, vars, storeVars
    <2>2. ASSUME NEW c \in Clients PROVE ToldOK(c)'
      <3>1. ToldOK(c) /\ Registered' = Registered
        BY <2>1, Zenon DEF ToldInv, Registered
      <3>2. c \in Registered => Owed(c)'
        BY <1>1, <2>1 DEF Owed
      <3>3. c \notin Registered => c \notin Members(toNotify')
        BY <1>1, <2>1, SMTT(30)
      <3>4. ~Telling(NoRequest)
        BY DEF Telling, NoRequest
      <3> QED
        BY <2>1, <3>1, <3>2, <3>3, <3>4, Zenon DEF ToldOK, Telling, Open
    <2> QED
      BY <2>2, SMTT(30) DEF ToldInv
  <1>6. CASE NotifyStamp
    <2>1. /\ UNCHANGED <<vrpCurrentSerial, clients, toNotify, told, request, connected, closed>>
          /\ notifying = "stamp"
      BY <1>6 DEF NotifyStamp, clientVars, netVars, vars, storeVars
    <2> QED
      BY <2>1, Zenon DEF ToldInv, ToldOK, Registered, Owed, Open
  <1>5. CASE Notify
    <2>1. PICK h : h = Head(toNotify)
      BY SMTT(30)
    <2>2. /\ toNotify \in Seq(Clients) /\ toNotify # << >> /\ toNotify' = Tail(toNotify)
          /\ notifying = "send"
          /\ told' = [told EXCEPT ![h] = @ \cup {vrpCurrentSerial}]
          /\ UNCHANGED <<vrpCurrentSerial, clients, request, connected, closed>>
      BY <1>1, <1>5, <2>1, SMTT(30) DEF Notify, clientVars, vars, storeVars, UpdaterInv
    <2>3. h \in Clients /\ Members(toNotify) = {h} \cup Members(toNotify')
      BY <2>1, <2>2, HeadAndTail, Zenon
    <2>4. /\ told'[h] = told[h] \cup {vrpCurrentSerial}
          /\ \A d \in Clients \ {h} : told'[d] = told[d]
      BY <1>1, <2>2, <2>3, Zenon DEF Shaped
    <2>5. ASSUME NEW c \in Clients PROVE ToldOK(c)'
      <3>1. ToldOK(c) /\ Registered' = Registered
        BY <2>2 DEF ToldInv, Registered
      <3>2. CASE c = h
        BY <2>2, <2>3, <2>4, <3>1, <3>2, Zenon DEF ToldOK, Open
      <3>3. CASE c # h
        <4>1. Owed(c) => Owed(c)'
          BY <2>2, <2>3, <3>3 DEF Owed
        <4>2. c \notin Members(toNotify) => c \notin Members(toNotify')
          BY <2>3
        <4> QED
          BY <2>2, <2>4, <3>1, <3>3, <4>1, <4>2, Zenon DEF ToldOK, Telling, Open
      <3> QED
        BY <3>2, <3>3, SMTT(30)
    <2> QED
      BY <2>5 DEF ToldInv
  <1> QED
    BY <1>2, <1>3, <1>4, <1>5, <1>6, SMTT(30) DEF UpdaterStep

\* A client comes or goes: it was told nothing yet, or has no open connection.
LEMMA ToldList ==
  ASSUME SessionInv, ToldInv, NEW c \in Clients,
         ClientConnected(c) \/ ClientDisconnected(c) \/ SendWrongVersionError(c)
  PROVE  ToldInv'
  <1>1. /\ UNCHANGED <<vrpCurrentSerial, notifying, toNotify, told, request, connected>>
        /\ \A d \in Clients \ {c} : Open(d)' <=> Open(d)
    <2>1. CASE SendWrongVersionError(c)
      BY <2>1, Zenon DEF SendWrongVersionError, clientVars, vars, storeVars, SessionInv, Shaped,
                         Open
    <2>2. CASE ~SendWrongVersionError(c)
      BY <2>2, Zenon DEF ClientConnected, ClientDisconnected, clientVars, netVars, vars, storeVars,
                         Open
    <2> QED
      BY <2>1, <2>2, Zenon
  <1>2. clients \in Seq(Clients) /\ Registered = Members(clients)
    BY SMTT(30) DEF SessionInv, UpdaterInv, Registered, Members
  <1>3. ~Telling(NoRequest)
    BY DEF Telling, NoRequest
  <1>4. CASE ClientConnected(c)
    <2>1. clients' = Append(clients, c) /\ Open(c) /\ c \notin Registered
      BY <1>4 DEF ClientConnected
    <2>2. Registered' = Registered \cup {c}
      <3>1. PICK k : k = Len(clients)
        BY Zenon
      <3>2. /\ k \in Nat /\ DOMAIN clients = 1 .. k /\ DOMAIN clients' = 1 .. k + 1
            /\ \A i \in 1 .. k : clients'[i] = clients[i]
            /\ clients'[k + 1] = c
        BY <1>2, <2>1, <3>1, SMTT(30)
      <3>3. Members(clients') = Members(clients) \cup {c}
        BY <3>2, MembersAppended
      <3> QED
        BY <1>2, <3>3, Zenon DEF Registered, Members
    <2>3. ASSUME NEW d \in Clients PROVE ToldOK(d)'
      <3>1. ToldOK(d) /\ ToldOK(c) /\ (Owed(d) => Owed(d)')
        BY <1>1 DEF ToldInv, Owed
      <3>2. told[c] = {} /\ request[c] = NoRequest
        BY <2>1, <3>1, Zenon DEF ToldOK
      <3> QED
        BY <1>1, <1>3, <2>2, <3>1, <3>2, Zenon DEF ToldOK, Telling
    <2> QED
      BY <2>3, SMTT(30) DEF ToldInv
  <1>5. CASE ClientDisconnected(c) \/ SendWrongVersionError(c)
    <2>1. clients' = Without(clients, c) /\ ~Open(c)' /\ request[c] = NoRequest
      <3>1. CASE ClientDisconnected(c)
        BY <1>1, <3>1, Zenon DEF ClientDisconnected, Open
      <3>2. CASE SendWrongVersionError(c)
        BY <3>2, Zenon DEF SendWrongVersionError, SessionInv, Shaped, Open
      <3> QED
        BY <1>5, <3>1, <3>2, Zenon
    <2>2. Registered' = Registered \ {c}
      <3>1. Members(clients') = Members(clients) \ {c}
        BY <1>2, <2>1, WithoutFacts, Zenon
      <3> QED
        BY <1>2, <3>1, Zenon DEF Registered, Members
    <2>3. ASSUME NEW d \in Clients PROVE ToldOK(d)'
      <3>1. ToldOK(d) /\ (Owed(d) => Owed(d)')
        BY <1>1 DEF ToldInv, Owed
      <3> QED
        BY <1>1, <2>1, <2>2, <3>1, Zenon DEF ToldOK, Telling
    <2> QED
      BY <2>3 DEF ToldInv
  <1> QED
    BY <1>4, <1>5

\* A request reads the current serial, keeps it while it reads the data, and
\* tells it.
LEMMA ToldRequest ==
  ASSUME SessionInv, ToldInv, NEW c \in Clients,
         RequestSerial(c) \/ RequestData(c) \/ RequestSend(c)
  PROVE  ToldInv'
  <1>1. /\ UNCHANGED <<vrpCurrentSerial, clients, notifying, toNotify, connected, closed>>
        /\ Shaped /\ Registered' = Registered /\ \A d : Owed(d)' <=> Owed(d)
    BY DEF SessionInv, RequestSerial, RequestData, RequestSend, clientVars, netVars, vars,
           storeVars, Registered, Owed
  <1>2a. PICK r : r = request[c]
    OBVIOUS
  <1>2b. PICK r2 : r2 = request'[c]
    OBVIOUS
  <1>2c. PICK n : n = vrpCurrentSerial
    BY SMTT(30)
  <1>2. r = request[c] /\ r2 = request'[c] /\ n = vrpCurrentSerial
    BY <1>2a, <1>2b, <1>2c
  <1>3. \A d \in Clients \ {c} : request'[d] = request[d] /\ told'[d] = told[d]
    <2>1. CASE RequestSerial(c)
      BY <1>1, <2>1 DEF Shaped, RequestSerial
    <2>2. CASE RequestData(c)
      BY <1>1, <2>2 DEF Shaped, RequestData, netVars
    <2>3. CASE RequestSend(c)
      BY <1>1, <2>3, Zenon DEF Shaped, RequestSend
    <2> QED
      BY <2>1, <2>2, <2>3, ZenonT(30)
  <1>4. {"at", "query", "pdu"} \subseteq DOMAIN r
    BY <1>2, Zenon DEF SessionInv, ClientOK, Local, RequestOK
  <1>5. c \in Registered
    <2>1. NoRequest.at = "none"
      BY DEF NoRequest
    <2>2. RequestSerial(c) \/ request[c] # NoRequest
      BY <2>1 DEF RequestData, RequestSend
    <2>3. ToldOK(c)
      BY Zenon DEF ToldInv
    <2> QED
      BY <2>2, <2>3, Zenon DEF ToldOK, RequestSerial
  <1>6. ToldOK(c)
    BY DEF ToldInv
  <1>7. /\ told'[c] # {} => n \in told'[c] \/ Owed(c)
        /\ Telling(r2) => r2.pdu.serial = n \/ n \in told'[c] \/ Owed(c)
    <2>1. CASE RequestSerial(c)
      <3>1. told' = told
        BY <2>1 DEF RequestSerial
      <3>2. r2 = Begun(Head(queries[c]))
        BY <1>1, <1>2, <2>1, Zenon DEF RequestSerial, Shaped
      <3>3. Telling(r2) => r2.pdu.serial = n
        <4>1. CASE HasData
          BY <1>2, <3>2, <4>1, SMTT(30) DEF Begun, NoRequest, Pdu
        <4>2. CASE ~HasData
          <5>1. r2.at = "send" /\ r2.pdu.type = "error_report"
            BY <3>2, <4>2 DEF Begun, NoRequest, Pdu
          <5> QED
            BY <5>1 DEF Telling
        <4> QED
          BY <4>1, <4>2
      <3> QED
        BY <1>2, <1>5, <1>6, <3>1, <3>3, ZenonT(30) DEF ToldOK
    <2>2. CASE RequestData(c)
      <3>1. told' = told /\ r.at = "data"
        BY <1>2, <2>2 DEF RequestData, netVars
      <3>2. r2 = [r EXCEPT !.at = "send", !.pdu = Answer(r.query, r.pdu.serial)]
        BY <1>1, <1>2, <2>2 DEF RequestData, Shaped
      <3>3. r2.at = "send" /\ r2.pdu = Answer(r.query, r.pdu.serial)
        BY <1>4, <3>2, SMTT(30)
      <3>4. r2.pdu.type = "data" => r2.pdu.serial = r.pdu.serial
        BY <3>3, SMTT(30) DEF Answer, Pdu
      <3>5. Telling(r)
        BY <3>1 DEF Telling
      <3> QED
        BY <1>2, <1>5, <1>6, <3>1, <3>3, <3>4, <3>5, Zenon DEF ToldOK, Telling, Open
    <2>3. CASE RequestSend(c)
      <3>1. /\ r.at = "send" /\ r2 = NoRequest
            /\ told'[c] = IF r.pdu.type = "data" THEN told[c] \cup {r.pdu.serial} ELSE told[c]
        BY <1>1, <1>2, <2>3, Zenon DEF RequestSend, Shaped
      <3>2. ~Telling(r2)
        BY <3>1, Zenon DEF Telling, NoRequest
      <3>3. CASE r.pdu.type = "data"
        <4>1. Telling(r)
          BY <3>1, <3>3 DEF Telling
        <4> QED
          BY <1>2, <1>6, <3>1, <3>2, <3>3, <4>1, ZenonT(30) DEF ToldOK
      <3>4. CASE r.pdu.type # "data"
        BY <1>2, <1>5, <1>6, <3>1, <3>2, <3>4, Zenon DEF ToldOK
      <3> QED
        BY <3>3, <3>4, Zenon
    <2> QED
      BY <2>1, <2>2, <2>3, Zenon
  <1>8. ASSUME NEW d \in Clients PROVE ToldOK(d)'
    <2>1. CASE d = c
      BY <1>1, <1>2, <1>5, <1>7, <2>1, Zenon DEF ToldOK, Telling, Open
    <2>2. CASE d # c
      <3>1. ToldOK(d)
        BY DEF ToldInv
      <3> QED
        BY <1>1, <1>3, <2>2, <3>1, Zenon DEF ToldOK, Telling, Open
    <2> QED
      BY <2>1, <2>2
  <1> QED
    BY <1>8, SMTT(30) DEF ToldInv

\* A client starts a session, in which it was told nothing.
LEMMA ToldDial ==
  ASSUME SessionInv, ToldInv, NEW c \in Clients, Dial(c)
  PROVE  ToldInv'
  <1>1. /\ UNCHANGED <<vrpCurrentSerial, clients, notifying, toNotify, request>>
        /\ Shaped /\ Registered' = Registered /\ \A d : Owed(d)' <=> Owed(d)
        /\ c \notin Registered /\ c \notin Members(toNotify)
    BY Zenon DEF SessionInv, Dial, vars, storeVars, Registered, Owed, Members
  <1>2. /\ told'[c] = {}
        /\ \A d \in Clients \ {c} : told'[d] = told[d] /\ Open(d)' = Open(d)
    BY <1>1, Zenon DEF Shaped, Dial, Open
  <1>3. ASSUME NEW d \in Clients PROVE ToldOK(d)'
    <2>1. ToldOK(d)
      BY DEF ToldInv
    <2>2. CASE d = c
      <3>1. request[c] = NoRequest /\ ~Telling(NoRequest)
        BY <1>1, <2>1, <2>2, Zenon DEF ToldOK, Telling, NoRequest
      <3> QED
        BY <1>1, <1>2, <2>2, <3>1, Zenon DEF ToldOK, Telling
    <2>3. CASE d # c
      BY <1>1, <1>2, <2>1, <2>3, Zenon DEF ToldOK, Telling
    <2> QED
      BY <2>2, <2>3
  <1> QED
    BY <1>3 DEF ToldInv

\* The other steps tell nobody a serial.
LEMMA ToldOther ==
  ASSUME SessionInv, ToldInv, NEW c \in Clients,
         ReceiveStep(c) \/ Poll(c)
  PROVE  ToldInv'
  <1>1. /\ UNCHANGED <<vrpCurrentSerial, clients, notifying, toNotify, told, request>>
        /\ Shaped
    BY Zenon DEF SessionInv, ReceiveStep, HandleData, HandleLogged, HandleError,
           ConnectionLost, Poll, serverVars, vars, storeVars
  <1>2. \A d \in Clients : Open(d)' => Open(d)
    <2>1. CASE HandleError(c) \/ ConnectionLost(c)
      BY <1>1, <2>1, Zenon DEF Shaped, HandleError, ConnectionLost, Open
    <2>2. CASE ~(HandleError(c) \/ ConnectionLost(c))
      <3>1. connected' = connected /\ closed' = closed
        BY <2>2, Zenon DEF ReceiveStep, HandleData, HandleLogged, Poll, clientVars
      <3> QED
        BY <3>1, Zenon DEF Open
    <2> QED
      BY <2>1, <2>2, Zenon
  <1> QED
    BY <1>1, <1>2, ToldSame, Zenon

-----------------------------------------------------------------------------
(* The invariant holds in every step. *)

LEMMA ToldInit == SessionInit => ToldInv
  <1> SUFFICES ASSUME SessionInit, NEW c \in Clients PROVE ToldOK(c)
    BY SMTT(30) DEF ToldInv
  <1>1. /\ request[c] = NoRequest /\ told[c] = {} /\ ~Open(c) /\ clients = << >>
    BY SMTT(30) DEF SessionInit, Open
  <1>2. c \notin Registered /\ ~Telling(NoRequest)
    BY <1>1, SMTT(30) DEF Registered, Telling, NoRequest
  <1> QED
    BY <1>1, <1>2, Zenon DEF ToldOK

\* A step of the updater.
LEMMA UpdaterNext ==
  ASSUME SessionInv, ToldInv, (\E list \in SUBSET Keys : UpdateBegin(list)) \/ UpdaterStep
  PROVE  SessionInv' /\ ToldInv' /\ serial' = serial
  <1>1. CASE \E list \in SUBSET Keys : UpdateBegin(list)
    <2>1. SessionInv'
      BY <1>1, InvUpdating
    <2>2. /\ UNCHANGED <<vrpCurrentSerial, clients, notifying, toNotify, told, request>>
          /\ UNCHANGED <<connected, closed, serial>>
      BY <1>1, Zenon DEF UpdateBegin, AddVRPs, storeVars, sessionVars, serverVars, clientVars, netVars
    <2>3. ToldInv'
      BY <2>2, ToldSame, Zenon DEF Open
    <2> QED
      BY <2>1, <2>2, <2>3, SMTT(30)
  <1>2. CASE UpdaterStep
    <2>1. ToldInv'
      BY <1>2, ToldUpdater
    <2>2. SessionInv'
      BY <1>2, InvUpdating, InvStore, InvList, InvNotify, SMTT(30) DEF UpdaterStep
    <2>3. serial' = serial
      BY <1>2, Zenon DEF UpdaterStep, UpdateApply, UpdateStore, NotifyClientsLatest, NotifyStamp, Notify,
                  sessionVars, clientVars
    <2> QED
      BY <2>1, <2>2, <2>3, SMTT(30)
  <1> QED
    BY <1>1, <1>2

\* A step of the server, or of the client, of one connection.
LEMMA ConnectionNext ==
  ASSUME SessionInv, ToldInv, NEW c \in Clients,
         ServerStep(c) \/ ReceiveStep(c) \/ Dial(c) \/ Poll(c)
  PROVE  SessionInv' /\ ToldInv' /\ (HandleData(c) \/ serial' = serial)
  <1>1. SessionInv'
    <2>1. CASE ClientConnected(c) \/ ClientDisconnected(c)
      BY <2>1, InvList, SMTT(30)
    <2>2. CASE SendWrongVersionError(c) \/ RequestSerial(c) \/ RequestData(c) \/ RequestSend(c)
      BY <2>2, InvWrongVersion, InvRequestSerial, InvRequestData, InvRequestSend, SMTT(30)
    <2>3. CASE ReceiveStep(c)
      BY <2>3, InvHandleData, InvHandleLogged, InvHangUp, ZenonT(30) DEF ReceiveStep
    <2>4. CASE Dial(c)
      <3>1. request[c] = NoRequest
        BY <2>4, Zenon DEF ToldInv, ToldOK, Dial
      <3> QED
        BY <2>4, <3>1, InvDial, SMTT(30)
    <2>5. CASE Poll(c)
      BY <2>5, InvPoll, SMTT(30)
    <2> QED
      BY <2>1, <2>2, <2>3, <2>4, <2>5, SMTT(30) DEF ServerStep
  <1>2. ToldInv'
    BY ToldList, ToldRequest, ToldDial, ToldOther, SMTT(30) DEF ServerStep
  <1>3. HandleData(c) \/ serial' = serial
    BY SMTT(30) DEF ServerStep, ReceiveStep, ClientConnected, ClientDisconnected, SendWrongVersionError,
           RequestSerial, RequestData, RequestSend, Dial, Poll, HandleLogged, HandleError,
           ConnectionLost, clientVars
  <1> QED
    BY <1>1, <1>2, <1>3, SMTT(30)

LEMMA SessionInvNext ==
  ASSUME SessionInv, ToldInv, [SessionNext]_allVars
  PROVE  SessionInv' /\ ToldInv'
  <1>1. CASE (\E list \in SUBSET Keys : UpdateBegin(list)) \/ UpdaterStep
    BY <1>1, UpdaterNext, SMTT(30)
  <1>2. CASE \E c \in Clients : ServerStep(c) \/ ReceiveStep(c) \/ Dial(c) \/ Poll(c)
    BY <1>2, ConnectionNext, SMTT(30)
  <1>3. CASE UNCHANGED allVars
    <2>1. /\ UNCHANGED vars
          /\ UNCHANGED <<request, clientVars, netVars>>
          /\ UNCHANGED <<clients, notifying, toNotify, told, connected, closed>>
      BY <1>3 DEF allVars, sessionVars, serverVars, clientVars, netVars
    <2>2. UpdaterInv'
      BY <2>1, SameUpdater, SMTT(30)
    <2>3. SessionInv'
      BY <2>1, <2>2, NoClient, SMTT(30)
    <2>4. vrpCurrentSerial' = vrpCurrentSerial
      BY <2>1 DEF vars, storeVars
    <2>5. ToldInv'
      BY <2>1, <2>4, ToldSame, Zenon DEF Open
    <2> QED
      BY <2>3, <2>5, SMTT(30)
  <1> QED
    BY <1>1, <1>2, <1>3, SMTT(30) DEF SessionNext

LEMMA SessionInvAlways == SessionSpec => [](SessionInv /\ ToldInv)
  <1>1. SessionInit => SessionInv /\ ToldInv
    BY SessionInvInit, ToldInit
  <1>2. SessionInv /\ ToldInv /\ [SessionNext]_allVars => (SessionInv /\ ToldInv)'
    BY SessionInvNext
  <1> QED
    BY <1>1, <1>2, PTL DEF SessionSpec

-----------------------------------------------------------------------------
(* The theorems. *)

\* The fields of Server, Client and rtrmon's Client keep their types, no
\* channel holds more than its size, and a serial on its way was published.
THEOREM SessionsTyped == SessionSpec => []SessionTypeOK
  <1>1. SessionInv => SessionTypeOK
    <2> SUFFICES ASSUME SessionInv PROVE SessionTypeOK
      OBVIOUS
    <2>1. clients \in Seq(Clients) /\ toNotify \in Seq(Clients)
          /\ notifying \in {"no", "list", "stamp", "send"}
      BY SMTT(30) DEF SessionInv, UpdaterInv
    <2>2. vrpCurrentSerial \in Nat
      BY StoreAssumption DEF SessionInv, StoreInv, TypeOK, Serial
    <2>3. ASSUME NEW c \in Clients
          PROVE  /\ \A i \in DOMAIN queries[c] : queries[c][i].serial \in 0 .. vrpCurrentSerial
                 /\ \A i \in DOMAIN transmits[c] :
                      /\ transmits[c][i].serial \in 0 .. vrpCurrentSerial
                      /\ transmits[c][i].list \in VrpList
                 /\ request[c].at \in {"none", "data", "send"}
                 /\ request[c].pdu.list \in VrpList
                 /\ Len(transmits[c]) <= ChanSize
                 /\ serial[c] \in 0 .. vrpCurrentSerial
                 /\ vrps[c] \subseteq Keys
      <3>1. PICK q : q = queries[c]
        BY SMTT(30)
      <3>2. PICK t : t = transmits[c]
        OBVIOUS
      <3>3. PICK s : s = serial[c]
        OBVIOUS
      <3>4. /\ s \in 0 .. vrpCurrentSerial /\ QueriesOK(q, s) /\ TransmitsOK(t, s)
            /\ RequestOK(request[c], t, s) /\ vrps[c] \subseteq Keys
        BY <3>1, <3>2, <3>3, Zenon DEF SessionInv, ClientOK, Local, HoldsOK
      <3>5. DOMAIN q = 1 .. Len(q) /\ DOMAIN t = 1 .. Len(t)
        <4>1. IsSeq(q) /\ IsSeq(t)
          BY <3>4, Zenon DEF QueriesOK, TransmitsOK
        <4> QED
          BY <4>1 DEF IsSeq
      <3>6. ASSUME NEW i \in DOMAIN q PROVE q[i].serial \in 0 .. vrpCurrentSerial
        <4>1. q[i].serial \in 0 .. s
          BY <3>4, <3>5, Zenon DEF QueriesOK
        <4> QED
          BY <2>2, <3>4, <4>1
      <3>7. ASSUME NEW i \in DOMAIN t
            PROVE  t[i].serial \in 0 .. vrpCurrentSerial /\ t[i].list \in VrpList
        BY <3>4, <3>5, Zenon DEF TransmitsOK
      <3>8. Len(t) <= ChanSize
        BY <3>4, Zenon DEF TransmitsOK
      <3>9. request[c].at \in {"none", "data", "send"} /\ request[c].pdu.list \in VrpList
        BY <3>4, Zenon DEF RequestOK
      <3> QED
        BY <3>1, <3>2, <3>3, <3>4, <3>6, <3>7, <3>8, <3>9, Zenon
    <2> QED
      BY <2>1, <2>3, Zenon DEF SessionTypeOK
  <1> QED
    BY <1>1, SessionInvAlways, PTL

\* A client that was answered lacks no VRP that was valid in every version
\* since the serial it holds, however its requests, read in two steps by
\* RequestCache and RequestNewVersion, interleave with AddVRPsDiff.
THEOREM NoStableVrpLost == SessionSpec => []StableVrpsHeld
  <1>1. SessionInv => StableVrpsHeld
    <2> SUFFICES ASSUME SessionInv, NEW c \in Clients, lastUpdate[c]
                 PROVE  Stable(serial[c]) \subseteq vrps[c]
      BY DEF StableVrpsHeld, Stable
    <2>1. Flag(lastUpdate, c) # {}
      BY DEF Flag, On, Open
    <2>2. ClientOK(c)
      BY DEF SessionInv
    <2> QED
      BY <2>1, <2>2, Zenon DEF ClientOK, Local, HoldsOK
  <1> QED
    BY <1>1, SessionInvAlways, PTL

\* Once NotifyClientsLatest has finished, every registered client that was ever
\* told a serial was told the current one: one that registered, or was being
\* answered, while the list was copied is not forgotten.
THEOREM NoUpdateUntold == SessionSpec => []ToldCurrent
  <1>1. SessionInv /\ ToldInv => ToldCurrent
    <2> SUFFICES ASSUME SessionInv, ToldInv, notifying = "no", NEW c \in Registered,
                        told[c] # {}
                 PROVE  vrpCurrentSerial \in told[c]
      BY Zenon DEF ToldCurrent
    <2>1. UpdaterInv
      BY SMTT(30) DEF SessionInv
    <2>2. toNotify = << >> /\ c \in Clients
      BY <2>1, SMTT(30) DEF UpdaterInv, Registered
    <2>3. ~Owed(c)
      BY <2>2 DEF Owed, Members
    <2> QED
      BY <2>2, <2>3, Zenon DEF ToldInv, ToldOK
  <1> QED
    BY <1>1, SessionInvAlways, PTL

\* HandlePDU never takes a client back to an earlier serial: the serials of the
\* responses in a channel never decrease, and none is behind the client's.
THEOREM SerialNeverBack == SessionSpec => SerialMonotone
  <1>1. ASSUME SessionInv, ToldInv, [SessionNext]_allVars
        PROVE  [\A c \in Clients : serial'[c] >= serial[c]]_serial
    <2>1. serial' = serial \/ \E c \in Clients : HandleData(c)
      <3>1. CASE (\E list \in SUBSET Keys : UpdateBegin(list)) \/ UpdaterStep
        BY <1>1, <3>1, UpdaterNext, SMTT(30)
      <3>2. CASE \E c \in Clients : ServerStep(c) \/ ReceiveStep(c) \/ Dial(c) \/ Poll(c)
        BY <1>1, <3>2, ConnectionNext
      <3>3. CASE UNCHANGED allVars
        BY <3>3, SMTT(30) DEF allVars, sessionVars, clientVars
      <3> QED
        BY <1>1, <3>1, <3>2, <3>3, SMTT(30) DEF SessionNext
    <2>2. ASSUME NEW c \in Clients, HandleData(c), NEW d \in Clients
          PROVE  serial'[d] >= serial[d]
      <3>1. CASE d = c
        BY <1>1, <2>2, <3>1, InvHandleData, SMTT(30)
      <3>2. CASE d # c
        <4>1. serial'[d] = serial[d]
          BY <1>1, <2>2, <3>2, Zenon DEF HandleData, SessionInv, Shaped
        <4>2. serial[d] \in 0 .. vrpCurrentSerial
          BY <1>1, Zenon DEF SessionInv, ClientOK, Local
        <4> QED
          BY <4>1, <4>2
      <3> QED
        BY <3>1, <3>2, SMTT(30)
    <2> QED
      BY <2>1, <2>2, SMTT(30)
  <1> QED
    BY <1>1, SessionInvAlways, PTL DEF SessionSpec, SerialMonotone

=============================================================================
