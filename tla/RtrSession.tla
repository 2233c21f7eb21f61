------------------------------ MODULE RtrSession ------------------------------
(***************************************************************************)
(* RTR sessions: the VRP store, its updater with the notifications it      *)
(* sends, the goroutine that reads and answers each client's queries       *)
(* (Client.Start and DefaultRTREventHandler of lib/server.go), and the     *)
(* client of this repository that polls the server (rtrmon on top of       *)
(* lib/client.go).                                                         *)
(*                                                                         *)
(* A request takes vrplock twice: for the serial, then for the data.  The  *)
(* two sections and the sending are separate actions, so an update may be  *)
(* stored between any two of them.                                         *)
(*                                                                         *)
(* A response (Cache Response, prefix PDUs, End of Data) travels as one    *)
(* message: only Serial Notify PDUs can come between its parts, and the    *)
(* client only logs those.  transmits stands for the channel of that name  *)
(* together with the connection that sendLoop writes to.                   *)
(*                                                                         *)
(* Both ends keep a protocol version.  The client starts with 1 and goes   *)
(* down to 0 with the first PDU of version 0 it gets; the server takes the *)
(* version of the first query and refuses any other from then on.          *)
(***************************************************************************)
EXTENDS VrpStore, ClientList

CONSTANTS
  Clients,       \* the connections of the clients
  LastSerial,    \* bound: updates stop at this serial, before it wraps
  ChanSize,      \* bound on transmits; 256 and the connection's buffers
  InFlight,      \* bound on the queries of a client the server has not read
  BaseVersion    \* baseVersion: the server's version, 1 unless -protocol says 0

ASSUME SessionAssumption ==
  /\ LastSerial \in 0 .. SerialMax
  /\ ChanSize \in Nat \ {0}
  /\ InFlight \in Nat \ {0}
  /\ BaseVersion \in {0, 1}
  /\ ~ManualSerial

VARIABLES
  clients,       \* server: the registered clients, in order
  notifying,     \* updater: "no", "list" (about to read clients), "stamp", "send"
  toNotify,      \* updater: the clients left to notify
  stamp,         \* updater: the version put into the PDU it is about to queue
  request,       \* per client: the request its goroutine is handling
  negotiated,    \* per client: the server's version; Unset while versionset is false
  queries,       \* per client: queries on their way to the server
  transmits,     \* per client: PDUs on their way to the client
  closed,        \* per client: the server has closed the connection
  connected,     \* client: it has a connection
  version,       \* client: the version of its session
  exited,        \* client: the program has ended
  serial,        \* client: the serial of the last End of Data
  vrps,          \* client: the VRPs it holds
  lastUpdate,    \* client: a response has been received (the time is set)
  told           \* history: the serials each client was told since it connected

serverVars == <<clients, notifying, toNotify, stamp, request, negotiated>>
clientVars == <<connected, version, exited, serial, vrps, lastUpdate>>
netVars == <<queries, transmits, closed, told>>
sessionVars == <<serverVars, clientVars, netVars>>
allVars == <<vars, sessionVars>>

Versions == 0 .. LastSerial

Unset == -1

\* A PDU before SendPDU sets its version.
Pdu(type, s, list) == [type |-> type, version |-> 0, serial |-> s, list |-> list]

ResetQuery(v)     == [type |-> "reset_query", version |-> v, serial |-> 0]
SerialQuery(v, s) == [type |-> "serial_query", version |-> v, serial |-> s]

\* The steps of a request: the serial is read, then the data, then it is sent.
NoRequest == [at |-> "none", query |-> ResetQuery(1), pdu |-> Pdu("none", 0, NoVrps)]

Registered == {clients[i] : i \in DOMAIN clients}

SessionInit ==
  /\ Init
  /\ clients = << >>
  /\ notifying = "no"
  /\ toNotify = << >>
  /\ stamp = Unset
  /\ request = [c \in Clients |-> NoRequest]
  /\ negotiated = [c \in Clients |-> Unset]
  /\ queries = [c \in Clients |-> << >>]
  /\ transmits = [c \in Clients |-> << >>]
  /\ closed = [c \in Clients |-> FALSE]
  /\ connected = [c \in Clients |-> FALSE]
  /\ version = [c \in Clients |-> 1]
  /\ exited = [c \in Clients |-> FALSE]
  /\ serial = [c \in Clients |-> 0]
  /\ vrps = [c \in Clients |-> {}]
  /\ lastUpdate = [c \in Clients |-> FALSE]
  /\ told = [c \in Clients |-> {}]

\* Both ends have the connection open.
Open(c) == connected[c] /\ ~closed[c]

\* SendPDU: it blocks while transmits is full.  What is written to a closed
\* connection is lost.
CanSend(c) == Open(c) => Len(transmits[c]) < ChanSize

Stamped(pdu, v) == [pdu EXCEPT !.version = v]

Send(c, v, pdu) ==
  transmits' = IF Open(c) THEN [transmits EXCEPT ![c] = Append(@, Stamped(pdu, v))]
                          ELSE transmits

\* GetVersion: the zero value until the version is set.
GetVersion(c) == IF negotiated[c] = Unset THEN 0 ELSE negotiated[c]

-----------------------------------------------------------------------------
(* The updater: updateFromNewState of stayrtr calls AddVRPs, then          *)
(* NotifyClientsLatest.                                                    *)

UpdateBegin(list) ==
  /\ notifying = "no"
  /\ vrpCurrentSerial < LastSerial
  /\ AddVRPs(list)
  /\ UNCHANGED sessionVars

UpdateApply ==
  /\ AddVRPsDiffApply
  /\ UNCHANGED sessionVars

UpdateStore ==
  /\ AddVRPsDiffStore
  /\ notifying' = "list"
  /\ UNCHANGED <<clients, toNotify, stamp, request, negotiated, clientVars, netVars>>

\* The serial and the client list are read; the serial cannot change before
\* the updater's next update.
NotifyClientsLatest ==
  /\ notifying = "list"
  /\ toNotify' = clients
  /\ notifying' = IF clients = << >> THEN "no" ELSE "stamp"
  /\ UNCHANGED <<vars, clients, stamp, request, negotiated, clientVars, netVars>>

\* SendPDU writes the client's version into the Serial Notify ...
NotifyStamp ==
  /\ notifying = "stamp"
  /\ stamp' = GetVersion(Head(toNotify))
  /\ notifying' = "send"
  /\ UNCHANGED <<vars, clients, toNotify, request, negotiated, clientVars, netVars>>

\* ... and queues it.
Notify ==
  /\ notifying = "send"
  /\ LET c == Head(toNotify)
     IN  /\ CanSend(c)
         /\ Send(c, stamp, Pdu("serial_notify", vrpCurrentSerial, NoVrps))
         /\ told' = [told EXCEPT ![c] = @ \cup {vrpCurrentSerial}]
  /\ toNotify' = Tail(toNotify)
  /\ stamp' = Unset
  /\ notifying' = IF Tail(toNotify) = << >> THEN "no" ELSE "stamp"
  /\ UNCHANGED <<vars, clients, request, negotiated, clientVars, queries, closed>>

-----------------------------------------------------------------------------
(* The server's goroutine of a client. *)

\* Client.Start registers the client before it reads from the connection.
ClientConnected(c) ==
  /\ Open(c)
  /\ c \notin Registered
  /\ clients' = Append(clients, c)
  /\ UNCHANGED <<vars, notifying, toNotify, stamp, request, negotiated, clientVars, netVars>>

\* A read fails once the client has closed the connection.
ClientDisconnected(c) ==
  /\ ~connected[c]
  /\ c \in Registered
  /\ request[c] = NoRequest
  /\ clients' = Without(clients, c)
  /\ UNCHANGED <<vars, notifying, toNotify, stamp, request, negotiated, clientVars, netVars>>

\* checkVersion's condition.
VersionOK(c, query) == negotiated[c] \in {Unset, query.version}

\* HandlePDU: the server's version is the highest.
Downgraded(v) == IF v > BaseVersion THEN BaseVersion ELSE v

\* A query of another version than the first: the error report is queued and
\* the connection closed.  The query is handled all the same, but its answer
\* goes to a connection that is closed.
SendWrongVersionError(c) ==
  /\ c \in Registered
  /\ request[c] = NoRequest
  /\ queries[c] # << >>
  /\ ~VersionOK(c, Head(queries[c]))
  /\ CanSend(c)
  /\ Send(c, GetVersion(c), Pdu("error_report", 0, NoVrps))
  /\ clients' = Without(clients, c)
  /\ queries' = [queries EXCEPT ![c] = Tail(@)]
  /\ closed' = [closed EXCEPT ![c] = TRUE]
  /\ UNCHANGED <<vars, notifying, toNotify, stamp, request, negotiated, clientVars, told>>

\* RequestCache and RequestNewVersion: GetCurrentSerial.  Without data, the
\* answer is what SendNoDataError sends.
Begun(query) ==
  IF HasData
  THEN [NoRequest EXCEPT !.at = "data", !.query = query, !.pdu.serial = vrpCurrentSerial]
  ELSE [NoRequest EXCEPT !.at = "send", !.query = query,
                         !.pdu = Pdu("error_report", 0, NoVrps)]

\* Slip: the first query is read before the client is registered.
RequestSerialUnregistered(c) ==
  /\ request[c] = NoRequest
  /\ queries[c] # << >>
  /\ VersionOK(c, Head(queries[c]))
  /\ negotiated' = [negotiated EXCEPT ![c] = Downgraded(Head(queries[c]).version)]
  /\ request' = [request EXCEPT ![c] = Begun(Head(queries[c]))]
  /\ queries' = [queries EXCEPT ![c] = Tail(@)]
  /\ UNCHANGED <<vars, clients, notifying, toNotify, stamp, clientVars, transmits, closed, told>>

\* A query is read and its version taken over (checkVersion, HandlePDU); the
\* request begins.
RequestSerial(c) ==
  /\ c \in Registered
  /\ request[c] = NoRequest
  /\ queries[c] # << >>
  /\ VersionOK(c, Head(queries[c]))
  /\ negotiated' = [negotiated EXCEPT ![c] = Downgraded(Head(queries[c]).version)]
  /\ request' = [request EXCEPT ![c] = Begun(Head(queries[c]))]
  /\ queries' = [queries EXCEPT ![c] = Tail(@)]
  /\ UNCHANGED <<vars, clients, notifying, toNotify, stamp, clientVars, transmits, closed, told>>

\* Slip: the response is labelled with the serial the client asked from.
AnswerEchoesSerial(query, s) ==
  IF query.type = "reset_query"
  THEN Pdu("data", s, GetCurrentVRPs)
  ELSE IF HasSerialDiff(query.serial)
  THEN Pdu("data", query.serial, GetVRPsSerialDiff(query.serial))
  ELSE Pdu("cache_reset", 0, NoVrps)

\* Slip: the response is labelled with the serial of the next update.
AnswerNextSerial(query, s) ==
  IF query.type = "reset_query"
  THEN Pdu("data", s + 1, GetCurrentVRPs)
  ELSE IF HasSerialDiff(query.serial)
  THEN Pdu("data", s + 1, GetVRPsSerialDiff(query.serial))
  ELSE Pdu("cache_reset", 0, NoVrps)

\* What a query is answered with, s being the serial that was read before.
Answer(query, s) ==
  IF query.type = "reset_query"
  THEN Pdu("data", s, GetCurrentVRPs)
  ELSE IF HasSerialDiff(query.serial)
  THEN Pdu("data", s, GetVRPsSerialDiff(query.serial))
  ELSE Pdu("cache_reset", 0, NoVrps)

\* GetCurrentVRPs or GetVRPsSerialDiff.
RequestData(c) ==
  /\ request[c].at = "data"
  /\ request' = [request EXCEPT ![c].at = "send",
                                ![c].pdu = Answer(request[c].query, request[c].pdu.serial)]
  /\ UNCHANGED <<vars, clients, notifying, toNotify, stamp, negotiated, clientVars, netVars>>

\* SendVRPs, SendCacheReset or SendNoDataError.
RequestSend(c) ==
  /\ request[c].at = "send"
  /\ CanSend(c)
  /\ Send(c, GetVersion(c), request[c].pdu)
  /\ told' = [told EXCEPT ![c] =
                IF request[c].pdu.type = "data" THEN @ \cup {request[c].pdu.serial} ELSE @]
  /\ request' = [request EXCEPT ![c] = NoRequest]
  /\ UNCHANGED <<vars, clients, notifying, toNotify, stamp, negotiated, clientVars, queries,
                 closed>>

-----------------------------------------------------------------------------
(* The client (rtrmon). *)

\* Client.Start opens a session of version 1; ClientConnected sends a Reset
\* Query.  What the client holds from an earlier session stays.
Dial(c) ==
  /\ ~connected[c] /\ ~exited[c]
  /\ c \notin Registered
  /\ \A i \in DOMAIN toNotify : toNotify[i] # c
  /\ connected' = [connected EXCEPT ![c] = TRUE]
  /\ version' = [version EXCEPT ![c] = 1]
  /\ negotiated' = [negotiated EXCEPT ![c] = Unset]
  /\ queries' = [queries EXCEPT ![c] = <<ResetQuery(1)>>]
  /\ transmits' = [transmits EXCEPT ![c] = << >>]
  /\ closed' = [closed EXCEPT ![c] = FALSE]
  /\ told' = [told EXCEPT ![c] = {}]
  /\ UNCHANGED <<vars, clients, notifying, toNotify, stamp, request, exited, serial, vrps,
                 lastUpdate>>

\* continuousRTR: every RefreshInterval, answered or not.
Poll(c) ==
  /\ Open(c)
  /\ Len(queries[c]) < InFlight
  /\ queries' = [queries EXCEPT ![c] = Append(@, SerialQuery(version[c], serial[c]))]
  /\ UNCHANGED <<vars, serverVars, clientVars, transmits, closed, told>>

\* StartRW decodes the next PDU; one of version 0 takes the session down to it
\* (rtrmon gives the session a Log).
Incoming(c, types) ==
  /\ connected[c]
  /\ transmits[c] # << >>
  /\ Head(transmits[c]).type \in types
  /\ version' = [version EXCEPT ![c] = IF Head(transmits[c]).version = 0 THEN 0 ELSE @]

\* HandlePDU on the prefix PDUs and the End of Data of a response.
HandleData(c) ==
  /\ Incoming(c, {"data"})
  /\ LET pdu == Head(transmits[c])
     IN  /\ vrps' = [vrps EXCEPT ![c] = Receive(pdu.list, @)]
         /\ serial' = [serial EXCEPT ![c] = pdu.serial]
         /\ lastUpdate' = [lastUpdate EXCEPT ![c] = TRUE]
  /\ transmits' = [transmits EXCEPT ![c] = Tail(@)]
  /\ UNCHANGED <<vars, serverVars, connected, exited, queries, closed, told>>

\* HandlePDU only logs a Cache Reset and a Serial Notify.
HandleLogged(c) ==
  /\ Incoming(c, {"cache_reset", "serial_notify"})
  /\ transmits' = [transmits EXCEPT ![c] = Tail(@)]
  /\ UNCHANGED <<vars, serverVars, connected, exited, serial, vrps, lastUpdate, queries, closed,
                 told>>

\* HandlePDU disconnects on an Error Report; Client.Start dials again later.
HandleError(c) ==
  /\ Incoming(c, {"error_report"})
  /\ connected' = [connected EXCEPT ![c] = FALSE]
  /\ queries' = [queries EXCEPT ![c] = << >>]
  /\ transmits' = [transmits EXCEPT ![c] = << >>]
  /\ UNCHANGED <<vars, serverVars, exited, serial, vrps, lastUpdate, closed, told>>

\* Once the server has closed the connection a read may fail before everything
\* on its way was read: Decode returns an error, and Client.Start ends the
\* program.
ConnectionLost(c) ==
  /\ connected[c] /\ closed[c]
  /\ connected' = [connected EXCEPT ![c] = FALSE]
  /\ exited' = [exited EXCEPT ![c] = TRUE]
  /\ queries' = [queries EXCEPT ![c] = << >>]
  /\ transmits' = [transmits EXCEPT ![c] = << >>]
  /\ UNCHANGED <<vars, serverVars, version, serial, vrps, lastUpdate, closed, told>>

-----------------------------------------------------------------------------
UpdaterStep == UpdateApply \/ UpdateStore \/ NotifyClientsLatest \/ NotifyStamp \/ Notify

ServerStep(c) ==
  \/ ClientConnected(c)
  \/ ClientDisconnected(c)
  \/ SendWrongVersionError(c)
  \/ RequestSerial(c)
  \/ RequestData(c)
  \/ RequestSend(c)

ReceiveStep(c) == HandleData(c) \/ HandleLogged(c) \/ HandleError(c) \/ ConnectionLost(c)

SessionNext ==
  \/ \E list \in SUBSET Keys : UpdateBegin(list)
  \/ UpdaterStep
  \/ \E c \in Clients : ServerStep(c) \/ ReceiveStep(c) \/ Dial(c) \/ Poll(c)

SessionSpec == SessionInit /\ [][SessionNext]_allVars

\* Every goroutine that can run does so eventually; timers fire again and
\* again.  Nothing says that there is ever another update.
Fairness ==
  /\ WF_allVars(UpdaterStep)
  /\ \A c \in Clients : /\ WF_allVars(ServerStep(c))
                        /\ WF_allVars(ReceiveStep(c))
                        /\ WF_allVars(Dial(c))
                        /\ WF_allVars(Poll(c))

FairSessionSpec == SessionSpec /\ Fairness

-----------------------------------------------------------------------------
(* Properties. *)

\* Sessions keep the types of the fields of Server, Client and rtrmon's
\* Client, and every serial on its way is one that was published.
SessionTypeOK ==
  /\ clients \in Seq(Clients) /\ toNotify \in Seq(Clients)
  /\ notifying \in {"no", "list", "stamp", "send"}
  /\ \A c \in Clients :
       /\ \A i \in DOMAIN queries[c] : queries[c][i].serial \in 0 .. vrpCurrentSerial
       /\ \A i \in DOMAIN transmits[c] :
            /\ transmits[c][i].serial \in 0 .. vrpCurrentSerial
            /\ transmits[c][i].list \in VrpList
       /\ request[c].at \in {"none", "data", "send"}
       /\ request[c].pdu.list \in VrpList
       /\ Len(transmits[c]) <= ChanSize
       /\ serial[c] \in 0 .. vrpCurrentSerial
       /\ vrps[c] \subseteq Keys

\* Whatever races its requests ran into, a client that was answered lacks no
\* VRP that has been valid in every version since the serial it holds: in
\* particular one that is up to date has every current VRP.
StableVrpsHeld ==
  \A c \in Clients :
    lastUpdate[c] =>
      {k \in Keys : \A n \in serial[c] .. vrpCurrentSerial : k \in published[n]}
        \subseteq vrps[c]

\* No update is lost to a client: once the updater has finished notifying,
\* every registered client that was ever answered has been sent the current
\* serial, in a Serial Notify or in an End of Data.
ToldCurrent ==
  notifying = "no" =>
    \A c \in Registered : told[c] # {} => vrpCurrentSerial \in told[c]

\* The serial a client holds never goes back.
SerialMonotone ==
  [][\A c \in Clients : serial'[c] >= serial[c]]_serial

\* A client whose serial is the current one holds exactly the current VRPs.
SyncedExact ==
  \A c \in Clients :
    lastUpdate[c] /\ serial[c] = vrpCurrentSerial =>
      vrps[c] = Announced(vrpCurrent)

\* The client holds the current serial.
UpToDate(c) == lastUpdate[c] /\ serial[c] = vrpCurrentSerial

\* Once updates stop, every client ends with the current serial, or with one
\* that the server keeps no difference for any more, or has exited: however its
\* sessions were refused and begun again.
SyncedUnlessLeftBehind ==
  \A c \in Clients :
    <>[](HasData => UpToDate(c) \/ serial[c] \notin AnswerableSerials \/ exited[c])

\* Once updates stop, every client that has not exited ends with the current
\* serial.
EventuallySynced ==
  \A c \in Clients : <>[](HasData => UpToDate(c) \/ exited[c])

=============================================================================
