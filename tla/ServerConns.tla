------------------------------ MODULE ServerConns ------------------------------
(***************************************************************************)
(* The connections of the RTR server (lib/server.go): accept loops with    *)
(* the connection limit, the registered clients and their counter, the     *)
(* two goroutines of a client (Client.Start reads and answers, sendLoop    *)
(* writes), version negotiation, Disconnect, and the updater's             *)
(* notifications.                                                          *)
(*                                                                         *)
(* A client is identified with its connection, which is used once.  The    *)
(* contents of PDUs are left out: of a query its version matters, of an    *)
(* answer how many PDUs it has and which query it belongs to.              *)
(***************************************************************************)
EXTENDS ClientList, FiniteSets

CONSTANTS
  Conns,            \* the connections routers open
  SshConns,         \* those that come in through SSH
  MaxConn,          \* maxconn; 0 is no limit
  BaseVersion,      \* baseVersion
  EnforceVersion,   \* enforceVersion; FALSE in stayrtr
  ChanSize,         \* bound on transmits; 256 in the code
  AnswerMax,        \* bound on the PDUs of one answer
  Askers,           \* the connections whose routers send queries
  Queries,          \* what they send: versions, or Garbage
  QueryMax,         \* bound on the queries of one connection
  NotifyMax         \* bound on the rounds of notifications

ASSUME ConnsAssumption ==
  /\ SshConns \subseteq Conns /\ Askers \subseteq Conns
  /\ {MaxConn, QueryMax, NotifyMax} \subseteq Nat
  /\ {ChanSize, AnswerMax} \subseteq Nat \ {0}
  /\ BaseVersion \in {0, 1}
  /\ EnforceVersion \in BOOLEAN

VARIABLES
  clients,     \* the registered clients, in order
  connected,   \* the counter the limit is checked against
  raced,       \* history: an unlocked update of it overwrote another one
  conn,        \* per connection: the fields of its Client and its goroutines
  toNotify,    \* updater: the clients NotifyClients has still to notify
  stamp,       \* updater: the version put into the PDU it is about to queue
  rounds       \* updater: how often it has notified

updaterVars == <<toNotify, stamp, rounds>>
connsVars == <<clients, connected, raced, conn, updaterVars>>

Unset == -1
NoQuery == [version |-> Unset, accepted |-> TRUE]
Garbage == 99                     \* a PDU that DecodeBytes refuses
NoPdu == [what |-> "none", version |-> 0, query |-> NoQuery]

Registered == {clients[i] : i \in DOMAIN clients}

\* A connection before its router opens it.
NewConn ==
  [wire      |-> "none",      \* "none", "open", "gone" (router left), "closed"
   inbox     |-> Unset,       \* the query that waits to be read
   asked     |-> 0,           \* how many queries the router has sent
   reader    |-> "none",      \* where the goroutine of Client.Start is
   tmp       |-> 0,           \* connected, as read by an unlocked ++ or --
   query     |-> NoQuery,     \* the query being handled
   left      |-> 0,           \* the PDUs of its answer still to be queued
   up        |-> FALSE,       \* the client's field connected
   version   |-> Unset,       \* version; Unset while versionset is false
   transmits |-> << >>,
   sender    |-> "none",      \* where sendLoop is
   wrote     |-> NoPdu]       \* the PDU sendLoop is writing

\* GetVersion: the zero value until the version is set.
GetVersion(c) == IF conn[c].version = Unset THEN 0 ELSE conn[c].version

ConnsInit ==
  /\ clients = << >> /\ connected = 0 /\ raced = FALSE
  /\ conn = [c \in Conns |-> NewConn]
  /\ toNotify = << >> /\ stamp = Unset /\ rounds = 0

-----------------------------------------------------------------------------
(* The routers (external). *)

Connect(c) ==
  /\ conn[c].wire = "none"
  /\ conn' = [conn EXCEPT ![c].wire = "open", ![c].reader = "accept"]
  /\ UNCHANGED <<clients, connected, raced, updaterVars>>

SendQuery(c, q) ==
  /\ c \in Askers
  /\ conn[c].wire = "open" /\ conn[c].inbox = Unset /\ conn[c].asked < QueryMax
  /\ conn' = [conn EXCEPT ![c].inbox = q, ![c].asked = @ + 1]
  /\ UNCHANGED <<clients, connected, raced, updaterVars>>

HangUp(c) ==
  /\ conn[c].wire = "open"
  /\ conn' = [conn EXCEPT ![c].wire = "gone"]
  /\ UNCHANGED <<clients, connected, raced, updaterVars>>

-----------------------------------------------------------------------------
(* Accepting. *)

\* loopTCP closes the connection when the limit is reached, NewServerConn when
\* the SSH handshake fails.
Refuse(c) ==
  /\ conn[c].reader = "accept"
  /\ (MaxConn > 0 /\ connected >= MaxConn) \/ c \in SshConns
  /\ conn' = [conn EXCEPT ![c].wire = "closed", ![c].reader = "done"]
  /\ UNCHANGED <<clients, connected, raced, updaterVars>>

\* Else acceptClientTCP or acceptClientSSH starts a goroutine.
Accept(c) ==
  /\ conn[c].reader = "accept"
  /\ MaxConn = 0 \/ connected < MaxConn
  /\ conn' = [conn EXCEPT ![c].reader = IF c \in SshConns THEN "inc" ELSE "start",
                          ![c].version = IF EnforceVersion THEN BaseVersion ELSE Unset]
  /\ UNCHANGED <<clients, connected, raced, updaterVars>>

\* acceptClientSSH's connected++ and connected-- without the lock: a read ...
SshRead(c) ==
  /\ conn[c].reader \in {"inc", "dec"}
  /\ conn' = [conn EXCEPT ![c].tmp = connected,
                          ![c].reader = IF @ = "inc" THEN "inc_write" ELSE "dec_write"]
  /\ UNCHANGED <<clients, connected, raced, updaterVars>>

\* ... and a write, the last one before the connection is closed.
SshWrite(c) ==
  /\ conn[c].reader \in {"inc_write", "dec_write"}
  /\ connected' = conn[c].tmp + (IF conn[c].reader = "inc_write" THEN 1 ELSE -1)
  /\ raced' = (raced \/ connected # conn[c].tmp)
  /\ conn' = [conn EXCEPT ![c].tmp = 0,
                          ![c].reader = IF @ = "inc_write" THEN "start" ELSE "done",
                          ![c].wire = IF conn[c].reader = "inc_write" THEN @ ELSE "closed"]
  /\ UNCHANGED <<clients, updaterVars>>

\* The SSH connection ends, or asks for anything but the subsystem rpki-rtr:
\* no client is started.
SshNoClient(c) ==
  /\ c \in SshConns
  /\ conn[c].reader = "start"
  /\ conn' = [conn EXCEPT ![c].reader = "dec"]
  /\ UNCHANGED <<clients, connected, raced, updaterVars>>

\* The beginning of Client.Start, ClientConnected included.
Start(c) ==
  /\ conn[c].reader = "start"
  /\ clients' = Append(clients, c)
  /\ connected' = connected + 1
  /\ conn' = [conn EXCEPT ![c].up = TRUE, ![c].sender = "loop", ![c].reader = "read"]
  /\ UNCHANGED <<raced, updaterVars>>

-----------------------------------------------------------------------------
(* Client.Start, once the client is registered. *)

\* SendRawPDU blocks while transmits is full.
CanQueue(c) == Len(conn[c].transmits) < ChanSize

Pdu(what, v, q) == [what |-> what, version |-> v, query |-> q]

\* Slip: any first version is taken over.
VersionOKFirst(c, v) == conn[c].version \in {Unset, v}

\* checkVersion's condition.
VersionOK(c, v) == conn[c].version \in {Unset, v} /\ v \in {0, 1}

\* One Read returns one PDU; checkVersion takes its version over ...
ReadQuery(c) ==
  /\ conn[c].reader = "read" /\ conn[c].wire \in {"open", "gone"}
  /\ VersionOK(c, conn[c].inbox)
  /\ conn' = [conn EXCEPT ![c].inbox = Unset,
                          ![c].query = [version |-> conn[c].inbox, accepted |-> TRUE],
                          ![c].version = conn[c].inbox,
                          ![c].reader = "handle"]
  /\ UNCHANGED <<clients, connected, raced, updaterVars>>

\* Slip: the error is sent, and the client stays.
AfterRejectStays == "handle"

AfterReject == "disconnect"

\* ... or answers with SendWrongVersionError and disconnects.
ReadRejected(c) ==
  /\ conn[c].reader = "read" /\ conn[c].wire \in {"open", "gone"}
  /\ conn[c].inbox \notin {Unset, Garbage} /\ ~VersionOK(c, conn[c].inbox)
  /\ conn' = [conn EXCEPT ![c].inbox = Unset,
                          ![c].query = [version |-> conn[c].inbox, accepted |-> FALSE],
                          ![c].reader = "reject"]
  /\ UNCHANGED <<clients, connected, raced, updaterVars>>

SendWrongVersionError(c) ==
  /\ conn[c].reader = "reject"
  /\ CanQueue(c)
  /\ conn' = [conn EXCEPT ![c].transmits = Append(@, Pdu("error", GetVersion(c), NoQuery)),
                          ![c].reader = AfterReject]
  /\ UNCHANGED <<clients, connected, raced, updaterVars>>

\* Read fails, or DecodeBytes does.
ReadFails(c) ==
  /\ conn[c].reader = "read"
  /\ conn[c].wire \in {"gone", "closed"} \/ conn[c].inbox = Garbage
  /\ conn' = [conn EXCEPT ![c].inbox = Unset, ![c].reader = "disconnect"]
  /\ UNCHANGED <<clients, connected, raced, updaterVars>>

\* Disconnect: sendLoop may see this before the client is unregistered.
Disconnect(c) ==
  /\ conn[c].reader = "disconnect"
  /\ conn' = [conn EXCEPT ![c].up = FALSE, ![c].reader = "unregister"]
  /\ UNCHANGED <<clients, connected, raced, updaterVars>>

\* Slip: the counter is left as it is.
OneLessUncounted == connected

OneLess == connected - 1

ClientDisconnected(c) ==
  /\ conn[c].reader = "unregister"
  /\ clients' = Without(clients, c)
  /\ connected' = OneLess
  /\ conn' = [conn EXCEPT ![c].reader = "close"]
  /\ UNCHANGED <<raced, updaterVars>>

\* Where the goroutine goes when the loop finds c.connected false.
AfterLoop(c) == IF c \in SshConns THEN "dec" ELSE "done"

\* The rest of Disconnect: quit is offered, and taken only if sendLoop waits in
\* its select at that moment; then the connection is closed.  A query that was
\* rejected is handled all the same.
Close(c) ==
  /\ conn[c].reader = "close"
  /\ conn' = [conn EXCEPT ![c].sender = IF @ = "wait" THEN "loop" ELSE @,
                          ![c].wire = "closed",
                          ![c].reader = IF conn[c].query = NoQuery
                                        THEN AfterLoop(c) ELSE "handle"]
  /\ UNCHANGED <<clients, connected, raced, updaterVars>>

\* HandlePDU: the client's version afterwards.
Downgraded(c) ==
  IF GetVersion(c) > BaseVersion THEN BaseVersion ELSE conn[c].version

\* HandlePDU, then passSimpleHandler begins to answer.  With EnforceVersion the
\* version is BaseVersion from the start, so HandlePDU's first test never holds.
HandlePDU(c) ==
  /\ conn[c].reader = "handle"
  /\ \E n \in 1 .. AnswerMax :
       conn' = [conn EXCEPT ![c].version = Downgraded(c), ![c].left = n,
                            ![c].reader = "answer"]
  /\ UNCHANGED <<clients, connected, raced, updaterVars>>

\* The loop of Client.Start tests c.connected.
AfterPDU(c) == IF conn[c].up THEN "read" ELSE AfterLoop(c)

\* passSimpleHandler on a PDU that is no query.
IgnorePDU(c) ==
  /\ conn[c].reader = "handle"
  /\ conn' = [conn EXCEPT ![c].version = Downgraded(c), ![c].query = NoQuery,
                          ![c].reader = AfterPDU(c)]
  /\ UNCHANGED <<clients, connected, raced, updaterVars>>

\* SendPDU of one PDU of the answer.
Answer(c) ==
  /\ conn[c].reader = "answer"
  /\ CanQueue(c)
  /\ conn' = [conn EXCEPT
       ![c].transmits = Append(@, Pdu("answer", GetVersion(c), conn[c].query)),
       ![c].left = @ - 1,
       ![c].query = IF conn[c].left > 1 THEN @ ELSE NoQuery,
       ![c].reader = IF conn[c].left > 1 THEN @ ELSE AfterPDU(c)]
  /\ UNCHANGED <<clients, connected, raced, updaterVars>>

-----------------------------------------------------------------------------
(* sendLoop. *)

\* The loop condition; "enter" is the moment before the select waits.
SendCheck(c) ==
  /\ conn[c].sender = "loop"
  /\ conn' = [conn EXCEPT ![c].sender = IF conn[c].up THEN "enter" ELSE "done"]
  /\ UNCHANGED <<clients, connected, raced, updaterVars>>

SendWait(c) ==
  /\ conn[c].sender = "enter" /\ conn[c].transmits = << >>
  /\ conn' = [conn EXCEPT ![c].sender = "wait"]
  /\ UNCHANGED <<clients, connected, raced, updaterVars>>

SendTake(c) ==
  /\ conn[c].sender \in {"enter", "wait"} /\ conn[c].transmits # << >>
  /\ conn' = [conn EXCEPT ![c].sender = "write",
                          ![c].wrote = Head(conn[c].transmits),
                          ![c].transmits = Tail(@)]
  /\ UNCHANGED <<clients, connected, raced, updaterVars>>

\* Slip: sendLoop returns when a write fails.
AfterWriteReturns(c) == IF conn[c].wire = "open" THEN "loop" ELSE "done"

\* The error of a write is ignored.
AfterWrite(c) == "loop"

Write(c) ==
  /\ conn[c].sender = "write"
  /\ conn' = [conn EXCEPT ![c].sender = AfterWrite(c), ![c].wrote = NoPdu]
  /\ UNCHANGED <<clients, connected, raced, updaterVars>>

\* A write to an open connection waits for its router, one to a connection
\* that is closed fails at once.
WriteOpen(c) == conn[c].wire = "open" /\ Write(c)
WriteFails(c) == conn[c].wire # "open" /\ Write(c)

-----------------------------------------------------------------------------
(* The updater. *)

NotifyClients ==
  /\ toNotify = << >> /\ clients # << >> /\ rounds < NotifyMax
  /\ toNotify' = clients
  /\ rounds' = rounds + 1
  /\ UNCHANGED <<clients, connected, raced, conn, stamp>>

\* Notify builds a PDU and SendPDU writes the client's version into it.
NotifyStamp ==
  /\ toNotify # << >> /\ stamp = Unset
  /\ stamp' = GetVersion(Head(toNotify))
  /\ UNCHANGED <<clients, connected, raced, conn, toNotify, rounds>>

\* SendRawPDU: this blocks while the client's channel is full.
NotifyQueue ==
  /\ stamp # Unset /\ CanQueue(Head(toNotify))
  /\ conn' = [conn EXCEPT ![Head(toNotify)].transmits =
                Append(@, Pdu("notify", stamp, NoQuery))]
  /\ toNotify' = Tail(toNotify)
  /\ stamp' = Unset
  /\ UNCHANGED <<clients, connected, raced, rounds>>

-----------------------------------------------------------------------------
RouterStep(c) == Connect(c) \/ HangUp(c) \/ \E q \in Queries : SendQuery(c, q)

AcceptStep(c) == Refuse(c) \/ Accept(c) \/ SshRead(c) \/ SshWrite(c)
                 \/ SshNoClient(c) \/ Start(c)

ReaderStep(c) ==
  \/ ReadQuery(c) \/ ReadRejected(c) \/ SendWrongVersionError(c) \/ ReadFails(c)
  \/ Disconnect(c) \/ ClientDisconnected(c) \/ Close(c)
  \/ HandlePDU(c) \/ IgnorePDU(c) \/ Answer(c)

SenderStep(c) == SendCheck(c) \/ SendWait(c) \/ SendTake(c) \/ WriteFails(c)

UpdaterStep == NotifyStamp \/ NotifyQueue

ConnsNext ==
  \/ \E c \in Conns : RouterStep(c) \/ AcceptStep(c) \/ ReaderStep(c)
                      \/ SenderStep(c) \/ WriteOpen(c)
  \/ NotifyClients
  \/ UpdaterStep

ConnsSpec == ConnsInit /\ [][ConnsNext]_connsVars

\* The goroutines of a client that can run do run.  Nothing is said of new
\* connections, and a write to an open connection may wait for its router for
\* ever.
ConnsFairness ==
  \A c \in Conns : WF_connsVars(ReaderStep(c)) /\ WF_connsVars(SenderStep(c))

FairConnsSpec == ConnsSpec /\ ConnsFairness

\* As above, with an updater that runs when it can and with routers that read
\* what they are sent.
ReadingConnsSpec ==
  /\ FairConnsSpec
  /\ WF_connsVars(UpdaterStep)
  /\ \A c \in Conns : WF_connsVars(WriteOpen(c))

-----------------------------------------------------------------------------
(* Properties. *)

\* Fields keep their types and no channel exceeds its capacity.
ConnsTypeOK ==
  /\ clients \in Seq(Conns) /\ toNotify \in Seq(Conns)
  /\ connected \in Int /\ stamp \in {Unset, 0, 1}
  /\ \A c \in Conns :
       /\ conn[c].left \in 0 .. AnswerMax
       /\ conn[c].version \in {Unset, 0, 1}
       /\ Len(conn[c].transmits) <= ChanSize

\* SSH connections that acceptClientSSH counts itself.
SshCounted ==
  {c \in SshConns : conn[c].reader \notin {"none", "accept", "inc", "inc_write", "done"}}

\* The counter the limit is checked against is the number of registered
\* clients plus the SSH connections that are being served, unless an unlocked
\* update of acceptClientSSH overwrote one of another goroutine.
CounterExact ==
  ~raced => connected = Len(clients) + Cardinality(SshCounted)

\* Whatever is still queued or handled when a client is disconnected, a router
\* is only ever sent answers to queries whose version was accepted, in that
\* version or, where the server's is lower, in the server's.
AnswersNegotiated ==
  \A c \in Conns :
    conn[c].wire = "open" /\ conn[c].wrote.what = "answer" =>
      LET q == conn[c].wrote.query
      IN  /\ q.accepted
          /\ conn[c].wrote.version = IF q.version > BaseVersion THEN BaseVersion ELSE q.version

\* A client whose router hung up is unregistered in the end, however full its
\* channel was and whatever its reader was doing.
GoneUnregistered ==
  \A c \in Conns : (conn[c].wire = "gone") ~> (c \notin Registered)

\* NotifyClients always finishes, if every router reads what it is sent.
NotifyEnds == []<>(toNotify = << >>)

=============================================================================
