-------------------------- MODULE ServerConnsProofs --------------------------
(***************************************************************************)
(* Routers are only sent answers in the version that was negotiated, for   *)
(* any number of connections, versions, queries and notifications and any  *)
(* length of the channels.                                                 *)
(***************************************************************************)
EXTENDS ServerConns, ListFacts, FiniteSetTheorems

-----------------------------------------------------------------------------
(* The inductive invariant. *)

Fields == {"wire", "inbox", "asked", "reader", "tmp", "query", "left", "up",
           "version", "transmits", "sender", "wrote"}

Negotiated(v) == IF v > BaseVersion THEN BaseVersion ELSE v

\* A PDU that may be on its way to the router of a connection r, unless the
\* connection has ended.
MaySend(r, pdu) ==
  r.wire \in {"none", "open"} /\ pdu.what = "answer" =>
    /\ pdu.query.accepted
    /\ pdu.query.version \in {0, 1}
    /\ pdu.version = Negotiated(pdu.query.version)

\* AnswersNegotiated is about the PDU that is being written.  It needs the same
\* of those that wait, and of the query that is being handled: one that was
\* rejected is answered only after the connection is closed, and while one that
\* was accepted is answered the client's version is the negotiated one.
QueryOK(r) ==
  /\ r.wire = "none" => r.reader = "none"
  /\ r.reader \in {"none", "accept", "inc", "inc_write", "start", "read"} =>
       r.query = NoQuery
  /\ r.reader = "reject" => ~r.query.accepted
  /\ r.reader \in {"disconnect", "unregister", "close"} =>
       r.query = NoQuery \/ ~r.query.accepted
  /\ r.reader \in {"handle", "answer"} /\ ~r.query.accepted => r.wire = "closed"
  /\ r.reader \in {"handle", "answer"} /\ r.query.accepted => r.query.version \in {0, 1}
  /\ r.reader = "handle" /\ r.query.accepted => r.version = r.query.version
  /\ r.reader = "answer" /\ r.query.accepted => r.version = Negotiated(r.query.version)

ConnOK(r) ==
  /\ DOMAIN r = Fields
  /\ IsSeq(r.transmits)
  /\ \A k \in 1 .. Len(r.transmits) : MaySend(r, r.transmits[k])
  /\ MaySend(r, r.wrote)
  /\ QueryOK(r)

AnswerInv == DOMAIN conn = Conns /\ \A c \in Conns : ConnOK(conn[c])

\* A step that changes one connection needs to be checked for that one only.
LEMMA OneConn ==
  ASSUME AnswerInv, NEW c, DOMAIN conn' = Conns,
         \A d \in Conns : d # c => conn'[d] = conn[d],
         c \in Conns => ConnOK(conn'[c])
  PROVE  AnswerInv'
  BY DEF AnswerInv

\* A step that leaves channel and sender alone keeps what they hold.
LEMMA QueueKept ==
  ASSUME NEW r, NEW q, ConnOK(r), DOMAIN q = Fields,
         q.transmits = r.transmits, q.wrote = r.wrote,
         q.wire \in {"none", "open"} => r.wire \in {"none", "open"},
         QueryOK(q)
  PROVE  ConnOK(q)
  BY DEF ConnOK, MaySend

\* A PDU that may be sent is queued.
LEMMA Queued ==
  ASSUME NEW r, NEW q, NEW pdu, ConnOK(r), DOMAIN q = Fields,
         q.transmits = Append(r.transmits, pdu), q.wrote = r.wrote,
         q.wire = r.wire, MaySend(r, pdu), QueryOK(q)
  PROVE  ConnOK(q)
  <1>1. /\ IsSeq(q.transmits) /\ Len(r.transmits) \in Nat
        /\ Len(q.transmits) = Len(r.transmits) + 1
        /\ \A k \in 1 .. Len(q.transmits) :
             q.transmits[k] = IF k <= Len(r.transmits) THEN r.transmits[k] ELSE pdu
    BY AppendToSeq DEF ConnOK
  <1>2. \A k \in 1 .. Len(q.transmits) : MaySend(r, q.transmits[k])
    BY <1>1 DEF ConnOK
  <1> QED
    BY <1>1, <1>2 DEF ConnOK, MaySend

-----------------------------------------------------------------------------
(* Routers and accepting. *)

\* Nothing is queued or handled before a router connects.
LEMMA AnswerInit == ConnsInit => AnswerInv
  <1> SUFFICES ASSUME ConnsInit, NEW c \in Conns PROVE DOMAIN conn = Conns /\ ConnOK(conn[c])
    BY Zenon DEF AnswerInv, ConnsInit
  <1>1. conn[c] = NewConn /\ DOMAIN conn = Conns
    BY DEF ConnsInit
  <1>2. IsSeq(NewConn.transmits) /\ Len(NewConn.transmits) = 0
    <2>1. NewConn.transmits = << >>
      BY DEF NewConn
    <2>2. << >> \in Seq({}) /\ Len(<< >>) = 0
      OBVIOUS
    <2> QED
      BY <2>1, <2>2 DEF IsSeq
  <1>3. MaySend(NewConn, NewConn.wrote)
    BY DEF MaySend, NewConn, NoPdu
  <1>4. QueryOK(NewConn)
    BY DEF QueryOK, NewConn
  <1>5. DOMAIN NewConn = Fields
    BY DEF NewConn, Fields
  <1> QED
    BY <1>1, <1>2, <1>3, <1>4, <1>5 DEF ConnOK

\* A step of connection c ...
Frame(c) ==
  /\ DOMAIN conn' = Conns
  /\ \A d \in Conns \ {c} : conn'[d] = conn[d]
  /\ DOMAIN conn'[c] = Fields

\* ... that touches neither channel nor sender and does not open the connection.
Idle(c) ==
  /\ conn'[c].transmits = conn[c].transmits /\ conn'[c].wrote = conn[c].wrote
  /\ conn'[c].wire \in {"none", "open"} => conn[c].wire \in {"none", "open"}

\* After such a step only QueryOK is left to show.
LEMMA IdleKeeps ==
  ASSUME AnswerInv, NEW c \in Conns, Frame(c), Idle(c), QueryOK(conn'[c])
  PROVE  AnswerInv'
  <1>1. ConnOK(conn'[c])
    <2>1. PICK r, q : r = conn[c] /\ q = conn'[c]
      OBVIOUS
    <2>2. ConnOK(r) /\ DOMAIN q = Fields /\ QueryOK(q)
          /\ q.transmits = r.transmits /\ q.wrote = r.wrote
          /\ (q.wire \in {"none", "open"} => r.wire \in {"none", "open"})
      BY <2>1 DEF AnswerInv, Frame, Idle
    <2> QED
      BY <2>1, <2>2, QueueKept
  <1> QED
    BY <1>1, OneConn DEF Frame

\* Routers connect, ask and leave.
LEMMA RouterKeeps ==
  ASSUME AnswerInv, NEW c \in Conns, RouterStep(c)
  PROVE  AnswerInv'
  <1>1. CASE Connect(c)
    <2>1. Frame(c) /\ Idle(c)
      BY <1>1 DEF AnswerInv, ConnOK, Frame, Idle, Connect, Fields
    <2>2. QueryOK(conn'[c])
      BY <1>1 DEF AnswerInv, ConnOK, QueryOK, Connect, Fields
    <2> QED
      BY <2>1, <2>2, IdleKeeps
  <1>2. CASE HangUp(c)
    <2>1. Frame(c) /\ Idle(c)
      BY <1>2 DEF AnswerInv, ConnOK, Frame, Idle, HangUp, Fields
    <2>2. QueryOK(conn'[c])
      BY <1>2 DEF AnswerInv, ConnOK, QueryOK, HangUp, Fields
    <2> QED
      BY <2>1, <2>2, IdleKeeps
  <1>3. ASSUME NEW q \in Queries, SendQuery(c, q)
        PROVE  AnswerInv'
    <2>1. Frame(c) /\ Idle(c)
      BY <1>3 DEF AnswerInv, ConnOK, Frame, Idle, SendQuery, Fields
    <2>2. QueryOK(conn'[c])
      BY <1>3 DEF AnswerInv, ConnOK, QueryOK, SendQuery, Fields
    <2> QED
      BY <2>1, <2>2, IdleKeeps
  <1> QED
    BY <1>1, <1>2, <1>3 DEF RouterStep

\* Accepting starts no query.
LEMMA AcceptKeeps ==
  ASSUME AnswerInv, NEW c \in Conns, AcceptStep(c)
  PROVE  AnswerInv'
  <1>1. CASE Refuse(c)
    <2>1. Frame(c) /\ Idle(c)
      BY <1>1 DEF AnswerInv, ConnOK, Frame, Idle, Refuse, Fields
    <2>2. QueryOK(conn'[c])
      BY <1>1 DEF AnswerInv, ConnOK, QueryOK, Refuse, Fields
    <2> QED
      BY <2>1, <2>2, IdleKeeps
  <1>2. CASE Accept(c)
    <2>1. Frame(c) /\ Idle(c)
      BY <1>2 DEF AnswerInv, ConnOK, Frame, Idle, Accept, Fields
    <2>2. QueryOK(conn'[c])
      BY <1>2 DEF AnswerInv, ConnOK, QueryOK, Accept, Fields
    <2> QED
      BY <2>1, <2>2, IdleKeeps
  <1>3. CASE SshRead(c)
    <2>1. Frame(c) /\ Idle(c)
      BY <1>3 DEF AnswerInv, ConnOK, Frame, Idle, SshRead, Fields
    <2>2. QueryOK(conn'[c])
      BY <1>3 DEF AnswerInv, ConnOK, QueryOK, SshRead, Fields
    <2> QED
      BY <2>1, <2>2, IdleKeeps
  <1>4. CASE SshWrite(c)
    <2>1. Frame(c) /\ Idle(c)
      BY <1>4 DEF AnswerInv, ConnOK, Frame, Idle, SshWrite, Fields
    <2>2. QueryOK(conn'[c])
      BY <1>4 DEF AnswerInv, ConnOK, QueryOK, SshWrite, Fields
    <2> QED
      BY <2>1, <2>2, IdleKeeps
  <1>5. CASE Start(c)
    <2>1. Frame(c) /\ Idle(c)
      BY <1>5 DEF AnswerInv, ConnOK, Frame, Idle, Start, Fields
    <2>2. QueryOK(conn'[c])
      BY <1>5 DEF AnswerInv, ConnOK, QueryOK, Start, Fields
    <2> QED
      BY <2>1, <2>2, IdleKeeps
  <1>6. CASE SshNoClient(c)
    <2>1. Frame(c) /\ Idle(c)
      BY <1>6 DEF AnswerInv, ConnOK, Frame, Idle, SshNoClient, Fields
    <2>2. QueryOK(conn'[c])
      BY <1>6 DEF AnswerInv, ConnOK, QueryOK, SshNoClient, Fields
    <2> QED
      BY <2>1, <2>2, IdleKeeps
  <1> QED
    BY <1>1, <1>2, <1>3, <1>4, <1>5, <1>6 DEF AcceptStep

-----------------------------------------------------------------------------
(* Client.Start. *)

\* A step of connection c that queues one PDU.
Queues(c, pdu) ==
  /\ conn'[c].transmits = Append(conn[c].transmits, pdu)
  /\ conn'[c].wrote = conn[c].wrote /\ conn'[c].wire = conn[c].wire

\* After such a step only QueryOK is left to show, if the PDU may be sent.
LEMMA QueuesKeeps ==
  ASSUME AnswerInv, NEW c \in Conns, NEW pdu, Frame(c), Queues(c, pdu),
         MaySend(conn[c], pdu), QueryOK(conn'[c])
  PROVE  AnswerInv'
  <1>1. ConnOK(conn'[c])
    <2>1. PICK r, q : r = conn[c] /\ q = conn'[c]
      OBVIOUS
    <2>2. /\ ConnOK(r) /\ DOMAIN q = Fields /\ QueryOK(q) /\ MaySend(r, pdu)
          /\ q.transmits = Append(r.transmits, pdu) /\ q.wrote = r.wrote
          /\ q.wire = r.wire
      BY <2>1 DEF AnswerInv, Frame, Queues
    <2> QED
      BY <2>1, <2>2, Queued
  <1> QED
    BY <1>1, OneConn DEF Frame

\* Reading decides whether a query is accepted, and a client that is
\* disconnected over one has its connection closed before it is handled.
LEMMA ReadingKeeps ==
  ASSUME AnswerInv, NEW c \in Conns,
         \/ ReadQuery(c) \/ ReadRejected(c) \/ ReadFails(c)
         \/ Disconnect(c) \/ ClientDisconnected(c) \/ Close(c)
  PROVE  AnswerInv'
  <1>1. CASE ReadQuery(c)
    <2>1. Frame(c) /\ Idle(c)
      BY <1>1 DEF AnswerInv, ConnOK, Frame, Idle, ReadQuery, Fields
    <2>2. QueryOK(conn'[c])
      <3>1. /\ conn[c].wire # "none" /\ conn'[c].wire = conn[c].wire
            /\ conn'[c].reader = "handle"
            /\ conn'[c].query = [version |-> conn[c].inbox, accepted |-> TRUE]
            /\ conn'[c].version = conn[c].inbox /\ conn[c].inbox \in {0, 1}
        BY <1>1 DEF AnswerInv, ConnOK, ReadQuery, Fields, VersionOK
      <3>2. conn'[c].query.accepted = TRUE /\ conn'[c].query.version = conn[c].inbox
        BY <3>1
      <3> QED
        BY <3>1, <3>2 DEF QueryOK
    <2> QED
      BY <2>1, <2>2, IdleKeeps
  <1>2. CASE ReadRejected(c)
    <2>1. Frame(c) /\ Idle(c)
      BY <1>2 DEF AnswerInv, ConnOK, Frame, Idle, ReadRejected, Fields
    <2>2. QueryOK(conn'[c])
      BY <1>2 DEF AnswerInv, ConnOK, QueryOK, ReadRejected, Fields
    <2> QED
      BY <2>1, <2>2, IdleKeeps
  <1>3. CASE ReadFails(c)
    <2>1. Frame(c) /\ Idle(c)
      BY <1>3 DEF AnswerInv, ConnOK, Frame, Idle, ReadFails, Fields
    <2>2. QueryOK(conn'[c])
      BY <1>3 DEF AnswerInv, ConnOK, QueryOK, ReadFails, Fields
    <2> QED
      BY <2>1, <2>2, IdleKeeps
  <1>4. CASE ClientDisconnected(c)
    <2>1. Frame(c) /\ Idle(c)
      BY <1>4 DEF AnswerInv, ConnOK, Frame, Idle, ClientDisconnected, Fields
    <2>2. QueryOK(conn'[c])
      BY <1>4 DEF AnswerInv, ConnOK, QueryOK, ClientDisconnected, Fields
    <2> QED
      BY <2>1, <2>2, IdleKeeps
  <1>5. CASE Close(c)
    <2>1. Frame(c) /\ Idle(c)
      BY <1>5 DEF AnswerInv, ConnOK, Frame, Idle, Close, Fields
    <2>2. QueryOK(conn'[c])
      <3>1. /\ conn'[c].wire = "closed" /\ conn'[c].query = conn[c].query
            /\ conn'[c].reader = IF conn[c].query = NoQuery THEN AfterLoop(c) ELSE "handle"
        BY <1>5 DEF AnswerInv, ConnOK, Close, Fields
      <3>2. conn[c].query = NoQuery \/ ~conn[c].query.accepted
        BY <1>5 DEF AnswerInv, ConnOK, QueryOK, Close
      <3> QED
        BY <3>1, <3>2 DEF QueryOK, AfterLoop
    <2> QED
      BY <2>1, <2>2, IdleKeeps
  <1>6. CASE Disconnect(c)
    <2>1. Frame(c) /\ Idle(c)
      BY <1>6 DEF AnswerInv, ConnOK, Frame, Idle, Disconnect, Fields
    <2>2. QueryOK(conn'[c])
      BY <1>6 DEF AnswerInv, ConnOK, QueryOK, Disconnect, Fields
    <2> QED
      BY <2>1, <2>2, IdleKeeps
  <1> QED
    BY <1>1, <1>2, <1>3, <1>4, <1>5, <1>6

\* Before it is answered, an accepted query brings the client to the version
\* that is negotiated.
LEMMA HandleKeeps ==
  ASSUME AnswerInv, NEW c \in Conns, HandlePDU(c)
  PROVE  AnswerInv'
  <1>1. Frame(c) /\ Idle(c)
    BY DEF AnswerInv, ConnOK, Frame, Idle, HandlePDU, Fields
  <1>2. conn[c].query.accepted => Downgraded(c) = Negotiated(conn[c].query.version)
    <2>1. conn[c].query.accepted =>
            conn[c].version = conn[c].query.version /\ conn[c].query.version \in {0, 1}
      BY DEF AnswerInv, ConnOK, QueryOK, HandlePDU
    <2> QED
      BY <2>1 DEF Downgraded, GetVersion, Unset, Negotiated
  <1>3. QueryOK(conn'[c])
    <2>1. /\ conn[c].reader = "handle" /\ conn'[c].reader = "answer"
          /\ conn'[c].wire = conn[c].wire /\ conn'[c].query = conn[c].query
          /\ conn'[c].version = Downgraded(c)
      BY DEF AnswerInv, ConnOK, HandlePDU, Fields
    <2>2. QueryOK(conn[c])
      BY DEF AnswerInv, ConnOK
    <2> QED
      BY <1>2, <2>1, <2>2 DEF QueryOK
  <1> QED
    BY <1>1, <1>3, IdleKeeps

\* A PDU that is no query leaves nothing to be answered.
LEMMA IgnoreKeeps ==
  ASSUME AnswerInv, NEW c \in Conns, IgnorePDU(c)
  PROVE  AnswerInv'
  <1>1. Frame(c) /\ Idle(c)
    BY DEF AnswerInv, ConnOK, Frame, Idle, IgnorePDU, Fields
  <1>2. /\ conn[c].reader = "handle" /\ conn'[c].reader \in {"read", "dec", "done"}
        /\ conn'[c].wire = conn[c].wire /\ conn'[c].query = NoQuery
    BY DEF AnswerInv, ConnOK, IgnorePDU, AfterPDU, AfterLoop, Fields
  <1>3. QueryOK(conn[c])
    BY DEF AnswerInv, ConnOK
  <1>4. QueryOK(conn'[c])
    BY <1>2, <1>3 DEF QueryOK
  <1> QED
    BY <1>1, <1>4, IdleKeeps

\* What the reader queues may be sent.
LEMMA QueueingKeeps ==
  ASSUME AnswerInv, NEW c \in Conns, SendWrongVersionError(c) \/ Answer(c)
  PROVE  AnswerInv'
  <1>1. CASE SendWrongVersionError(c)
    <2>1. PICK pdu : pdu = Pdu("error", GetVersion(c), NoQuery)
      OBVIOUS
    <2>2. Frame(c) /\ Queues(c, pdu)
      BY <1>1, <2>1 DEF AnswerInv, ConnOK, Frame, Queues, SendWrongVersionError, Fields
    <2>3. MaySend(conn[c], pdu)
      BY <2>1 DEF MaySend, Pdu
    <2>4. QueryOK(conn'[c])
      BY <1>1 DEF AnswerInv, ConnOK, QueryOK, SendWrongVersionError, AfterReject, Fields
    <2> QED
      BY <2>2, <2>3, <2>4, QueuesKeeps
  <1>2. CASE Answer(c)
    <2>1. PICK pdu : pdu = Pdu("answer", GetVersion(c), conn[c].query)
      BY SMTT(30)
    <2>2. Frame(c) /\ Queues(c, pdu)
      BY <1>2, <2>1 DEF AnswerInv, ConnOK, Frame, Queues, Answer, Fields
    <2>3. MaySend(conn[c], pdu)
      <3>1. /\ conn[c].wire \in {"none", "open"} => conn[c].query.accepted
            /\ conn[c].query.accepted => /\ conn[c].query.version \in {0, 1}
                                         /\ conn[c].version = Negotiated(conn[c].query.version)
        BY <1>2 DEF AnswerInv, ConnOK, QueryOK, Answer
      <3>2. conn[c].query.version \in {0, 1} => Negotiated(conn[c].query.version) \in {0, 1}
        BY ConnsAssumption DEF Negotiated
      <3>3. pdu.version = GetVersion(c) /\ pdu.query = conn[c].query
        BY <2>1 DEF Pdu
      <3> QED
        BY <3>1, <3>2, <3>3 DEF MaySend, GetVersion, Unset
    <2>4. QueryOK(conn'[c])
      <3>1. /\ conn'[c].wire = conn[c].wire /\ conn'[c].version = conn[c].version
            /\ \/ conn'[c].query = conn[c].query /\ conn'[c].reader = conn[c].reader
               \/ conn'[c].query = NoQuery /\ conn'[c].reader \in {"read", "dec", "done"}
        BY <1>2 DEF AnswerInv, ConnOK, Answer, AfterPDU, AfterLoop, Fields
      <3>2. QueryOK(conn[c]) /\ conn[c].reader = "answer"
        BY <1>2 DEF AnswerInv, ConnOK, Answer
      <3> QED
        BY <3>1, <3>2 DEF QueryOK
    <2> QED
      BY <2>2, <2>3, <2>4, QueuesKeeps
  <1> QED
    BY <1>1, <1>2

-----------------------------------------------------------------------------
(* sendLoop and the updater. *)

\* What is left of the reader's state by a step of sendLoop or the updater.
LEMMA QuerySame ==
  ASSUME NEW r, NEW q, QueryOK(r), q.wire = r.wire, q.reader = r.reader,
         q.query = r.query, q.version = r.version
  PROVE  QueryOK(q)
  BY DEF QueryOK

\* sendLoop writes what was queued.
LEMMA SendingKeeps ==
  ASSUME AnswerInv, NEW c \in Conns, SenderStep(c) \/ WriteOpen(c)
  PROVE  AnswerInv'
  <1>1. CASE SendCheck(c)
    <2>1. Frame(c) /\ Idle(c)
      BY <1>1 DEF AnswerInv, ConnOK, Frame, Idle, SendCheck, Fields
    <2>2. QueryOK(conn'[c])
      BY <1>1 DEF AnswerInv, ConnOK, QueryOK, SendCheck, Fields
    <2> QED
      BY <2>1, <2>2, IdleKeeps
  <1>2. CASE SendWait(c)
    <2>1. Frame(c) /\ Idle(c)
      BY <1>2 DEF AnswerInv, ConnOK, Frame, Idle, SendWait, Fields
    <2>2. QueryOK(conn'[c])
      BY <1>2 DEF AnswerInv, ConnOK, QueryOK, SendWait, Fields
    <2> QED
      BY <2>1, <2>2, IdleKeeps
  <1>3. CASE SendTake(c)
    <2>1. PICK r, q : r = conn[c] /\ q = conn'[c]
      OBVIOUS
    <2>2. ConnOK(r) /\ r.transmits # << >>
      BY <1>3, <2>1 DEF AnswerInv, SendTake
    <2>3. /\ Frame(c)
          /\ q.wire = r.wire /\ q.reader = r.reader /\ q.query = r.query
          /\ q.version = r.version
          /\ q.transmits = Tail(r.transmits) /\ q.wrote = Head(r.transmits)
      BY <1>3, <2>1 DEF AnswerInv, ConnOK, Frame, SendTake, Fields
    <2>4. QueryOK(q)
      BY <2>2, <2>3, QuerySame DEF ConnOK
    <2>5. /\ IsSeq(q.transmits) /\ Len(r.transmits) \in Nat \ {0}
          /\ q.wrote = r.transmits[1] /\ Len(q.transmits) = Len(r.transmits) - 1
          /\ \A k \in 1 .. Len(r.transmits) - 1 : q.transmits[k] = r.transmits[k + 1]
      BY <2>2, <2>3, TailOfSeq DEF ConnOK
    <2>6. /\ \A k \in 1 .. Len(q.transmits) : MaySend(r, q.transmits[k])
          /\ MaySend(r, q.wrote)
      BY <2>2, <2>5 DEF ConnOK
    <2>7. ConnOK(q)
      BY <2>1, <2>3, <2>4, <2>5, <2>6, Zenon DEF ConnOK, MaySend, Frame
    <2> QED
      BY <2>1, <2>3, <2>7, OneConn DEF Frame
  <1>4. CASE Write(c)
    <2>1. PICK r, q : r = conn[c] /\ q = conn'[c]
      OBVIOUS
    <2>2. ConnOK(r)
      BY <2>1 DEF AnswerInv
    <2>3. /\ Frame(c)
          /\ q.wire = r.wire /\ q.reader = r.reader /\ q.query = r.query
          /\ q.version = r.version
          /\ q.transmits = r.transmits /\ q.wrote = NoPdu
      BY <1>4, <2>1 DEF AnswerInv, ConnOK, Frame, Write, Fields
    <2>4. QueryOK(q)
      BY <2>2, <2>3, QuerySame DEF ConnOK
    <2>5. MaySend(q, NoPdu)
      BY DEF MaySend, NoPdu
    <2>6. ConnOK(q)
      BY <2>1, <2>2, <2>3, <2>4, <2>5, SMTT(30) DEF ConnOK, MaySend, Frame
    <2> QED
      BY <2>1, <2>3, <2>6, OneConn DEF Frame
  <1> QED
    BY <1>1, <1>2, <1>3, <1>4 DEF SenderStep, WriteOpen, WriteFails

\* A notification is no answer, whoever it is queued for.
LEMMA NotifyKeeps ==
  ASSUME AnswerInv, NotifyQueue
  PROVE  AnswerInv'
  <1>1. PICK c, pdu : c = Head(toNotify) /\ pdu = Pdu("notify", stamp, NoQuery)
    OBVIOUS
  <1>2. conn' = [conn EXCEPT ![c].transmits = Append(@, pdu)]
    BY <1>1 DEF NotifyQueue
  <1>3. CASE c \in Conns
    <2>1. Frame(c) /\ Queues(c, pdu)
      BY <1>2, <1>3 DEF AnswerInv, ConnOK, Frame, Queues, Fields
    <2>2. QueryOK(conn'[c])
      BY <1>2, <1>3 DEF AnswerInv, ConnOK, QueryOK, Fields
    <2>3. MaySend(conn[c], pdu)
      BY <1>1 DEF MaySend, Pdu
    <2> QED
      BY <1>3, <2>1, <2>2, <2>3, QueuesKeeps
  <1>4. CASE c \notin Conns
    BY <1>2, <1>4 DEF AnswerInv
  <1> QED
    BY <1>3, <1>4

-----------------------------------------------------------------------------
\* Every step of the server and its routers keeps the invariant.
LEMMA AnswerNext ==
  ASSUME AnswerInv, [ConnsNext]_connsVars
  PROVE  AnswerInv'
  <1>1. ASSUME NEW c \in Conns,
               RouterStep(c) \/ AcceptStep(c) \/ ReaderStep(c) \/ SenderStep(c) \/ WriteOpen(c)
        PROVE  AnswerInv'
    BY <1>1, RouterKeeps, AcceptKeeps, ReadingKeeps, HandleKeeps, IgnoreKeeps,
       QueueingKeeps, SendingKeeps DEF ReaderStep
  <1>2. CASE NotifyClients \/ NotifyStamp \/ UNCHANGED connsVars
    BY <1>2 DEF AnswerInv, NotifyClients, NotifyStamp, connsVars
  <1>3. CASE NotifyQueue
    BY <1>3, NotifyKeeps
  <1> QED
    BY <1>1, <1>2, <1>3 DEF ConnsNext, UpdaterStep

\* A router is only ever sent answers to queries whose version was accepted, in
\* the negotiated version, whatever Disconnect leaves in the channel.
THEOREM AnswersKeepVersion == ConnsSpec => []AnswersNegotiated
  <1>1. AnswerInv => AnswersNegotiated
    BY DEF AnswerInv, ConnOK, MaySend, Negotiated, AnswersNegotiated
  <1> QED
    BY <1>1, AnswerInit, AnswerNext, PTL DEF ConnsSpec

-----------------------------------------------------------------------------
(* The counter. *)

\* What the counter needs of client c with the connection r, where the clients in
\* list are registered: the goroutine that unregisters a client is past Start and
\* has not unregistered it before.
Local(c, r, list) ==
  /\ r.left \in 0 .. AnswerMax
  /\ r.reader = "answer" => r.left # 0
  /\ r.version \in {Unset, 0, 1}
  /\ Len(r.transmits) <= ChanSize
  /\ r.tmp \in Int
  /\ r.reader \in {"inc", "inc_write", "dec", "dec_write"} => c \in SshConns
  /\ c \in list =>
       /\ r.reader \in {"read", "reject", "disconnect", "unregister", "handle", "answer"}
       /\ r.reader # "unregister" => r.up = TRUE
       /\ r.reader = "unregister" => r.up = FALSE
  /\ c \notin list =>
       /\ r.reader \notin {"read", "reject", "disconnect", "unregister"}
       /\ r.up = FALSE

\* What the updater holds.
Updater ==
  /\ toNotify \in Seq(Conns)
  /\ stamp \in {Unset, 0, 1}
  /\ stamp # Unset => toNotify # << >>

\* CounterExact with what it takes to keep it: no client is registered twice,
\* and Local says when ClientDisconnected finds its client in the list.
CountInv ==
  /\ AnswerInv
  /\ clients \in Seq(Conns) /\ Distinct(clients)
  /\ connected \in Int /\ raced \in BOOLEAN
  /\ \A c \in Conns : Local(c, conn[c], Registered)
  /\ Updater
  /\ IsFiniteSet(SshCounted)
  /\ CounterExact

Uncounted == {"none", "accept", "inc", "inc_write", "done"}

\* Nothing is registered or counted at first.
LEMMA CountInit == ConnsInit => CountInv
  <1> SUFFICES ASSUME ConnsInit PROVE CountInv
    OBVIOUS
  <1>1. AnswerInv
    BY AnswerInit
  <1>2. /\ clients \in Seq(Conns) /\ Len(clients) = 0 /\ DOMAIN clients = {}
        /\ toNotify \in Seq(Conns)
    BY DEF ConnsInit
  <1>3. Registered = {} /\ Distinct(clients)
    BY <1>2 DEF Registered, Distinct
  <1>4. SshCounted = {}
    BY ConnsAssumption DEF SshCounted, ConnsInit, NewConn
  <1>5. ASSUME NEW c \in Conns PROVE Local(c, conn[c], Registered)
    <2>1. conn[c] = NewConn
      BY DEF ConnsInit
    <2>2. Len(NewConn.transmits) = 0
      BY DEF NewConn
    <2> QED
      BY <1>3, <2>1, <2>2, ConnsAssumption DEF Local, NewConn, Unset
  <1>6. IsFiniteSet(SshCounted) /\ Cardinality(SshCounted) = 0
    BY <1>4, FS_EmptySet
  <1>7. connected = 0 /\ raced = FALSE /\ stamp = Unset
    BY DEF ConnsInit
  <1>8. CounterExact
    BY <1>2, <1>6, <1>7 DEF CounterExact
  <1>9. Updater
    BY <1>2, <1>7 DEF Updater
  <1>10. clients \in Seq(Conns) /\ Distinct(clients)
    BY <1>2, <1>3
  <1>11. connected \in Int
    BY <1>7
  <1>14. raced \in BOOLEAN
    BY <1>7, Zenon
  <1>12. \A c \in Conns : Local(c, conn[c], Registered)
    BY <1>5
  <1>13. IsFiniteSet(SshCounted)
    BY <1>6
  <1> QED
    BY <1>1, <1>8, <1>9, <1>10, <1>11, <1>12, <1>13, <1>14 DEF CountInv

\* A step of connection c that neither registers nor counts needs Local only.
LEMMA PlainKeeps ==
  ASSUME CountInv, NEW c \in Conns, Frame(c), AnswerInv',
         UNCHANGED <<clients, connected, raced>>, Updater',
         Local(c, conn'[c], Registered),
         c \in SshConns => (conn'[c].reader \in Uncounted <=> conn[c].reader \in Uncounted)
  PROVE  CountInv'
  <1>1. Registered' = Registered
    BY DEF Registered
  <1>2. SshCounted' = SshCounted
    BY ConnsAssumption DEF SshCounted, Frame, Uncounted
  <1>3. \A d \in Conns : Local(d, conn'[d], Registered')
    <2>1. \A d \in Conns : d # c => conn'[d] = conn[d]
      BY DEF Frame
    <2> QED
      BY <1>1, <2>1 DEF CountInv
  <1> QED
    BY <1>2, <1>3 DEF CountInv, CounterExact

\* Such a step leaves the updater alone.
LEMMA UpdaterSame ==
  ASSUME Updater, UNCHANGED updaterVars
  PROVE  Updater'
  BY DEF Updater, updaterVars

\* What the invariant says of one connection.
LEMMA ConnFacts ==
  ASSUME CountInv, NEW c \in Conns
  PROVE  /\ DOMAIN conn = Conns /\ DOMAIN conn[c] = Fields
         /\ Local(c, conn[c], Registered) /\ QueryOK(conn[c]) /\ IsSeq(conn[c].transmits)
         /\ Updater
  BY DEF CountInv, AnswerInv, ConnOK

\* Routers connect and leave without being counted.
LEMMA CountRouter ==
  ASSUME CountInv, NEW c \in Conns, AnswerInv',
         Connect(c) \/ HangUp(c)
  PROVE  CountInv'
  <1>1. CASE Connect(c)
    <2>1. PICK r, q, list : r = conn[c] /\ q = conn'[c] /\ list = Registered
      OBVIOUS
    <2>2. DOMAIN conn = Conns /\ DOMAIN r = Fields /\ Local(c, r, list) /\ QueryOK(r)
      BY <2>1, ConnFacts
    <2>3. Frame(c) /\ UNCHANGED <<clients, connected, raced, updaterVars>>
      BY <1>1, <2>1, <2>2 DEF Frame, Connect, Fields
    <2>4. /\ q.left = r.left /\ q.version = r.version /\ q.transmits = r.transmits
          /\ q.tmp = r.tmp /\ q.up = r.up
          /\ r.reader = "none" /\ q.reader = "accept"
      BY <1>1, <2>1, <2>2 DEF Connect, Fields, QueryOK
    <2>5. Local(c, q, list) /\ (c \in SshConns => (q.reader \in Uncounted <=> r.reader \in Uncounted))
      BY <2>2, <2>4, ConnsAssumption DEF Local, Uncounted
    <2> QED
      BY <2>1, <2>3, <2>5, PlainKeeps, UpdaterSame, ConnFacts
  <1>2. CASE HangUp(c)
    <2>1. PICK r, q, list : r = conn[c] /\ q = conn'[c] /\ list = Registered
      OBVIOUS
    <2>2. DOMAIN conn = Conns /\ DOMAIN r = Fields /\ Local(c, r, list) /\ QueryOK(r)
      BY <2>1, ConnFacts
    <2>3. Frame(c) /\ UNCHANGED <<clients, connected, raced, updaterVars>>
      BY <1>2, <2>1, <2>2 DEF Frame, HangUp, Fields
    <2>4. /\ q.left = r.left /\ q.version = r.version /\ q.transmits = r.transmits
          /\ q.tmp = r.tmp /\ q.up = r.up /\ q.reader = r.reader
      BY <1>2, <2>1, <2>2 DEF HangUp, Fields
    <2>5. Local(c, q, list) /\ (c \in SshConns => (q.reader \in Uncounted <=> r.reader \in Uncounted))
      BY <2>2, <2>4, ConnsAssumption DEF Local, Uncounted
    <2> QED
      BY <2>1, <2>3, <2>5, PlainKeeps, UpdaterSame, ConnFacts
  <1> QED
    BY <1>1, <1>2, SMTT(30)

\* What a router sends waits to be read.
LEMMA CountQuery ==
  ASSUME CountInv, NEW c \in Conns, AnswerInv', NEW k \in Queries, SendQuery(c, k)
  PROVE  CountInv'
  <1>1. PICK r, q, list : r = conn[c] /\ q = conn'[c] /\ list = Registered
    OBVIOUS
  <1>2. DOMAIN conn = Conns /\ DOMAIN r = Fields /\ Local(c, r, list)
    BY <1>1, ConnFacts
  <1>3. Frame(c) /\ UNCHANGED <<clients, connected, raced, updaterVars>>
    BY <1>1, <1>2 DEF Frame, SendQuery, Fields
  <1>4. /\ q.left = r.left /\ q.version = r.version /\ q.transmits = r.transmits
        /\ q.tmp = r.tmp /\ q.up = r.up /\ q.reader = r.reader
    BY <1>1, <1>2 DEF SendQuery, Fields
  <1>5. Local(c, q, list)
    BY <1>2, <1>4 DEF Local
  <1> QED
    BY <1>1, <1>3, <1>4, <1>5, PlainKeeps, UpdaterSame, ConnFacts

\* Accepting, up to the unlocked update of the counter.
LEMMA CountAccept ==
  ASSUME CountInv, NEW c \in Conns, AnswerInv',
         Refuse(c) \/ Accept(c) \/ SshRead(c) \/ SshNoClient(c)
  PROVE  CountInv'
  <1>1. CASE Refuse(c)
    <2>1. PICK r, q, list : r = conn[c] /\ q = conn'[c] /\ list = Registered
      OBVIOUS
    <2>2. DOMAIN conn = Conns /\ DOMAIN r = Fields /\ Local(c, r, list) /\ QueryOK(r)
      BY <2>1, ConnFacts
    <2>3. Frame(c) /\ UNCHANGED <<clients, connected, raced, updaterVars>>
      BY <1>1, <2>1, <2>2 DEF Frame, Refuse, Fields
    <2>4. /\ q.left = r.left /\ q.version = r.version /\ q.transmits = r.transmits
          /\ q.tmp = r.tmp /\ q.up = r.up
          /\ r.reader = "accept" /\ q.reader = "done"
      BY <1>1, <2>1, <2>2 DEF Refuse, Fields
    <2>5. Local(c, q, list) /\ (c \in SshConns => (q.reader \in Uncounted <=> r.reader \in Uncounted))
      BY <2>2, <2>4, ConnsAssumption DEF Local, Uncounted
    <2> QED
      BY <2>1, <2>3, <2>5, PlainKeeps, UpdaterSame, ConnFacts
  <1>2. CASE Accept(c)
    <2>1. PICK r, q, list : r = conn[c] /\ q = conn'[c] /\ list = Registered
      OBVIOUS
    <2>2. DOMAIN conn = Conns /\ DOMAIN r = Fields /\ Local(c, r, list) /\ QueryOK(r)
      BY <2>1, ConnFacts
    <2>3. Frame(c) /\ UNCHANGED <<clients, connected, raced, updaterVars>>
      BY <1>2, <2>1, <2>2 DEF Frame, Accept, Fields
    <2>4. /\ q.left = r.left /\ q.transmits = r.transmits /\ q.tmp = r.tmp /\ q.up = r.up
          /\ q.version \in {Unset, BaseVersion} /\ r.reader = "accept"
          /\ q.reader = IF c \in SshConns THEN "inc" ELSE "start"
      BY <1>2, <2>1, <2>2 DEF Accept, Fields
    <2>5. Local(c, q, list) /\ (c \in SshConns => (q.reader \in Uncounted <=> r.reader \in Uncounted))
      BY <2>2, <2>4, ConnsAssumption DEF Local, Uncounted
    <2> QED
      BY <2>1, <2>3, <2>5, PlainKeeps, UpdaterSame, ConnFacts
  <1>3. CASE SshRead(c)
    <2>1. PICK r, q, list : r = conn[c] /\ q = conn'[c] /\ list = Registered
      OBVIOUS
    <2>2. DOMAIN conn = Conns /\ DOMAIN r = Fields /\ Local(c, r, list) /\ QueryOK(r)
      BY <2>1, ConnFacts
    <2>3. Frame(c) /\ UNCHANGED <<clients, connected, raced, updaterVars>>
      BY <1>3, <2>1, <2>2 DEF Frame, SshRead, Fields
    <2>4. /\ q.left = r.left /\ q.version = r.version /\ q.transmits = r.transmits /\ q.up = r.up
          /\ q.tmp = connected /\ connected \in Int
          /\ \/ r.reader = "inc" /\ q.reader = "inc_write"
             \/ r.reader = "dec" /\ q.reader = "dec_write"
      BY <1>3, <2>1, <2>2 DEF SshRead, Fields, CountInv
    <2>5. Local(c, q, list) /\ (c \in SshConns => (q.reader \in Uncounted <=> r.reader \in Uncounted))
      BY <2>2, <2>4, ConnsAssumption DEF Local, Uncounted
    <2> QED
      BY <2>1, <2>3, <2>5, PlainKeeps, UpdaterSame, ConnFacts
  <1>4. CASE SshNoClient(c)
    <2>1. PICK r, q, list : r = conn[c] /\ q = conn'[c] /\ list = Registered
      OBVIOUS
    <2>2. DOMAIN conn = Conns /\ DOMAIN r = Fields /\ Local(c, r, list) /\ QueryOK(r)
      BY <2>1, ConnFacts
    <2>3. Frame(c) /\ UNCHANGED <<clients, connected, raced, updaterVars>>
      BY <1>4, <2>1, <2>2 DEF Frame, SshNoClient, Fields
    <2>4. /\ q.left = r.left /\ q.transmits = r.transmits /\ q.tmp = r.tmp
          /\ q.version = r.version /\ q.up = r.up /\ r.reader = "start" /\ q.reader = "dec"
          /\ c \in SshConns
      BY <1>4, <2>1, <2>2 DEF SshNoClient, Fields
    <2>5. Local(c, q, list) /\ (c \in SshConns => (q.reader \in Uncounted <=> r.reader \in Uncounted))
      BY <2>2, <2>4, ConnsAssumption DEF Local, Uncounted
    <2> QED
      BY <2>1, <2>3, <2>5, PlainKeeps, UpdaterSame, ConnFacts
  <1> QED
    BY <1>1, <1>2, <1>3, <1>4, SMTT(30)

\* The reader between registering and unregistering its client.
LEMMA CountReading ==
  ASSUME CountInv, NEW c \in Conns, AnswerInv',
         \/ ReadQuery(c) \/ ReadRejected(c) \/ ReadFails(c)
         \/ Disconnect(c) \/ Close(c) \/ HandlePDU(c) \/ IgnorePDU(c)
  PROVE  CountInv'
  <1>1. CASE ReadQuery(c)
    <2>1. PICK r, q, list : r = conn[c] /\ q = conn'[c] /\ list = Registered
      OBVIOUS
    <2>2. DOMAIN conn = Conns /\ DOMAIN r = Fields /\ Local(c, r, list) /\ QueryOK(r)
      BY <2>1, ConnFacts
    <2>3. Frame(c) /\ UNCHANGED <<clients, connected, raced, updaterVars>>
      BY <1>1, <2>1, <2>2 DEF Frame, ReadQuery, Fields
    <2>4. /\ q.left = r.left /\ q.transmits = r.transmits /\ q.tmp = r.tmp /\ q.up = r.up
          /\ r.reader = "read" /\ q.reader = "handle" /\ q.version \in {0, 1}
      BY <1>1, <2>1, <2>2 DEF ReadQuery, Fields, VersionOK
    <2>5. Local(c, q, list) /\ (c \in SshConns => (q.reader \in Uncounted <=> r.reader \in Uncounted))
      BY <2>2, <2>4, ConnsAssumption DEF Local, Uncounted
    <2> QED
      BY <2>1, <2>3, <2>5, PlainKeeps, UpdaterSame, ConnFacts
  <1>2. CASE ReadRejected(c)
    <2>1. PICK r, q, list : r = conn[c] /\ q = conn'[c] /\ list = Registered
      OBVIOUS
    <2>2. DOMAIN conn = Conns /\ DOMAIN r = Fields /\ Local(c, r, list) /\ QueryOK(r)
      BY <2>1, ConnFacts
    <2>3. Frame(c) /\ UNCHANGED <<clients, connected, raced, updaterVars>>
      BY <1>2, <2>1, <2>2 DEF Frame, ReadRejected, Fields
    <2>4. /\ q.left = r.left /\ q.version = r.version /\ q.transmits = r.transmits
          /\ q.tmp = r.tmp /\ q.up = r.up
          /\ r.reader = "read" /\ q.reader = "reject"
      BY <1>2, <2>1, <2>2 DEF ReadRejected, Fields
    <2>5. Local(c, q, list) /\ (c \in SshConns => (q.reader \in Uncounted <=> r.reader \in Uncounted))
      BY <2>2, <2>4, ConnsAssumption DEF Local, Uncounted
    <2> QED
      BY <2>1, <2>3, <2>5, PlainKeeps, UpdaterSame, ConnFacts
  <1>3. CASE ReadFails(c)
    <2>1. PICK r, q, list : r = conn[c] /\ q = conn'[c] /\ list = Registered
      OBVIOUS
    <2>2. DOMAIN conn = Conns /\ DOMAIN r = Fields /\ Local(c, r, list) /\ QueryOK(r)
      BY <2>1, ConnFacts
    <2>3. Frame(c) /\ UNCHANGED <<clients, connected, raced, updaterVars>>
      BY <1>3, <2>1, <2>2 DEF Frame, ReadFails, Fields
    <2>4. /\ q.left = r.left /\ q.version = r.version /\ q.transmits = r.transmits
          /\ q.tmp = r.tmp /\ q.up = r.up
          /\ r.reader = "read" /\ q.reader = "disconnect"
      BY <1>3, <2>1, <2>2 DEF ReadFails, Fields
    <2>5. Local(c, q, list) /\ (c \in SshConns => (q.reader \in Uncounted <=> r.reader \in Uncounted))
      BY <2>2, <2>4, ConnsAssumption DEF Local, Uncounted
    <2> QED
      BY <2>1, <2>3, <2>5, PlainKeeps, UpdaterSame, ConnFacts
  <1>4. CASE Close(c)
    <2>1. PICK r, q, list : r = conn[c] /\ q = conn'[c] /\ list = Registered
      OBVIOUS
    <2>2. DOMAIN conn = Conns /\ DOMAIN r = Fields /\ Local(c, r, list) /\ QueryOK(r)
      BY <2>1, ConnFacts
    <2>3. Frame(c) /\ UNCHANGED <<clients, connected, raced, updaterVars>>
      BY <1>4, <2>1, <2>2 DEF Frame, Close, Fields
    <2>4. /\ q.left = r.left /\ q.version = r.version /\ q.transmits = r.transmits
          /\ q.tmp = r.tmp /\ q.up = r.up
          /\ r.reader = "close" /\ q.reader \in {AfterLoop(c), "handle"}
      BY <1>4, <2>1, <2>2 DEF Close, Fields
    <2>5. Local(c, q, list) /\ (c \in SshConns => (q.reader \in Uncounted <=> r.reader \in Uncounted))
      BY <2>2, <2>4, ConnsAssumption DEF Local, Uncounted, AfterLoop
    <2> QED
      BY <2>1, <2>3, <2>5, PlainKeeps, UpdaterSame, ConnFacts
  <1>5. CASE HandlePDU(c)
    <2>1. PICK r, q, list : r = conn[c] /\ q = conn'[c] /\ list = Registered
      OBVIOUS
    <2>2. DOMAIN conn = Conns /\ DOMAIN r = Fields /\ Local(c, r, list) /\ QueryOK(r)
      BY <2>1, ConnFacts
    <2>3. Frame(c) /\ UNCHANGED <<clients, connected, raced, updaterVars>>
      BY <1>5, <2>1, <2>2, Zenon DEF Frame, HandlePDU, Fields
    <2>7. PICK v : v = Downgraded(c)
      OBVIOUS
    <2>6. PICK n \in 1 .. AnswerMax :
            conn' = [conn EXCEPT ![c].version = v, ![c].left = n, ![c].reader = "answer"]
      BY <1>5, <2>7, Zenon DEF HandlePDU
    <2>4. /\ q.transmits = r.transmits /\ q.tmp = r.tmp /\ q.up = r.up
          /\ q.version = v /\ v \in {r.version, BaseVersion} /\ q.left \in 1 .. AnswerMax
          /\ r.reader = "handle" /\ q.reader = "answer"
      <3>1. v \in {r.version, BaseVersion}
        BY <2>1, <2>7 DEF Downgraded
      <3>2. r.reader = "handle"
        BY <1>5, <2>1, Zenon DEF HandlePDU
      <3> QED
        BY <2>1, <2>2, <2>6, <3>1, <3>2 DEF Fields
    <2>5. Local(c, q, list) /\ (c \in SshConns => (q.reader \in Uncounted <=> r.reader \in Uncounted))
      BY <2>2, <2>4, ConnsAssumption DEF Local, Uncounted
    <2> QED
      BY <2>1, <2>3, <2>5, PlainKeeps, UpdaterSame, ConnFacts, Zenon
  <1>6. CASE Disconnect(c)
    <2>1. PICK r, q, list : r = conn[c] /\ q = conn'[c] /\ list = Registered
      OBVIOUS
    <2>2. DOMAIN conn = Conns /\ DOMAIN r = Fields /\ Local(c, r, list) /\ QueryOK(r)
      BY <2>1, ConnFacts
    <2>3. Frame(c) /\ UNCHANGED <<clients, connected, raced, updaterVars>>
      BY <1>6, <2>1, <2>2 DEF Frame, Disconnect, Fields
    <2>4. /\ q.left = r.left /\ q.transmits = r.transmits /\ q.tmp = r.tmp
          /\ q.version = r.version /\ q.up = FALSE
          /\ r.reader = "disconnect" /\ q.reader = "unregister"
      BY <1>6, <2>1, <2>2 DEF Disconnect, Fields
    <2>5. Local(c, q, list) /\ (c \in SshConns => (q.reader \in Uncounted <=> r.reader \in Uncounted))
      BY <2>2, <2>4, ConnsAssumption DEF Local, Uncounted
    <2> QED
      BY <2>1, <2>3, <2>5, PlainKeeps, UpdaterSame, ConnFacts
  <1>7. CASE IgnorePDU(c)
    <2>1. PICK r, q, list : r = conn[c] /\ q = conn'[c] /\ list = Registered
      OBVIOUS
    <2>2. DOMAIN conn = Conns /\ DOMAIN r = Fields /\ Local(c, r, list) /\ QueryOK(r)
      BY <2>1, ConnFacts
    <2>3. Frame(c) /\ UNCHANGED <<clients, connected, raced, updaterVars>>
      BY <1>7, <2>1, <2>2 DEF Frame, IgnorePDU, Fields
    <2>4. /\ q.left = r.left /\ q.transmits = r.transmits /\ q.tmp = r.tmp
          /\ q.up = r.up /\ q.version \in {r.version, BaseVersion}
          /\ r.reader = "handle" /\ q.reader = IF r.up THEN "read" ELSE AfterLoop(c)
      BY <1>7, <2>1, <2>2 DEF IgnorePDU, Fields, Downgraded,
                                AfterPDU
    <2>5. Local(c, q, list) /\ (c \in SshConns => (q.reader \in Uncounted <=> r.reader \in Uncounted))
      BY <2>2, <2>4, ConnsAssumption DEF Local, Uncounted, AfterLoop
    <2> QED
      BY <2>1, <2>3, <2>5, PlainKeeps, UpdaterSame, ConnFacts
  <1> QED
    BY <1>1, <1>2, <1>3, <1>4, <1>5, <1>6, <1>7

\* sendLoop counts nothing.
LEMMA CountSending ==
  ASSUME CountInv, NEW c \in Conns, AnswerInv',
         SendCheck(c) \/ SendWait(c) \/ Write(c)
  PROVE  CountInv'
  <1>1. CASE SendCheck(c)
    <2>1. PICK r, q, list : r = conn[c] /\ q = conn'[c] /\ list = Registered
      OBVIOUS
    <2>2. DOMAIN conn = Conns /\ DOMAIN r = Fields /\ Local(c, r, list) /\ QueryOK(r)
      BY <2>1, ConnFacts
    <2>3. Frame(c) /\ UNCHANGED <<clients, connected, raced, updaterVars>>
      BY <1>1, <2>1, <2>2 DEF Frame, SendCheck, Fields
    <2>4. /\ q.left = r.left /\ q.version = r.version /\ q.transmits = r.transmits
          /\ q.tmp = r.tmp /\ q.up = r.up /\ q.reader = r.reader
      BY <1>1, <2>1, <2>2 DEF SendCheck, Fields
    <2>5. Local(c, q, list) /\ (c \in SshConns => (q.reader \in Uncounted <=> r.reader \in Uncounted))
      BY <2>2, <2>4, ConnsAssumption DEF Local, Uncounted
    <2> QED
      BY <2>1, <2>3, <2>5, PlainKeeps, UpdaterSame, ConnFacts
  <1>2. CASE SendWait(c)
    <2>1. PICK r, q, list : r = conn[c] /\ q = conn'[c] /\ list = Registered
      OBVIOUS
    <2>2. DOMAIN conn = Conns /\ DOMAIN r = Fields /\ Local(c, r, list) /\ QueryOK(r)
      BY <2>1, ConnFacts
    <2>3. Frame(c) /\ UNCHANGED <<clients, connected, raced, updaterVars>>
      BY <1>2, <2>1, <2>2 DEF Frame, SendWait, Fields
    <2>4. /\ q.left = r.left /\ q.version = r.version /\ q.transmits = r.transmits
          /\ q.tmp = r.tmp /\ q.up = r.up /\ q.reader = r.reader
      BY <1>2, <2>1, <2>2 DEF SendWait, Fields
    <2>5. Local(c, q, list) /\ (c \in SshConns => (q.reader \in Uncounted <=> r.reader \in Uncounted))
      BY <2>2, <2>4, ConnsAssumption DEF Local, Uncounted
    <2> QED
      BY <2>1, <2>3, <2>5, PlainKeeps, UpdaterSame, ConnFacts
  <1>3. CASE Write(c)
    <2>1. PICK r, q, list : r = conn[c] /\ q = conn'[c] /\ list = Registered
      OBVIOUS
    <2>2. DOMAIN conn = Conns /\ DOMAIN r = Fields /\ Local(c, r, list) /\ QueryOK(r)
      BY <2>1, ConnFacts
    <2>3. Frame(c) /\ UNCHANGED <<clients, connected, raced, updaterVars>>
      BY <1>3, <2>1, <2>2 DEF Frame, Write, Fields
    <2>4. /\ q.left = r.left /\ q.version = r.version /\ q.transmits = r.transmits
          /\ q.tmp = r.tmp /\ q.up = r.up /\ q.reader = r.reader
      BY <1>3, <2>1, <2>2 DEF Write, Fields
    <2>5. Local(c, q, list) /\ (c \in SshConns => (q.reader \in Uncounted <=> r.reader \in Uncounted))
      BY <2>2, <2>4, ConnsAssumption DEF Local, Uncounted
    <2> QED
      BY <2>1, <2>3, <2>5, PlainKeeps, UpdaterSame, ConnFacts
  <1> QED
    BY <1>1, <1>2, <1>3

\* SendRawPDU waits for room in the channel.
LEMMA CountQueueing ==
  ASSUME CountInv, NEW c \in Conns, AnswerInv', SendWrongVersionError(c) \/ Answer(c)
  PROVE  CountInv'
  <1>1. PICK r, q, list : r = conn[c] /\ q = conn'[c] /\ list = Registered
    OBVIOUS
  <1>2. /\ DOMAIN conn = Conns /\ DOMAIN r = Fields /\ Local(c, r, list) /\ Updater
        /\ IsSeq(r.transmits)
    BY <1>1, ConnFacts
  <1>3. Frame(c) /\ UNCHANGED <<clients, connected, raced, updaterVars>>
    <2>1. CASE SendWrongVersionError(c)
      BY <1>1, <1>2, <2>1 DEF Frame, SendWrongVersionError, Fields
    <2>2. CASE Answer(c)
      BY <1>1, <1>2, <2>2 DEF Frame, Answer, Fields
    <2> QED
      BY <2>1, <2>2
  <1>4. PICK pdu : q.transmits = Append(r.transmits, pdu)
    <2>1. CASE SendWrongVersionError(c)
      BY <1>1, <1>2, <2>1 DEF SendWrongVersionError, Fields
    <2>2. CASE Answer(c)
      BY <1>1, <1>2, <2>2 DEF Answer, Fields
    <2> QED
      BY <2>1, <2>2, Zenon
  <1>5. Len(q.transmits) <= ChanSize
    <2>1. Len(r.transmits) < ChanSize
      BY <1>1 DEF SendWrongVersionError, Answer, CanQueue
    <2>2. Len(r.transmits) \in Nat /\ Len(q.transmits) = Len(r.transmits) + 1
      BY <1>2, <1>4, AppendToSeq
    <2> QED
      BY <2>1, <2>2, ConnsAssumption, SMTT(30)
  <1>6. CASE SendWrongVersionError(c)
    <2>1. /\ q.left = r.left /\ q.version = r.version /\ q.tmp = r.tmp /\ q.up = r.up
          /\ r.reader = "reject" /\ q.reader = "disconnect"
      BY <1>1, <1>2, <1>6 DEF SendWrongVersionError, AfterReject, Fields
    <2>2. Local(c, q, list) /\ q.reader \notin Uncounted /\ r.reader \notin Uncounted
      BY <1>2, <1>5, <2>1, SMTT(30) DEF Local, Uncounted
    <2> QED
      BY <1>1, <1>2, <1>3, <2>2, PlainKeeps, UpdaterSame
  <1>7. CASE Answer(c)
    <2>1. /\ q.left = r.left - 1 /\ q.version = r.version /\ q.tmp = r.tmp /\ q.up = r.up
          /\ r.reader = "answer"
          /\ q.reader = IF r.left > 1 THEN r.reader
                        ELSE IF r.up THEN "read" ELSE AfterLoop(c)
      BY <1>1, <1>2, <1>7 DEF Answer, AfterPDU, Fields
    <2>2. q.left \in 0 .. AnswerMax /\ (r.left > 1 => q.left # 0)
      BY <1>2, <2>1, ConnsAssumption DEF Local
    <2>3. Local(c, q, list)
      BY <1>2, <1>5, <2>1, <2>2 DEF Local, AfterLoop
    <2>4. c \in SshConns => q.reader \notin Uncounted /\ r.reader \notin Uncounted
      BY <2>1, SMTT(30) DEF AfterLoop, Uncounted
    <2> QED
      BY <1>1, <1>2, <1>3, <2>3, <2>4, PlainKeeps, UpdaterSame
  <1> QED
    BY <1>6, <1>7

\* sendLoop makes room in the channel.
LEMMA CountTaking ==
  ASSUME CountInv, NEW c \in Conns, AnswerInv', SendTake(c)
  PROVE  CountInv'
  <1>1. PICK r, q, list : r = conn[c] /\ q = conn'[c] /\ list = Registered
    OBVIOUS
  <1>2. /\ DOMAIN conn = Conns /\ DOMAIN r = Fields /\ Local(c, r, list) /\ Updater
        /\ IsSeq(r.transmits)
    BY <1>1, ConnFacts
  <1>3. Frame(c) /\ UNCHANGED <<clients, connected, raced, updaterVars>>
    BY <1>1, <1>2 DEF Frame, SendTake, Fields
  <1>4. /\ q.left = r.left /\ q.version = r.version /\ q.tmp = r.tmp
        /\ q.up = r.up /\ q.reader = r.reader
        /\ r.transmits # << >> /\ q.transmits = Tail(r.transmits)
    BY <1>1, <1>2 DEF SendTake, Fields
  <1>5. Len(r.transmits) \in Nat /\ Len(q.transmits) = Len(r.transmits) - 1
    BY <1>2, <1>4, TailOfSeq
  <1>6. Len(q.transmits) <= ChanSize
    BY <1>2, <1>5, ConnsAssumption DEF Local
  <1>7. Local(c, r, list)
    BY <1>2
  <1>8. Local(c, q, list)
    <2>1. /\ q.left = r.left /\ q.version = r.version /\ q.tmp = r.tmp
          /\ q.up = r.up /\ q.reader = r.reader
      BY <1>4
    <2> QED
      BY <1>6, <1>7, <2>1 DEF Local
  <1> QED
    BY <1>1, <1>2, <1>3, <1>4, <1>8, PlainKeeps, UpdaterSame

\* A step that registers or unregisters c and counts it.
LEMMA ListKeeps ==
  ASSUME CountInv, NEW c \in Conns, Frame(c), AnswerInv', raced' = raced, Updater',
         clients' \in Seq(Conns), Distinct(clients'),
         Members(clients') \ {c} = Members(clients) \ {c},
         connected' \in Int, connected' - Len(clients') = connected - Len(clients),
         Local(c, conn'[c], Members(clients')),
         conn'[c].reader \notin Uncounted, conn[c].reader \notin Uncounted
  PROVE  CountInv'
  <1>1. Registered' = Members(clients') /\ Registered = Members(clients)
    BY DEF Registered, Members
  <1>2. SshCounted' = SshCounted
    BY ConnsAssumption DEF SshCounted, Frame, Uncounted
  <1>3. \A d \in Conns : Local(d, conn'[d], Registered')
    <2> TAKE d \in Conns
    <2>1. CASE d = c
      BY <1>1, <2>1, SMTT(30)
    <2>2. CASE d # c
      <3>1. conn'[d] = conn[d] /\ (d \in Registered' <=> d \in Registered)
        BY <1>1, <2>2 DEF Frame
      <3>2. Local(d, conn[d], Registered)
        BY DEF CountInv
      <3> QED
        BY <3>1, <3>2 DEF Local
    <2> QED
      BY <2>1, <2>2
  <1>4. CounterExact'
    <2>1. Len(clients) \in Nat /\ Len(clients') \in Nat
      BY DEF CountInv
    <2>2. IsFiniteSet(SshCounted) /\ CounterExact /\ connected \in Int
      BY DEF CountInv
    <2>3. PICK m : m = Cardinality(SshCounted)
      OBVIOUS
    <2>4. m \in Nat /\ (~raced => connected = Len(clients) + m)
      BY <2>2, <2>3, FS_CardinalityType DEF CounterExact
    <2>5. ~raced => connected' = Len(clients') + m
      BY <2>1, <2>2, <2>4, SMTT(30)
    <2> QED
      BY <1>2, <2>3, <2>5 DEF CounterExact
  <1> QED
    BY <1>2, <1>3, <1>4 DEF CountInv

\* Start registers a client that was not registered.
LEMMA CountStart ==
  ASSUME CountInv, NEW c \in Conns, AnswerInv', Start(c)
  PROVE  CountInv'
  <1>1. PICK r, q, list : r = conn[c] /\ q = conn'[c] /\ list = clients
    OBVIOUS
  <1>2. /\ DOMAIN conn = Conns /\ DOMAIN r = Fields /\ Local(c, r, Members(list)) /\ Updater
        /\ list \in Seq(Conns) /\ Distinct(list) /\ connected \in Int
    BY <1>1, ConnFacts, Zenon DEF CountInv, Registered, Members
  <1>3. Frame(c) /\ UNCHANGED updaterVars /\ raced' = raced
    BY <1>1, <1>2 DEF Frame, Start, Fields
  <1>4. /\ q.left = r.left /\ q.version = r.version /\ q.tmp = r.tmp
        /\ q.transmits = r.transmits /\ q.up = TRUE
        /\ r.reader = "start" /\ q.reader = "read"
    BY <1>1, <1>2 DEF Start, Fields
  <1>5. c \notin Members(list)
    BY <1>2, <1>4 DEF Local
  <1>6. PICK k \in Nat : k = Len(list) /\ DOMAIN list = 1 .. k
    BY <1>2
  <1>7. PICK new : new = clients'
    OBVIOUS
  <1>8. /\ new \in Seq(Conns) /\ Len(new) = k + 1 /\ DOMAIN new = 1 .. k + 1
        /\ \A i \in 1 .. k : new[i] = list[i]
        /\ new[k + 1] = c
    <2>1. new = Append(list, c)
      BY <1>1, <1>7 DEF Start
    <2> QED
      BY <1>2, <1>6, <2>1
  <1>9. Members(new) = Members(list) \cup {c} /\ Distinct(new)
    BY <1>2, <1>5, <1>6, <1>8, MembersAppended
  <1>10. Local(c, q, Members(new)) /\ q.reader \notin Uncounted /\ r.reader \notin Uncounted
    BY <1>2, <1>4, <1>9 DEF Local, Uncounted
  <1>11. connected' \in Int /\ connected' - Len(clients') = connected - Len(clients)
    BY <1>1, <1>2, <1>6, <1>7, <1>8 DEF Start
  <1>12. Members(clients') \ {c} = Members(clients) \ {c}
    BY <1>1, <1>5, <1>7, <1>9
  <1> QED
    BY <1>1, <1>2, <1>3, <1>7, <1>8, <1>9, <1>10, <1>11, <1>12, ListKeeps, UpdaterSame, Zenon

\* ClientDisconnected unregisters one that was.
LEMMA CountUnregister ==
  ASSUME CountInv, NEW c \in Conns, AnswerInv', ClientDisconnected(c)
  PROVE  CountInv'
  <1>1. PICK r, q, list : r = conn[c] /\ q = conn'[c] /\ list = clients
    OBVIOUS
  <1>2. /\ DOMAIN conn = Conns /\ DOMAIN r = Fields /\ Local(c, r, Members(list)) /\ Updater
        /\ list \in Seq(Conns) /\ Distinct(list) /\ connected \in Int
    BY <1>1, ConnFacts, Zenon DEF CountInv, Registered, Members
  <1>3. Frame(c) /\ UNCHANGED updaterVars /\ raced' = raced
    BY <1>1, <1>2 DEF Frame, ClientDisconnected, Fields
  <1>4. /\ q.left = r.left /\ q.version = r.version /\ q.tmp = r.tmp
        /\ q.transmits = r.transmits /\ q.up = r.up
        /\ r.reader = "unregister" /\ q.reader = "close"
    BY <1>1, <1>2 DEF ClientDisconnected, Fields
  <1>5. c \in Members(list)
    BY <1>2, <1>4 DEF Local
  <1>6. PICK new : new = clients'
    OBVIOUS
  <1>7. /\ new \in Seq(Conns) /\ Distinct(new) /\ Members(new) = Members(list) \ {c}
        /\ Len(new) = Len(list) - 1
    BY <1>1, <1>2, <1>5, <1>6, WithoutFacts DEF ClientDisconnected
  <1>8. Local(c, q, Members(new)) /\ q.reader \notin Uncounted /\ r.reader \notin Uncounted
    BY <1>2, <1>4, <1>7 DEF Local, Uncounted
  <1>9. connected' \in Int /\ connected' - Len(clients') = connected - Len(clients)
    <2>1. Len(list) \in Nat
      BY <1>2
    <2> QED
      BY <1>1, <1>2, <1>6, <1>7, <2>1 DEF ClientDisconnected, OneLess
  <1>10. Members(clients') \ {c} = Members(clients) \ {c}
    BY <1>1, <1>6, <1>7
  <1> QED
    BY <1>1, <1>2, <1>3, <1>6, <1>7, <1>8, <1>9, <1>10, ListKeeps, UpdaterSame, Zenon

\* acceptClientSSH adds its connection or takes it back; an update that
\* overwrote another one is recorded in raced.
LEMMA CountSsh ==
  ASSUME CountInv, NEW c \in Conns, AnswerInv', SshWrite(c)
  PROVE  CountInv'
  <1>1. PICK r, q, list : r = conn[c] /\ q = conn'[c] /\ list = Registered
    OBVIOUS
  <1>2. /\ DOMAIN conn = Conns /\ DOMAIN r = Fields /\ Local(c, r, list) /\ Updater
        /\ IsFiniteSet(SshCounted) /\ connected \in Int
    BY <1>1, ConnFacts DEF CountInv
  <1>3. Frame(c) /\ UNCHANGED updaterVars /\ clients' = clients
    BY <1>1, <1>2 DEF Frame, SshWrite, Fields
  <1>4. /\ q.left = r.left /\ q.version = r.version /\ q.tmp = 0
        /\ q.transmits = r.transmits /\ q.up = r.up
        /\ r.reader \in {"inc_write", "dec_write"}
        /\ q.reader = IF r.reader = "inc_write" THEN "start" ELSE "done"
    BY <1>1, <1>2 DEF SshWrite, Fields
  <1>5. Local(c, q, list) /\ c \in SshConns
    <2>1. Local(c, r, list) /\ 0 \in Int /\ q.reader \in {"start", "done"}
      BY <1>2, <1>4
    <2> QED
      BY <1>4, <2>1 DEF Local
  <1>6. \A d \in Conns : Local(d, conn'[d], Registered')
    <2>1. Registered' = Registered
      BY <1>3 DEF Registered
    <2>2. \A d \in Conns : d # c => conn'[d] = conn[d]
      BY <1>3 DEF Frame
    <2> QED
      BY <1>1, <1>5, <2>1, <2>2 DEF CountInv
  <1>7. PICK A, B : A = SshCounted /\ B = SshCounted'
    OBVIOUS
  <1>8. /\ r.reader = "inc_write" => c \notin A /\ B = A \cup {c}
        /\ r.reader = "dec_write" => c \in A /\ B = A \ {c}
    BY <1>1, <1>3, <1>4, <1>5, <1>7, ConnsAssumption, Zenon DEF SshCounted, Frame
  <1>9. /\ IsFiniteSet(B) /\ Cardinality(A) \in Nat
        /\ r.reader = "inc_write" => Cardinality(B) = Cardinality(A) + 1
        /\ r.reader = "dec_write" => Cardinality(B) = Cardinality(A) - 1
    <2>1. IsFiniteSet(A) /\ Cardinality(A) \in Nat
      BY <1>2, <1>7, FS_CardinalityType
    <2>2. CASE r.reader = "inc_write"
      BY <1>8, <2>1, <2>2, FS_AddElement
    <2>3. CASE r.reader = "dec_write"
      BY <1>8, <2>1, <2>3, FS_RemoveElement
    <2> QED
      BY <1>4, <2>1, <2>2, <2>3
  <1>10. raced' \in BOOLEAN /\ connected' \in Int
    <2>1. raced' = (raced \/ connected # r.tmp)
      BY <1>1 DEF SshWrite
    <2>2. connected' = r.tmp + (IF r.reader = "inc_write" THEN 1 ELSE -1)
      BY <1>1 DEF SshWrite
    <2>3. r.tmp \in Int
      BY <1>2 DEF Local
    <2>4. raced' \in BOOLEAN
      BY <2>1, Zenon
    <2> QED
      BY <2>2, <2>3, <2>4
  <1>11. CounterExact'
    <2> SUFFICES ASSUME ~raced' PROVE connected' = Len(clients') + Cardinality(B)
      BY <1>7 DEF CounterExact
    <2>1. ~raced /\ connected = r.tmp
      BY <1>1, Zenon DEF SshWrite
    <2>2. connected' = connected + (IF r.reader = "inc_write" THEN 1 ELSE -1)
      BY <1>1, <2>1 DEF SshWrite
    <2>3. connected = Len(clients) + Cardinality(A)
      BY <1>7, <2>1 DEF CountInv, CounterExact
    <2>4. Len(clients) \in Nat
      BY DEF CountInv
    <2>5. CASE r.reader = "inc_write"
      BY <1>3, <1>9, <2>2, <2>3, <2>4, <2>5
    <2>6. CASE r.reader = "dec_write"
      BY <1>3, <1>9, <2>2, <2>3, <2>4, <2>6
    <2> QED
      BY <1>4, <2>5, <2>6
  <1>12. Updater'
    BY <1>2, <1>3, UpdaterSame
  <1> QED
    BY <1>3, <1>6, <1>7, <1>9, <1>10, <1>11, <1>12 DEF CountInv

\* The updater notifies clients that were registered, and puts a version into
\* each notification.
LEMMA CountUpdater ==
  ASSUME CountInv, AnswerInv', NotifyClients \/ NotifyStamp \/ NotifyQueue
  PROVE  CountInv'
  <1>1. Updater /\ clients \in Seq(Conns)
    BY DEF CountInv
  <1>2. toNotify # << >> => Head(toNotify) \in Conns /\ Tail(toNotify) \in Seq(Conns)
    BY <1>1 DEF Updater
  <1>3. CASE NotifyClients
    <2>1. Updater'
      BY <1>1, <1>3 DEF Updater, NotifyClients
    <2>2. SshCounted' = SshCounted /\ Registered' = Registered /\ CounterExact'
      BY <1>3 DEF CountInv, CounterExact, SshCounted, Registered, NotifyClients
    <2> QED
      BY <1>3, <2>1, <2>2 DEF CountInv, NotifyClients
  <1>4. CASE NotifyStamp
    <2>1. Updater'
      <3>1. conn[Head(toNotify)].version \in {Unset, 0, 1}
        BY <1>2, <1>4, ConnFacts, Zenon DEF NotifyStamp, Local
      <3>2. stamp' \in {0, 1} /\ toNotify' = toNotify /\ toNotify # << >>
        BY <1>4, <3>1 DEF NotifyStamp, GetVersion
      <3> QED
        BY <1>1, <3>2, SMTT(30) DEF Updater
    <2>2. SshCounted' = SshCounted /\ Registered' = Registered /\ CounterExact'
      BY <1>4 DEF CountInv, CounterExact, SshCounted, Registered, NotifyStamp
    <2> QED
      BY <1>4, <2>1, <2>2 DEF CountInv, NotifyStamp
  <1>5. CASE NotifyQueue
    <2>1. PICK c \in Conns : c = Head(toNotify)
      BY <1>1, <1>2, <1>5 DEF Updater, NotifyQueue
    <2>2. PICK r, q, list, pdu : /\ r = conn[c] /\ q = conn'[c] /\ list = Registered
                                 /\ pdu = Pdu("notify", stamp, NoQuery)
      BY SMTT(30)
    <2>3. /\ DOMAIN conn = Conns /\ DOMAIN r = Fields /\ Local(c, r, list)
          /\ IsSeq(r.transmits)
      BY <2>2, ConnFacts
    <2>4. conn' = [conn EXCEPT ![c].transmits = Append(@, pdu)]
      BY <1>5, <2>1, <2>2, SMTT(30) DEF NotifyQueue
    <2>5. Frame(c) /\ UNCHANGED <<clients, connected, raced>>
      BY <1>5, <2>2, <2>3, <2>4 DEF Frame, NotifyQueue, Fields
    <2>6. /\ q.left = r.left /\ q.version = r.version /\ q.tmp = r.tmp
          /\ q.up = r.up /\ q.reader = r.reader
          /\ q.transmits = Append(r.transmits, pdu)
      BY <2>2, <2>3, <2>4 DEF Fields
    <2>7. Len(q.transmits) <= ChanSize
      <3>1. Len(r.transmits) \in Nat /\ Len(q.transmits) = Len(r.transmits) + 1
        BY <2>3, <2>6, AppendToSeq
      <3>2. Len(r.transmits) < ChanSize
        BY <1>5, <2>1, <2>2, SMTT(30) DEF NotifyQueue, CanQueue
      <3> QED
        BY <3>1, <3>2, ConnsAssumption
    <2>8. Local(c, q, list)
      BY <2>3, <2>6, <2>7 DEF Local
    <2>9. Updater'
      BY <1>1, <1>2, <1>5 DEF Updater, NotifyQueue
    <2> QED
      BY <2>2, <2>5, <2>6, <2>8, <2>9, PlainKeeps
  <1> QED
    BY <1>3, <1>4, <1>5

\* Every step of the server and its routers keeps the invariant.
LEMMA CountNext ==
  ASSUME CountInv, [ConnsNext]_connsVars
  PROVE  CountInv'
  <1>1. AnswerInv'
    BY AnswerNext DEF CountInv
  <1>2. ASSUME NEW c \in Conns, RouterStep(c)
        PROVE  CountInv'
    BY <1>1, <1>2, CountRouter, CountQuery DEF RouterStep
  <1>3. ASSUME NEW c \in Conns, AcceptStep(c)
        PROVE  CountInv'
    BY <1>1, <1>3, CountAccept, CountSsh, CountStart DEF AcceptStep
  <1>4. ASSUME NEW c \in Conns, ReaderStep(c)
        PROVE  CountInv'
    BY <1>1, <1>4, CountReading, CountQueueing, CountUnregister DEF ReaderStep
  <1>5. ASSUME NEW c \in Conns, SenderStep(c) \/ WriteOpen(c)
        PROVE  CountInv'
    BY <1>1, <1>5, CountSending, CountTaking DEF SenderStep, WriteOpen, WriteFails
  <1>6. CASE NotifyClients \/ NotifyStamp \/ NotifyQueue
    BY <1>1, <1>6, CountUpdater
  <1>7. CASE UNCHANGED connsVars
    BY <1>7, Zenon DEF CountInv, AnswerInv, Updater, CounterExact, SshCounted, Registered,
                connsVars, updaterVars
  <1> QED
    BY <1>2, <1>3, <1>4, <1>5, <1>6, <1>7 DEF ConnsNext, UpdaterStep

\* Every field keeps its type and no channel exceeds its capacity, whatever the
\* number of connections.
THEOREM ConnsTyped == ConnsSpec => []ConnsTypeOK
  <1>1. CountInv => ConnsTypeOK
    BY Zenon DEF CountInv, Updater, Local, ConnsTypeOK
  <1> QED
    BY <1>1, CountInit, CountNext, PTL DEF ConnsSpec

\* The counter the limit is checked against counts every registered client and
\* every SSH connection that is being served, as long as no unlocked update of
\* acceptClientSSH overwrote one of another goroutine.
THEOREM CounterIsExact == ConnsSpec => []CounterExact
  <1>1. CountInv => CounterExact
    BY DEF CountInv
  <1> QED
    BY <1>1, CountInit, CountNext, PTL DEF ConnsSpec

=============================================================================
