-------------------------------- MODULE RtrDump --------------------------------
(***************************************************************************)
(* A run of rtrdump (cmd/rtrdump/rtrdump.go) on a ClientSession            *)
(* (lib/client.go) against a server of this repository, down to the octets *)
(* on the connection.                                                      *)
(*                                                                         *)
(* TCP keeps the order of octets and cuts them anywhere.  The client       *)
(* decodes from the stream, so cuts must not matter to it; the server      *)
(* decodes what one Read returns.                                          *)
(***************************************************************************)
EXTENDS Pdu

CONSTANTS
  Vrps,           \* the VRPs of the answer: [ip, len, maxLen, asn, flags]
  BaseVersion,    \* the server's baseVersion
  NotifyMax       \* bound on the notifications of the server's updater

\* A VRP of the answer has the fields of its PDU: an address of four or sixteen
\* octets (net.IP, after To4), lengths and flags of one octet, an AS number.
ASSUME DumpAssumption ==
  /\ BaseVersion \in Nat /\ NotifyMax \in Nat
  /\ Vrps \in Seq([ip : Seq(0 .. 255), len : 0 .. 255, maxLen : 0 .. 255, asn : Nat,
                   flags : 0 .. 255])
  /\ \A i \in DOMAIN Vrps : Len(Vrps[i].ip) \in {4, 16}

Session == 258          \* with two octets that differ
Serial == 66051         \* and with three
Times == <<3600, 600, 7200>>

VARIABLES
  query,       \* the query of the client
  server,      \* "read", "answer" or "closed"
  version,     \* the client's version, as the server has it
  todo,        \* the PDUs of the answer that are still to be queued
  sent,        \* the PDUs the server has written
  stream,      \* and the octets they were written as
  notified,    \* how many of them were notifications
  arrived,     \* how many octets have arrived at the client
  read,        \* how many of these Decode has taken
  client,      \* "dial", "loop", "disconnected", "done" or "fatal"
  handled,     \* the PDUs HandlePDU was called with
  data,        \* Client.Data
  out          \* the entries of the file, once the client is done

serverVars == <<server, version, todo, sent, stream, notified>>
clientVars == <<read, client, handled, data, out>>
dumpVars == <<query, serverVars, arrived, clientVars>>

\* What has arrived and is not decoded.
Inbox == SubSeq(stream, read + 1, arrived)

\* What ClientConnected may send: flags choose, and give session and serial.
ClientConnected ==
  {NewPdu(RESET_QUERY, 1),
   [NewPdu(SERIAL_QUERY, 1) EXCEPT !.session = Session, !.serial = Serial]}

DumpInit ==
  /\ query \in ClientConnected
  /\ server = "read" /\ version = 0 /\ todo = << >> /\ sent = << >> /\ stream = << >>
  /\ notified = 0
  /\ arrived = 0 /\ read = 0
  /\ client = "dial" /\ handled = << >> /\ data = << >> /\ out = << >>

-----------------------------------------------------------------------------
(* The server. *)

SendVRP(v, vrp) ==
  [NewPdu(IF Len(vrp.ip) = 4 THEN IPV4_PREFIX ELSE IPV6_PREFIX, v) EXCEPT
     !.flags = vrp.flags, !.ip = vrp.ip, !.len = vrp.len, !.maxLen = vrp.maxLen,
     !.asn = vrp.asn]

SendVRPs(v) ==
  <<[NewPdu(CACHE_RESPONSE, v) EXCEPT !.session = Session]>>
    \o [i \in DOMAIN Vrps |-> SendVRP(v, Vrps[i])]
    \o <<[NewPdu(END_OF_DATA, v) EXCEPT !.session = Session, !.serial = Serial,
                                        !.times = Times]>>

SendNoDataError(v) ==
  <<[NewPdu(ERROR_REPORT, v) EXCEPT !.session = 2, !.msg = <<78, 111>>]>>

SendCacheReset(v) == <<NewPdu(CACHE_RESET, v)>>

\* HandlePDU: the version of a client of version v afterwards.
Downgraded(v) == IF v > BaseVersion THEN BaseVersion ELSE v

\* One Read returns the first n octets of the query: all of it, ...
ReadQuery ==
  /\ server = "read" /\ client = "loop"
  /\ LET dec == Decode(Bytes(query))
         v == Downgraded(dec.version)
     IN  /\ dec # Malformed
         /\ version' = v
         /\ \/ todo' = SendVRPs(v)
            \/ todo' = SendNoDataError(v)
            \/ dec.type = SERIAL_QUERY /\ todo' = SendCacheReset(v)
  /\ server' = "answer"
  /\ UNCHANGED <<query, sent, stream, notified, arrived, clientVars>>

\* ... or a part, which DecodeBytes refuses: the client is disconnected.
ReadPart ==
  /\ server = "read" /\ client = "loop"
  /\ \E n \in 1 .. Len(Bytes(query)) - 1 :
       Decode(SubSeq(Bytes(query), 1, n)) = Malformed
  /\ server' = "closed"
  /\ UNCHANGED <<query, version, todo, sent, stream, notified, arrived, clientVars>>

\* sendLoop takes a PDU from transmits.
Write(pdu) == sent' = Append(sent, pdu) /\ stream' = stream \o Bytes(pdu)

\* The next PDU of the answer.
SendAnswer ==
  /\ server = "answer"
  /\ todo # << >>
  /\ Write(Head(todo))
  /\ todo' = Tail(todo)
  /\ UNCHANGED <<query, server, version, notified, arrived, clientVars>>

\* A notification of the updater comes in between.
SendNotify ==
  /\ server \in {"read", "answer"} /\ client # "dial"
  /\ notified < NotifyMax
  /\ Write([NewPdu(SERIAL_NOTIFY, version) EXCEPT !.session = Session, !.serial = Serial])
  /\ notified' = notified + 1
  /\ UNCHANGED <<query, server, version, todo, arrived, clientVars>>

\* The server ends, or the connection breaks.
ServerCloses ==
  /\ server # "closed" /\ client # "dial"
  /\ server' = "closed"
  /\ UNCHANGED <<query, version, todo, sent, stream, notified, arrived, clientVars>>

\* The network (external): some more octets arrive.
Deliver ==
  /\ \E n \in arrived + 1 .. Len(stream) : arrived' = n
  /\ UNCHANGED <<query, serverVars, clientVars>>

-----------------------------------------------------------------------------
(* rtrdump. *)

\* StartPlain; sendLoop writes the query that ClientConnected queues.
Start ==
  /\ client = "dial"
  /\ client' = "loop"
  /\ UNCHANGED <<query, serverVars, arrived, read, handled, data, out>>

\* The dial fails: there is no connection.
StartFails ==
  /\ client = "dial"
  /\ client' = "fatal"
  /\ server' = "closed"
  /\ UNCHANGED <<query, version, todo, sent, stream, notified, arrived, read, handled, data, out>>

\* Decode fails: on what it has read, or because the stream ends.  StartRW
\* returns the error and main exits.
DecodeFails ==
  /\ client = "loop"
  /\ IF Complete(Inbox)
     THEN Decode(Inbox) = Malformed
     ELSE server = "closed" /\ arrived = Len(stream)
  /\ client' = "fatal"
  /\ UNCHANGED <<query, serverVars, arrived, read, handled, data, out>>

Entry(vrp) == [ip |-> vrp.ip, len |-> vrp.len, maxLen |-> vrp.maxLen, asn |-> vrp.asn]

\* Slip: the octets of the header are not counted.
TakenPayload(b) == Uint32(b, 5) - 8

\* How many octets Decode takes.
Taken(b) == Uint32(b, 5)

\* Slip: a PDU that is not known ends nothing.
EndsLoopOnly(pdu) == pdu.type = END_OF_DATA

\* HandlePDU calls Disconnect on an End of Data and on any PDU it has no case
\* for.
Ends(pdu) == pdu.type \notin {IPV4_PREFIX, IPV6_PREFIX, CACHE_RESPONSE}

\* HandlePDU.  The flags of a prefix are not looked at.
HandlePDU ==
  /\ client = "loop"
  /\ Complete(Inbox)
  /\ LET dec == Decode(Inbox)
     IN  /\ dec # Malformed
         /\ handled' = Append(handled, dec)
         /\ data' = IF dec.type \in {IPV4_PREFIX, IPV6_PREFIX}
                    THEN Append(data, Entry(dec)) ELSE data
         /\ client' = IF Ends(dec) THEN "disconnected" ELSE "loop"
  /\ read' = read + Taken(Inbox)
  /\ UNCHANGED <<query, serverVars, arrived, out>>

\* The rest of main.
WriteFile ==
  /\ client = "disconnected"
  /\ out' = data
  /\ client' = "done"
  /\ UNCHANGED <<query, serverVars, arrived, read, handled, data>>

-----------------------------------------------------------------------------
ServerStep == ReadQuery \/ ReadPart \/ SendAnswer
ClientStep == Start \/ StartFails \/ DecodeFails \/ HandlePDU \/ WriteFile

DumpNext == ServerStep \/ SendNotify \/ ServerCloses \/ Deliver \/ ClientStep

\* The two programs and the network make progress; nothing says that there
\* are notifications or that the connection breaks.
DumpSpec ==
  /\ DumpInit /\ [][DumpNext]_dumpVars
  /\ WF_dumpVars(ServerStep) /\ WF_dumpVars(Deliver) /\ WF_dumpVars(ClientStep)

-----------------------------------------------------------------------------
(* Properties. *)

\* A PDU as the other side sees it: version 0 has no intervals, and the null
\* octet is part of an error message.
Received(pdu) ==
  [pdu EXCEPT !.times = IF pdu.version = 0 THEN <<0, 0, 0>> ELSE @,
              !.msg = IF @ = << >> THEN @ ELSE Append(@, 0)]

\* However the stream is cut, HandlePDU is called with the PDUs the server
\* wrote, one for one and in order, and decoding fails only where the stream
\* ends early.
FramingExact ==
  /\ Len(handled) <= Len(sent)
  /\ \A i \in DOMAIN handled : handled[i] = Received(sent[i])
  /\ client = "fatal" => server = "closed"

\* When the last PDU was the End of Data, the file has one entry per VRP of
\* the answer, in order.
DumpExact ==
  client = "done" /\ handled[Len(handled)].type = END_OF_DATA =>
    out = [i \in DOMAIN Vrps |-> Entry(Vrps[i])]

\* rtrdump ends, with a file or with an error.
DumpEnds == <>(client \in {"done", "fatal"})

=============================================================================
