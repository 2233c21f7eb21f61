---------------------------------- MODULE Pdu ----------------------------------
(***************************************************************************)
(* The PDUs of the protocol as octets (lib/structs.go): Write for each     *)
(* type of PDU, and Decode.                                                *)
(*                                                                         *)
(* A PDU is one record with the fields of every type; a type leaves those  *)
(* it does not have at their zero values.  An address is the sequence of   *)
(* its octets.                                                             *)
(***************************************************************************)
EXTENDS Integers, Sequences

messageMaxSize == 2048

SERIAL_NOTIFY  == 0
SERIAL_QUERY   == 1
RESET_QUERY    == 2
CACHE_RESPONSE == 3
IPV4_PREFIX    == 4
IPV6_PREFIX    == 6
END_OF_DATA    == 7
CACHE_RESET    == 8
ROUTER_KEY     == 9
ERROR_REPORT   == 10

NewPdu(type, version) ==
  [type |-> type, version |-> version,
   session |-> 0,                        \* or the error code
   serial |-> 0, times |-> <<0, 0, 0>>,  \* refresh, retry and expire
   flags |-> 0, ip |-> << >>, len |-> 0, maxLen |-> 0, asn |-> 0,
   copy |-> << >>, msg |-> << >>]

-----------------------------------------------------------------------------
(* Write. *)

U16(n) == <<n \div 256, n % 256>>
U32(n) == U16(n \div 65536) \o U16(n % 65536)

Header(pdu, half, length) == <<pdu.version, pdu.type>> \o U16(half) \o U32(length)

WriteSerialNotify(pdu) == Header(pdu, pdu.session, 12) \o U32(pdu.serial)

WriteSerialQuery(pdu) == Header(pdu, pdu.session, 12) \o U32(pdu.serial)

WriteResetQuery(pdu) == Header(pdu, 0, 8)

WriteCacheResponse(pdu) == Header(pdu, pdu.session, 8)

WriteCacheReset(pdu) == Header(pdu, 0, 8)

WriteIPv4Prefix(pdu) ==
  Header(pdu, 0, 20) \o <<pdu.flags, pdu.len, pdu.maxLen, 0>> \o pdu.ip \o U32(pdu.asn)

WriteIPv6Prefix(pdu) ==
  Header(pdu, 0, 32) \o <<pdu.flags, pdu.len, pdu.maxLen, 0>> \o pdu.ip \o U32(pdu.asn)

\* Slip: the length is that of version 1 whatever the version.
WriteEndOfDataLong(pdu) ==
  Header(pdu, pdu.session, 24) \o U32(pdu.serial) \o
    (IF pdu.version = 0
     THEN << >>
     ELSE U32(pdu.times[1]) \o U32(pdu.times[2]) \o U32(pdu.times[3]))

\* Version 0 has no intervals.
WriteEndOfData(pdu) ==
  IF pdu.version = 0
  THEN Header(pdu, pdu.session, 12) \o U32(pdu.serial)
  ELSE Header(pdu, pdu.session, 24) \o U32(pdu.serial) \o
         U32(pdu.times[1]) \o U32(pdu.times[2]) \o U32(pdu.times[3])

\* A message gets a null octet at its end.
WriteErrorReport(pdu) ==
  LET msg == IF pdu.msg = << >> THEN << >> ELSE Append(pdu.msg, 0)
  IN  Header(pdu, pdu.session, 12 + Len(pdu.copy) + 4 + Len(msg))
        \o U32(Len(pdu.copy)) \o pdu.copy \o U32(Len(msg)) \o msg

\* No program sends Router Keys.
Bytes(pdu) ==
  CASE pdu.type = SERIAL_NOTIFY -> WriteSerialNotify(pdu)
    [] pdu.type = SERIAL_QUERY -> WriteSerialQuery(pdu)
    [] pdu.type = RESET_QUERY -> WriteResetQuery(pdu)
    [] pdu.type = CACHE_RESPONSE -> WriteCacheResponse(pdu)
    [] pdu.type = IPV4_PREFIX -> WriteIPv4Prefix(pdu)
    [] pdu.type = IPV6_PREFIX -> WriteIPv6Prefix(pdu)
    [] pdu.type = END_OF_DATA -> WriteEndOfData(pdu)
    [] pdu.type = CACHE_RESET -> WriteCacheReset(pdu)
    [] pdu.type = ERROR_REPORT -> WriteErrorReport(pdu)

-----------------------------------------------------------------------------
(* Decode. *)

Malformed == NewPdu(255, 0)     \* Decode returns an error

Uint16(b, i) == 256 * b[i] + b[i + 1]
Uint32(b, i) == 65536 * Uint16(b, i) + Uint16(b, i + 2)

\* The length is one that Decode goes on to read.
LengthOK(b) == Uint32(b, 5) \in 8 .. messageMaxSize

\* Decode does not wait for more than the octets b.
Complete(b) == Len(b) >= 8 /\ (LengthOK(b) => Len(b) >= Uint32(b, 5))

DecodeErrorReport(pdu, p) ==
  IF Len(p) < 8 \/ Len(p) < Uint32(p, 1) + 8
  THEN Malformed
  ELSE LET lenPdu == Uint32(p, 1)
           lenErrText == Uint32(p, lenPdu + 5)
       IN  IF Len(p) < lenPdu + 8 + lenErrText
           THEN Malformed
           ELSE [pdu EXCEPT !.copy = SubSeq(p, 5, lenPdu + 4),
                            !.msg = SubSeq(p, lenPdu + 9, lenPdu + 8 + lenErrText)]

\* Slip: the AS number is read where it is in an IPv4 Prefix PDU.
AsnAtIPv4(n) == 9

\* The AS number follows an address of n octets.
AsnAt(n) == n + 5

\* Prefix PDUs, with addresses of n octets.
DecodePrefix(pdu, p, n) ==
  IF Len(p) # n + 8
  THEN Malformed
  ELSE [pdu EXCEPT !.session = 0,
                   !.flags = p[1], !.len = p[2], !.maxLen = p[3],
                   !.ip = SubSeq(p, 5, n + 4), !.asn = Uint32(p, AsnAt(n))]

DecodeEndOfData(pdu, p) ==
  IF Len(p) = 4
  THEN [pdu EXCEPT !.serial = Uint32(p, 1)]
  ELSE IF Len(p) = 16
  THEN [pdu EXCEPT !.serial = Uint32(p, 1),
                   !.times = <<Uint32(p, 5), Uint32(p, 9), Uint32(p, 13)>>]
  ELSE Malformed

\* The switch on the type, for a payload p.
DecodePayload(pdu, p) ==
  CASE pdu.type \in {SERIAL_NOTIFY, SERIAL_QUERY} ->
         IF Len(p) = 4 THEN [pdu EXCEPT !.serial = Uint32(p, 1)] ELSE Malformed
    [] pdu.type \in {RESET_QUERY, CACHE_RESET} ->
         IF p = << >> THEN [pdu EXCEPT !.session = 0] ELSE Malformed
    [] pdu.type = CACHE_RESPONSE -> IF p = << >> THEN pdu ELSE Malformed
    [] pdu.type = IPV4_PREFIX -> DecodePrefix(pdu, p, 4)
    [] pdu.type = IPV6_PREFIX -> DecodePrefix(pdu, p, 16)
    [] pdu.type = END_OF_DATA -> DecodeEndOfData(pdu, p)
    [] pdu.type = ERROR_REPORT -> DecodeErrorReport(pdu, p)
    [] pdu.type = ROUTER_KEY ->          \* the key identifier and info; no flags
         IF Len(p) = 28
         THEN [pdu EXCEPT !.session = 0, !.copy = SubSeq(p, 1, 20),
                          !.asn = Uint32(p, 21), !.serial = Uint32(p, 25)]
         ELSE Malformed
    [] OTHER -> Malformed

\* Decode on a reader that holds b and then ends.
Decode(b) ==
  IF ~Complete(b) \/ ~LengthOK(b)
  THEN Malformed
  ELSE DecodePayload([NewPdu(b[2], b[1]) EXCEPT !.session = Uint16(b, 3)],
                     SubSeq(b, 9, Uint32(b, 5)))

=============================================================================
