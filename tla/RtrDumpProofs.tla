---------------------------- MODULE RtrDumpProofs ----------------------------
(***************************************************************************)
(* That Decode reads what Write wrote, and that rtrdump's file is the      *)
(* server's answer, for any VRPs and any cuts of the stream.               *)
(***************************************************************************)
EXTENDS RtrDump, ListFacts

-----------------------------------------------------------------------------
(* Octets. *)

\* b has the octets s after the first n.
Holds(b, n, s) == n + Len(s) <= Len(b) /\ \A k \in 1 .. Len(s) : b[n + k] = s[k]

\* What Write writes in two pieces is there when both are, one after the other.
LEMMA HoldsBoth ==
  ASSUME NEW s, NEW t, IsSeq(s), IsSeq(t)
  PROVE  /\ IsSeq(s \o t) /\ Len(s \o t) = Len(s) + Len(t)
         /\ Len(s) \in Nat /\ Len(t) \in Nat
         /\ \A b, n : n \in Nat /\ IsSeq(b) =>
              (Holds(b, n, s \o t) <=> Holds(b, n, s) /\ Holds(b, n + Len(s), t))
  <1>1. PICK S : s \in Seq(S)
    BY DEF IsSeq
  <1>2. PICK T : t \in Seq(T)
    BY DEF IsSeq
  <1>3. s \in Seq(S \cup T) /\ t \in Seq(S \cup T)
    BY <1>1, <1>2, SMT
  <1>4. PICK w : w = s \o t
    BY Zenon
  <1>5. /\ w \in Seq(S \cup T) /\ Len(s) \in Nat /\ Len(t) \in Nat
        /\ Len(w) = Len(s) + Len(t)
        /\ \A k \in 1 .. Len(s) : w[k] = s[k]
        /\ \A k \in 1 .. Len(t) : w[Len(s) + k] = t[k]
    BY <1>3, <1>4, SMT
  <1>6. ASSUME NEW b, NEW n, n \in Nat, IsSeq(b)
        PROVE  Holds(b, n, w) <=> Holds(b, n, s) /\ Holds(b, n + Len(s), t)
    <2>1. PICK B : b \in Seq(B)
      BY <1>6 DEF IsSeq
    <2>2. Len(b) \in Nat
      BY <2>1, SMT
    <2>3. ASSUME Holds(b, n, w)
          PROVE  Holds(b, n, s) /\ Holds(b, n + Len(s), t)
      <3>1. \A k \in 1 .. Len(t) : Len(s) + k \in 1 .. Len(w) /\ n + (Len(s) + k) = (n + Len(s)) + k
        BY <1>5, <1>6, SMT
      <3>2. \A k \in 1 .. Len(t) : b[(n + Len(s)) + k] = t[k]
        BY <1>5, <2>3, <3>1, SMT DEF Holds
      <3>3. \A k \in 1 .. Len(s) : b[n + k] = s[k]
        BY <1>5, <2>3, SMT DEF Holds
      <3> QED
        BY <1>5, <1>6, <2>2, <2>3, <3>2, <3>3, SMT DEF Holds
    <2>4. ASSUME Holds(b, n, s), Holds(b, n + Len(s), t)
          PROVE  Holds(b, n, w)
      <3>1. ASSUME NEW k \in 1 .. Len(w) PROVE b[n + k] = w[k]
        <4>1. CASE k <= Len(s)
          BY <1>5, <1>6, <2>4, <3>1, <4>1, SMT DEF Holds
        <4>2. CASE ~(k <= Len(s))
          <5>1. PICK j : j = k - Len(s)
            BY Zenon
          <5>2. j \in 1 .. Len(t) /\ k = Len(s) + j /\ n + k = (n + Len(s)) + j
            BY <1>5, <1>6, <3>1, <4>2, <5>1, SMT
          <5>3. w[k] = t[j] /\ b[n + k] = t[j]
            BY <1>5, <2>4, <5>2, SMT DEF Holds
          <5> QED
            BY <5>3
        <4> QED
          BY <4>1, <4>2
      <3> QED
        BY <1>5, <1>6, <2>2, <2>4, <3>1, SMT DEF Holds
    <2> QED
      BY <2>3, <2>4
  <1>7. IsSeq(w)
    BY <1>5, Zenon DEF IsSeq
  <1> QED
    BY <1>4, <1>5, <1>6, <1>7, Zenon

\* A piece of a sequence.
LEMMA Piece ==
  ASSUME NEW s, IsSeq(s), NEW m \in Nat, NEW n \in Nat, m <= n, n <= Len(s)
  PROVE  /\ IsSeq(SubSeq(s, m + 1, n))
         /\ Len(SubSeq(s, m + 1, n)) = n - m
         /\ \A k \in 1 .. n - m : SubSeq(s, m + 1, n)[k] = s[m + k]
  <1>1. PICK S : s \in Seq(S)
    BY DEF IsSeq
  <1>2. /\ SubSeq(s, m + 1, n) \in Seq(S)
        /\ Len(SubSeq(s, m + 1, n)) = n - m
        /\ \A k \in 1 .. n - m : SubSeq(s, m + 1, n)[k] = s[m + k]
    BY <1>1, SMT
  <1> QED
    BY <1>2 DEF IsSeq

\* It has the octets that the sequence has there.
LEMMA HoldsPiece ==
  ASSUME NEW b, IsSeq(b), NEW m \in Nat, NEW n \in Nat, m <= n, n <= Len(b),
         NEW i \in Nat, NEW s, IsSeq(s), i + Len(s) <= n - m
  PROVE  Holds(SubSeq(b, m + 1, n), i, s) <=> Holds(b, m + i, s)
  <1>1. PICK p : p = SubSeq(b, m + 1, n)
    BY Zenon
  <1>2. IsSeq(p) /\ Len(p) = n - m /\ \A k \in 1 .. n - m : p[k] = b[m + k]
    BY <1>1, Piece, Zenon
  <1>3. PICK B : b \in Seq(B)
    BY DEF IsSeq
  <1>4. PICK S : s \in Seq(S)
    BY DEF IsSeq
  <1>5. Len(b) \in Nat /\ Len(s) \in Nat
    BY <1>3, <1>4, SMT
  <1>6. \A k \in 1 .. Len(s) : p[i + k] = b[(m + i) + k]
    <2>1. \A k \in 1 .. Len(s) : i + k \in 1 .. n - m /\ m + (i + k) = (m + i) + k
      BY <1>5, SMT
    <2> QED
      BY <1>2, <2>1, SMT
  <1>7. Holds(p, i, s) <=> Holds(b, m + i, s)
    BY <1>2, <1>5, <1>6, SMT DEF Holds
  <1> QED
    BY <1>1, <1>7, Zenon

\* Sequences with the same octets are the same.
LEMMA SameOctets ==
  ASSUME NEW s, NEW t, IsSeq(s), IsSeq(t), Len(s) = Len(t),
         \A k \in 1 .. Len(s) : s[k] = t[k]
  PROVE  s = t
  <1>1. PICK S : s \in Seq(S)
    BY DEF IsSeq
  <1>2. PICK T : t \in Seq(T)
    BY DEF IsSeq
  <1> QED
    BY <1>1, <1>2, SMT

\* Tuples of octets are sequences.
LEMMA Tuples ==
  ASSUME NEW a, NEW b, NEW c, NEW d
  PROVE  IsSeq(<< >>) /\ IsSeq(<<a>>) /\ IsSeq(<<a, b>>) /\ IsSeq(<<a, b, c, d>>)
  <1>1. << >> \in Seq({a}) /\ <<a>> \in Seq({a}) /\ <<a, b>> \in Seq({a, b})
        /\ <<a, b, c, d>> \in Seq({a, b, c, d})
    BY SMT
  <1> QED
    BY <1>1, Zenon DEF IsSeq

\* The octets of a number.
LEMMA U16Octets ==
  ASSUME NEW n
  PROVE  IsSeq(U16(n)) /\ Len(U16(n)) = 2
  <1>1. U16(n) = <<n \div 256, n % 256>>
    BY SMT DEF U16
  <1>2. IsSeq(U16(n))
    <2>1. PICK h, l : h = n \div 256 /\ l = n % 256
      BY Zenon
    <2>2. U16(n) = <<h, l>>
      BY <1>1, <2>1, Zenon
    <2>3. IsSeq(<<h, l>>)
      BY Tuples, Zenon
    <2> QED
      BY <2>2, <2>3, Zenon
  <1>3. Len(U16(n)) = 2
    BY <1>1, SMT
  <1> QED
    BY <1>2, <1>3

\* U32 writes four octets.
LEMMA U32Octets ==
  ASSUME NEW n
  PROVE  IsSeq(U32(n)) /\ Len(U32(n)) = 4
  <1>1. PICK h : h = n \div 65536
    BY SMT
  <1>2. PICK l : l = n % 65536
    BY SMT
  <1>3. U32(n) = U16(h) \o U16(l)
    BY <1>1, <1>2, SMT DEF U32
  <1>4. IsSeq(U16(h)) /\ IsSeq(U16(l)) /\ Len(U16(h)) = 2 /\ Len(U16(l)) = 2
    BY U16Octets, Zenon
  <1>5. IsSeq(U16(h) \o U16(l)) /\ Len(U16(h) \o U16(l)) = Len(U16(h)) + Len(U16(l))
    BY <1>4, HoldsBoth, Zenon
  <1> QED
    BY <1>3, <1>4, <1>5, SMT

\* Uint16 and Uint32 read what U16 and U32 wrote, wherever it is.
LEMMA ReadU16 ==
  ASSUME NEW x \in Nat, NEW b, NEW n \in Nat, Holds(b, n, U16(x))
  PROVE  Uint16(b, n + 1) = x
  <1>1. PICK h : h = x \div 256
    BY Zenon
  <1>2. PICK l : l = x % 256
    BY Zenon
  <1>3. h \in Nat /\ l \in Nat /\ 256 * h + l = x
    BY <1>1, <1>2, SMT
  <1>4. b[n + 1] = h /\ b[n + 2] = l /\ (n + 1) + 1 = n + 2
    BY <1>1, <1>2, SMT DEF U16, Holds
  <1> QED
    BY <1>3, <1>4, SMT DEF Uint16

\* Uint32 reads what U32 wrote.
LEMMA ReadU32 ==
  ASSUME NEW x \in Nat, NEW b, IsSeq(b), NEW n \in Nat, Holds(b, n, U32(x))
  PROVE  Uint32(b, n + 1) = x
  <1>1. PICK h : h = x \div 65536
    BY SMT
  <1>2. PICK l : l = x % 65536
    BY SMT
  <1>3. h \in Nat /\ l \in Nat /\ 65536 * h + l = x
    BY <1>1, <1>2, SMT
  <1>4. U32(x) = U16(h) \o U16(l)
    BY <1>1, <1>2, SMT DEF U32
  <1>5. IsSeq(U16(h)) /\ IsSeq(U16(l)) /\ Len(U16(h)) = 2
    BY U16Octets, Zenon
  <1>6. Holds(b, n, U16(h)) /\ Holds(b, n + 2, U16(l))
    <2>1. Holds(b, n, U16(h) \o U16(l))
      BY <1>4
    <2>2. Holds(b, n, U16(h)) /\ Holds(b, n + Len(U16(h)), U16(l))
      BY <1>5, <2>1, HoldsBoth, Zenon
    <2> QED
      BY <1>5, <2>2, Zenon
  <1>7. n + 2 \in Nat /\ (n + 2) + 1 = (n + 1) + 2
    BY SMT
  <1>7a. h \in Nat /\ l \in Nat
    BY <1>3
  <1>8. Uint16(b, n + 1) = h /\ Uint16(b, (n + 1) + 2) = l
    BY <1>6, <1>7, <1>7a, ReadU16, ZenonT(30)
  <1> QED
    BY <1>3, <1>8, SMT DEF Uint32

\* Octets that are copied.
LEMMA ReadAll ==
  ASSUME NEW b, IsSeq(b), NEW n \in Nat, NEW s, IsSeq(s), Holds(b, n, s)
  PROVE  SubSeq(b, n + 1, n + Len(s)) = s
  <1>1. PICK S : s \in Seq(S)
    BY DEF IsSeq
  <1>2. Len(s) \in Nat
    BY <1>1, SMT
  <1>3. PICK m : m = n + Len(s)
    BY Zenon
  <1>4. m \in Nat /\ n <= m /\ m <= Len(b) /\ m - n = Len(s)
    BY <1>2, <1>3, SMT DEF Holds
  <1>5. PICK p : p = SubSeq(b, n + 1, m)
    BY Zenon
  <1>6. IsSeq(p) /\ Len(p) = m - n /\ \A k \in 1 .. m - n : p[k] = b[n + k]
    BY <1>4, <1>5, Piece, Zenon
  <1>7. Len(p) = Len(s) /\ \A k \in 1 .. Len(p) : p[k] = s[k]
    BY <1>4, <1>6, SMT DEF Holds
  <1>8. p = s
    BY <1>6, <1>7, SameOctets, Zenon
  <1> QED
    BY <1>3, <1>5, <1>8, Zenon

\* An equation by name, for the provers to match.
Same(x, y) == x = y

\* Three pieces.
LEMMA Assoc ==
  ASSUME NEW s, NEW t, NEW u, IsSeq(s), IsSeq(t), IsSeq(u)
  PROVE  Same((s \o t) \o u, s \o (t \o u))
  <1>1. PICK S : s \in Seq(S)
    BY DEF IsSeq
  <1>2. PICK T : t \in Seq(T)
    BY DEF IsSeq
  <1>3. PICK U : u \in Seq(U)
    BY DEF IsSeq
  <1>4. PICK V : V = S \cup T \cup U
    BY Zenon
  <1>5. s \in Seq(V) /\ t \in Seq(V) /\ u \in Seq(V)
    BY <1>1, <1>2, <1>3, <1>4, SMT
  <1>6. (s \o t) \o u = s \o (t \o u)
    BY <1>5, SMT
  <1> QED
    BY <1>6, Zenon DEF Same

\* No octets.
LEMMA NoOctets ==
  ASSUME NEW s, IsSeq(s)
  PROVE  s \o << >> = s /\ IsSeq(<< >>) /\ Len(<< >>) = 0
  <1>1. PICK S : s \in Seq(S)
    BY DEF IsSeq
  <1>2. s \o << >> = s /\ << >> \in Seq(S) /\ Len(<< >>) = 0
    BY <1>1, SMT
  <1> QED
    BY <1>2, Zenon DEF IsSeq

\* All octets.
LEMMA HoldsAll ==
  ASSUME NEW s, IsSeq(s)
  PROVE  Holds(s, 0, s) /\ Len(s) \in Nat
  <1>1. PICK S : s \in Seq(S)
    BY DEF IsSeq
  <1> QED
    BY <1>1, SMT DEF Holds

-----------------------------------------------------------------------------
(* What every PDU has. *)

\* writeHeader.
LEMMA HeaderOctets ==
  ASSUME NEW pdu, NEW half \in Nat, NEW length \in Nat
  PROVE  /\ IsSeq(Header(pdu, half, length)) /\ Len(Header(pdu, half, length)) = 8
         /\ \A b : IsSeq(b) /\ Holds(b, 0, Header(pdu, half, length)) =>
              /\ b[1] = pdu.version /\ b[2] = pdu.type
              /\ Uint16(b, 3) = half /\ Uint32(b, 5) = length
  <1>1. PICK a, u, w : a = <<pdu.version, pdu.type>> /\ u = U16(half) /\ w = U32(length)
    BY Zenon
  <1>2. IsSeq(a) /\ IsSeq(u) /\ IsSeq(w)
    BY <1>1, Tuples, U16Octets, U32Octets, Zenon
  <1>3. Len(u) = 2 /\ Len(w) = 4
    BY <1>1, U16Octets, U32Octets, Zenon
  <1>4. Len(a) = 2 /\ a[1] = pdu.version /\ a[2] = pdu.type
    BY <1>1, SMT
  <1>5. Header(pdu, half, length) = (a \o u) \o w
    BY <1>1, Zenon DEF Header
  <1>6. IsSeq(a \o u) /\ Len(a \o u) = Len(a) + Len(u)
    BY <1>2, HoldsBoth, Zenon
  <1>7. IsSeq((a \o u) \o w) /\ Len((a \o u) \o w) = Len(a \o u) + Len(w)
    BY <1>2, <1>6, HoldsBoth, Zenon
  <1>8. Len(a \o u) = 4 /\ Len((a \o u) \o w) = 8
    BY <1>3, <1>4, <1>6, <1>7, SMT
  <1>9. ASSUME NEW b, IsSeq(b), Holds(b, 0, (a \o u) \o w)
        PROVE  /\ b[1] = pdu.version /\ b[2] = pdu.type
               /\ Uint16(b, 3) = half /\ Uint32(b, 5) = length
    <2>1. 0 \in Nat /\ 2 \in Nat /\ 4 \in Nat /\ 0 + 2 = 2 /\ 0 + 4 = 4 /\ 2 + 1 = 3 /\ 4 + 1 = 5
      BY SMT
    <2>2. Holds(b, 0, a \o u) /\ Holds(b, 0 + Len(a \o u), w)
      BY <1>2, <1>6, <1>9, <2>1, HoldsBoth, Zenon
    <2>3. Holds(b, 0, a) /\ Holds(b, 0 + Len(a), u)
      BY <1>2, <1>9, <2>1, <2>2, HoldsBoth, Zenon
    <2>4. Holds(b, 2, u) /\ Holds(b, 4, w)
      BY <1>4, <1>8, <2>1, <2>2, <2>3, Zenon
    <2>5. b[1] = pdu.version /\ b[2] = pdu.type
      BY <1>4, <2>3, SMT DEF Holds
    <2>6. Uint16(b, 2 + 1) = half
      BY <1>1, <2>1, <2>4, ReadU16, Zenon
    <2>7. Uint32(b, 4 + 1) = length
      BY <1>1, <1>9, <2>1, <2>4, ReadU32, Zenon
    <2> QED
      BY <2>1, <2>5, <2>6, <2>7, Zenon
  <1> QED
    BY <1>5, <1>7, <1>8, <1>9, Zenon

\* The same, without what the octets are.
LEMMA HeaderIsSeq ==
  ASSUME NEW pdu, NEW half \in Nat, NEW length \in Nat
  PROVE  IsSeq(Header(pdu, half, length))
  BY HeaderOctets, Zenon

\* w is a PDU with the payload p, as its header says.
Frame(w, pdu, half, p) ==
  /\ half \in Nat /\ IsSeq(p) /\ 8 + Len(p) <= messageMaxSize
  /\ w = Header(pdu, half, 8 + Len(p)) \o p

\* Decode waits for all of w and for no more, once it has a header.
Framed(w) ==
  /\ IsSeq(w) /\ Len(w) \in Nat /\ Len(w) >= 8
  /\ \A b : IsSeq(b) /\ Len(b) >= 8 /\ Holds(b, 0, SubSeq(w, 1, 8)) =>
       /\ LengthOK(b) /\ Uint32(b, 5) = Len(w)
       /\ Complete(b) <=> Len(b) >= Len(w)

\* Decode reads w, and whatever follows, as r.
ReadAs(w, r) == \A b : IsSeq(b) /\ Holds(b, 0, w) => Decode(b) = r

\* Decode waits for all of a PDU and for no more, and passes its payload on.
LEMMA FrameDecoded ==
  ASSUME NEW w, NEW pdu, NEW half, NEW p, Frame(w, pdu, half, p)
  PROVE  /\ Framed(w)
         /\ ReadAs(w, DecodePayload([NewPdu(pdu.type, pdu.version) EXCEPT !.session = half], p))
  <1>1. PICK n : n = 8 + Len(p)
    BY Zenon
  <1>2. PICK S : p \in Seq(S)
    BY Zenon DEF Frame, IsSeq
  <1>3. n \in Nat /\ n \in 8 .. messageMaxSize /\ Len(p) \in Nat
    <2>1. 8 + Len(p) <= messageMaxSize
      BY Zenon DEF Frame
    <2>2. Len(p) \in Nat
      BY <1>2, SMT
    <2>3. PICK l : l = Len(p)
      BY Zenon
    <2>4. l \in Nat /\ 8 + l <= messageMaxSize /\ n = 8 + l
      BY <1>1, <2>1, <2>2, <2>3, Zenon
    <2>5. n \in Nat /\ n \in 8 .. messageMaxSize
      BY <2>4, SMT DEF messageMaxSize
    <2> QED
      BY <2>2, <2>5, Zenon
  <1>4. PICK h : h = Header(pdu, half, n)
    BY Zenon
  <1>5. half \in Nat /\ IsSeq(p) /\ w = h \o p /\ n \in Nat
    BY <1>1, <1>3, <1>4, Zenon DEF Frame
  <1>6. /\ IsSeq(h) /\ Len(h) = 8
        /\ \A b : IsSeq(b) /\ Holds(b, 0, h) =>
             b[1] = pdu.version /\ b[2] = pdu.type /\ Uint16(b, 3) = half /\ Uint32(b, 5) = n
    BY <1>4, <1>5, HeaderOctets, ZenonT(30)
  <1>7. /\ IsSeq(w) /\ Len(w) = Len(h) + Len(p)
        /\ \A b, k : k \in Nat /\ IsSeq(b) =>
             (Holds(b, k, w) <=> Holds(b, k, h) /\ Holds(b, k + Len(h), p))
    BY <1>5, <1>6, HoldsBoth, Zenon
  <1>8. Len(w) = n /\ n >= 8 /\ 0 \in Nat /\ 8 \in Nat /\ 0 + 8 = 8 /\ 8 + 1 = 9
    BY <1>1, <1>3, <1>6, <1>7, SMT
  <1>9. \A b : IsSeq(b) /\ Holds(b, 0, w) => Holds(b, 0, h) /\ Holds(b, 8, p)
    BY <1>6, <1>7, <1>8, Zenon
  <1>10. SubSeq(w, 1, 8) = h
    <2>1. PICK W : w \in Seq(W)
      BY <1>7, Zenon DEF IsSeq
    <2>2. PICK q : q = SubSeq(w, 1, 8)
      BY Zenon
    <2>3. q \in Seq(W) /\ Len(q) = 8 /\ \A k \in 1 .. 8 : q[k] = w[k]
      BY <1>8, <2>1, <2>2, SMT
    <2>4. Holds(w, 0, w)
      BY <1>3, <1>8, SMT DEF Holds
    <2>5. Holds(w, 0, h)
      BY <1>7, <1>9, <2>4, Zenon
    <2>6. Len(q) = Len(h) /\ \A k \in 1 .. Len(q) : q[k] = h[k]
      BY <1>6, <2>3, <2>5, SMT DEF Holds
    <2>7. IsSeq(q)
      BY <2>3, Zenon DEF IsSeq
    <2> QED
      BY <1>6, <2>2, <2>6, <2>7, SameOctets, Zenon
  <1>11. ASSUME NEW b, IsSeq(b), Len(b) >= 8, Holds(b, 0, h)
         PROVE  LengthOK(b) /\ Uint32(b, 5) = n /\ (Complete(b) <=> Len(b) >= n)
    <2>1. Uint32(b, 5) = n
      BY <1>6, <1>11, Zenon
    <2>2. LengthOK(b)
      BY <1>3, <2>1, SMT DEF LengthOK
    <2> QED
      BY <1>8, <1>11, <2>1, <2>2, SMT DEF Complete
  <1>12. ASSUME NEW b, IsSeq(b), Holds(b, 0, w)
         PROVE  Decode(b) = DecodePayload([NewPdu(pdu.type, pdu.version) EXCEPT !.session = half], p)
    <2>1. Holds(b, 0, h) /\ Holds(b, 8, p)
      BY <1>9, <1>12, Zenon
    <2>2. Len(b) >= n /\ Len(b) >= 8
      <3>1. PICK B : b \in Seq(B)
        BY <1>12, Zenon DEF IsSeq
      <3> QED
        BY <1>3, <1>8, <1>12, <3>1, SMT DEF Holds
    <2>3. LengthOK(b) /\ Uint32(b, 5) = n /\ Complete(b)
      BY <1>11, <1>12, <2>1, <2>2, Zenon
    <2>4. b[1] = pdu.version /\ b[2] = pdu.type /\ Uint16(b, 3) = half
      BY <1>6, <1>12, <2>1, Zenon
    <2>5. SubSeq(b, 9, n) = p
      <3>1. SubSeq(b, 8 + 1, 8 + Len(p)) = p
        BY <1>5, <1>8, <1>12, <2>1, ReadAll, Zenon
      <3> QED
        BY <1>1, <1>8, <3>1, Zenon
    <2> QED
      BY <2>3, <2>4, <2>5, Zenon DEF Decode
  <1> QED
    BY <1>3, <1>7, <1>8, <1>10, <1>11, <1>12, Zenon DEF Framed, ReadAs

-----------------------------------------------------------------------------
(* The PDUs of each type. *)

\* A PDU of Go has fields of one, two or four octets.  The wider type makes the
\* theorems stronger: U16 and U32 split a number of any size, and Uint16 and
\* Uint32 put it together again.
PduType ==
  [type : Nat, version : Nat, session : Nat, serial : Nat, times : Nat \X Nat \X Nat,
   flags : Nat, ip : Seq(Nat), len : Nat, maxLen : Nat, asn : Nat,
   copy : Seq(Nat), msg : Seq(Nat)]

\* The PDUs that the programs write: a type has its own fields.
Writable(pdu) ==
  /\ pdu \in PduType
  /\ pdu.type \in {SERIAL_NOTIFY, SERIAL_QUERY, RESET_QUERY, CACHE_RESPONSE, IPV4_PREFIX,
                   IPV6_PREFIX, END_OF_DATA, CACHE_RESET, ERROR_REPORT}
  /\ pdu.type \in {RESET_QUERY, CACHE_RESET, IPV4_PREFIX, IPV6_PREFIX} => pdu.session = 0
  /\ pdu.type \notin {SERIAL_NOTIFY, SERIAL_QUERY, END_OF_DATA} => pdu.serial = 0
  /\ pdu.type # END_OF_DATA => pdu.times = <<0, 0, 0>>
  /\ pdu.type \notin {IPV4_PREFIX, IPV6_PREFIX} =>
       pdu.flags = 0 /\ pdu.ip = << >> /\ pdu.len = 0 /\ pdu.maxLen = 0 /\ pdu.asn = 0
  /\ pdu.type = IPV4_PREFIX => Len(pdu.ip) = 4
  /\ pdu.type = IPV6_PREFIX => Len(pdu.ip) = 16
  /\ pdu.type # ERROR_REPORT => pdu.copy = << >> /\ pdu.msg = << >>
  /\ Len(pdu.copy) + Len(pdu.msg) + 17 <= messageMaxSize

\* w is a PDU that Decode reads as pdu.
Codes(w, pdu) ==
  \E half, p :
    /\ Frame(w, pdu, half, p)
    /\ DecodePayload([NewPdu(pdu.type, pdu.version) EXCEPT !.session = half], p) = Received(pdu)

\* The PDU with these fields.
PduOf(ty, v, s, n, ts, fl, ip, ln, mx, aa, cp, mg) ==
  [type |-> ty, version |-> v, session |-> s, serial |-> n, times |-> ts, flags |-> fl,
   ip |-> ip, len |-> ln, maxLen |-> mx, asn |-> aa, copy |-> cp, msg |-> mg]

\* A PDU is given by its fields ...
LEMMA PduFields ==
  ASSUME NEW pdu \in PduType
  PROVE  pdu = PduOf(pdu.type, pdu.version, pdu.session, pdu.serial, pdu.times, pdu.flags,
                     pdu.ip, pdu.len, pdu.maxLen, pdu.asn, pdu.copy, pdu.msg)
  BY SMT DEF PduType, PduOf

\* ... which are read ...
LEMMA GetField ==
  ASSUME NEW ty, NEW v, NEW s, NEW n, NEW ts, NEW fl, NEW ip, NEW ln, NEW mx, NEW aa,
         NEW cp, NEW mg, NEW pdu, pdu = PduOf(ty, v, s, n, ts, fl, ip, ln, mx, aa, cp, mg)
  PROVE  /\ pdu.type = ty /\ pdu.version = v /\ pdu.session = s /\ pdu.serial = n
         /\ pdu.times = ts /\ pdu.flags = fl /\ pdu.ip = ip /\ pdu.len = ln
         /\ pdu.maxLen = mx /\ pdu.asn = aa /\ pdu.copy = cp /\ pdu.msg = mg
  BY SMT DEF PduOf

\* ... and set one by one.
SetSession(pdu, x) == [pdu EXCEPT !.session = x]
SetSerial(pdu, x) == [pdu EXCEPT !.serial = x]
SetTimes(pdu, x) == [pdu EXCEPT !.times = x]
SetFlags(pdu, x) == [pdu EXCEPT !.flags = x]
SetIp(pdu, x) == [pdu EXCEPT !.ip = x]
SetLen(pdu, x) == [pdu EXCEPT !.len = x]
SetMaxLen(pdu, x) == [pdu EXCEPT !.maxLen = x]
SetAsn(pdu, x) == [pdu EXCEPT !.asn = x]
SetCopy(pdu, x) == [pdu EXCEPT !.copy = x]
SetMsg(pdu, x) == [pdu EXCEPT !.msg = x]

\* Setting the session of a PDU leaves the other fields.
LEMMA SetsSession ==
  ASSUME NEW ty, NEW v, NEW s, NEW n, NEW ts, NEW fl, NEW ip, NEW ln, NEW mx, NEW aa,
         NEW cp, NEW mg, NEW x
  PROVE  SetSession(PduOf(ty, v, s, n, ts, fl, ip, ln, mx, aa, cp, mg), x) =
           PduOf(ty, v, x, n, ts, fl, ip, ln, mx, aa, cp, mg)
  BY SMT DEF PduOf, SetSession

\* Setting the serial number leaves the other fields.
LEMMA SetsSerial ==
  ASSUME NEW ty, NEW v, NEW s, NEW n, NEW ts, NEW fl, NEW ip, NEW ln, NEW mx, NEW aa,
         NEW cp, NEW mg, NEW x
  PROVE  SetSerial(PduOf(ty, v, s, n, ts, fl, ip, ln, mx, aa, cp, mg), x) =
           PduOf(ty, v, s, x, ts, fl, ip, ln, mx, aa, cp, mg)
  BY SMT DEF PduOf, SetSerial

\* Setting the intervals leaves the other fields.
LEMMA SetsTimes ==
  ASSUME NEW ty, NEW v, NEW s, NEW n, NEW ts, NEW fl, NEW ip, NEW ln, NEW mx, NEW aa,
         NEW cp, NEW mg, NEW x
  PROVE  SetTimes(PduOf(ty, v, s, n, ts, fl, ip, ln, mx, aa, cp, mg), x) =
           PduOf(ty, v, s, n, x, fl, ip, ln, mx, aa, cp, mg)
  BY SMT DEF PduOf, SetTimes

\* Setting the flags leaves the other fields.
LEMMA SetsFlags ==
  ASSUME NEW ty, NEW v, NEW s, NEW n, NEW ts, NEW fl, NEW ip, NEW ln, NEW mx, NEW aa,
         NEW cp, NEW mg, NEW x
  PROVE  SetFlags(PduOf(ty, v, s, n, ts, fl, ip, ln, mx, aa, cp, mg), x) =
           PduOf(ty, v, s, n, ts, x, ip, ln, mx, aa, cp, mg)
  BY SMT DEF PduOf, SetFlags

\* Setting the address leaves the other fields.
LEMMA SetsIp ==
  ASSUME NEW ty, NEW v, NEW s, NEW n, NEW ts, NEW fl, NEW ip, NEW ln, NEW mx, NEW aa,
         NEW cp, NEW mg, NEW x
  PROVE  SetIp(PduOf(ty, v, s, n, ts, fl, ip, ln, mx, aa, cp, mg), x) =
           PduOf(ty, v, s, n, ts, fl, x, ln, mx, aa, cp, mg)
  BY SMT DEF PduOf, SetIp

\* Setting the length leaves the other fields.
LEMMA SetsLen ==
  ASSUME NEW ty, NEW v, NEW s, NEW n, NEW ts, NEW fl, NEW ip, NEW ln, NEW mx, NEW aa,
         NEW cp, NEW mg, NEW x
  PROVE  SetLen(PduOf(ty, v, s, n, ts, fl, ip, ln, mx, aa, cp, mg), x) =
           PduOf(ty, v, s, n, ts, fl, ip, x, mx, aa, cp, mg)
  BY SMT DEF PduOf, SetLen

\* Setting the maximal length leaves the other fields.
LEMMA SetsMaxLen ==
  ASSUME NEW ty, NEW v, NEW s, NEW n, NEW ts, NEW fl, NEW ip, NEW ln, NEW mx, NEW aa,
         NEW cp, NEW mg, NEW x
  PROVE  SetMaxLen(PduOf(ty, v, s, n, ts, fl, ip, ln, mx, aa, cp, mg), x) =
           PduOf(ty, v, s, n, ts, fl, ip, ln, x, aa, cp, mg)
  BY SMT DEF PduOf, SetMaxLen

\* Setting the AS number leaves the other fields.
LEMMA SetsAsn ==
  ASSUME NEW ty, NEW v, NEW s, NEW n, NEW ts, NEW fl, NEW ip, NEW ln, NEW mx, NEW aa,
         NEW cp, NEW mg, NEW x
  PROVE  SetAsn(PduOf(ty, v, s, n, ts, fl, ip, ln, mx, aa, cp, mg), x) =
           PduOf(ty, v, s, n, ts, fl, ip, ln, mx, x, cp, mg)
  BY SMT DEF PduOf, SetAsn

\* Setting the PDU in error leaves the other fields.
LEMMA SetsCopy ==
  ASSUME NEW ty, NEW v, NEW s, NEW n, NEW ts, NEW fl, NEW ip, NEW ln, NEW mx, NEW aa,
         NEW cp, NEW mg, NEW x
  PROVE  SetCopy(PduOf(ty, v, s, n, ts, fl, ip, ln, mx, aa, cp, mg), x) =
           PduOf(ty, v, s, n, ts, fl, ip, ln, mx, aa, x, mg)
  BY SMT DEF PduOf, SetCopy

\* Setting the error message leaves the other fields.
LEMMA SetsMsg ==
  ASSUME NEW ty, NEW v, NEW s, NEW n, NEW ts, NEW fl, NEW ip, NEW ln, NEW mx, NEW aa,
         NEW cp, NEW mg, NEW x
  PROVE  SetMsg(PduOf(ty, v, s, n, ts, fl, ip, ln, mx, aa, cp, mg), x) =
           PduOf(ty, v, s, n, ts, fl, ip, ln, mx, aa, cp, x)
  BY SMT DEF PduOf, SetMsg

\* The PDU that Decode starts from.
LEMMA StartPdu ==
  ASSUME NEW ty, NEW v, NEW s
  PROVE  [NewPdu(ty, v) EXCEPT !.session = s] =
           PduOf(ty, v, s, 0, <<0, 0, 0>>, 0, << >>, 0, 0, 0, << >>, << >>)
  <1>1. NewPdu(ty, v) = PduOf(ty, v, 0, 0, <<0, 0, 0>>, 0, << >>, 0, 0, 0, << >>, << >>)
    BY Zenon DEF NewPdu, PduOf
  <1>2. SetSession(NewPdu(ty, v), s) =
          PduOf(ty, v, s, 0, <<0, 0, 0>>, 0, << >>, 0, 0, 0, << >>, << >>)
    BY <1>1, SetsSession, SMT
  <1> QED
    BY <1>2, Zenon DEF SetSession

\* What the other side sees.
LEMMA ReceivedPdu ==
  ASSUME NEW ty, NEW v, NEW s, NEW n, NEW ts, NEW fl, NEW ip, NEW ln, NEW mx, NEW aa,
         NEW cp, NEW mg
  PROVE  Received(PduOf(ty, v, s, n, ts, fl, ip, ln, mx, aa, cp, mg)) =
           PduOf(ty, v, s, n, IF v = 0 THEN <<0, 0, 0>> ELSE ts, fl, ip, ln, mx, aa, cp,
                 IF mg = << >> THEN << >> ELSE Append(mg, 0))
  <1>1. PICK pdu : pdu = PduOf(ty, v, s, n, ts, fl, ip, ln, mx, aa, cp, mg)
    BY Zenon
  <1>2. PICK t : t = IF v = 0 THEN <<0, 0, 0>> ELSE ts
    BY Zenon
  <1>3. PICK m : m = IF mg = << >> THEN << >> ELSE Append(mg, 0)
    BY Zenon
  <1>4. pdu.version = v /\ pdu.times = ts /\ pdu.msg = mg
    BY <1>1, GetField, SMT
  <1>5. /\ t = IF pdu.version = 0 THEN <<0, 0, 0>> ELSE pdu.times
        /\ m = IF pdu.msg = << >> THEN pdu.msg ELSE Append(pdu.msg, 0)
    BY <1>2, <1>3, <1>4, Zenon
  <1>6. Received(pdu) = [pdu EXCEPT !.times = t, !.msg = m]
    BY <1>5, Zenon DEF Received
  <1>7. Received(pdu) = SetMsg(SetTimes(pdu, t), m)
    BY <1>6, Zenon DEF SetMsg, SetTimes
  <1>8. SetTimes(pdu, t) = PduOf(ty, v, s, n, t, fl, ip, ln, mx, aa, cp, mg)
    BY <1>1, SetsTimes, SMT
  <1>9. SetMsg(SetTimes(pdu, t), m) = PduOf(ty, v, s, n, t, fl, ip, ln, mx, aa, cp, m)
    BY <1>8, SetsMsg, SMT
  <1> QED
    BY <1>1, <1>2, <1>3, <1>7, <1>9, Zenon

USE DEF SERIAL_NOTIFY, SERIAL_QUERY, RESET_QUERY, CACHE_RESPONSE, IPV4_PREFIX, IPV6_PREFIX,
        END_OF_DATA, CACHE_RESET, ROUTER_KEY, ERROR_REPORT

\* Serial Notify and Serial Query.
LEMMA CodesSerial ==
  ASSUME NEW pdu, Writable(pdu), pdu.type \in {SERIAL_NOTIFY, SERIAL_QUERY}
  PROVE  Codes(Bytes(pdu), pdu)
  <1>1. PICK p : p = U32(pdu.serial)
    BY Zenon
  <1>2. pdu.session \in Nat /\ pdu.serial \in Nat
    BY SMT DEF Writable, PduType
  <1>3. IsSeq(p) /\ Len(p) = 4
    BY <1>1, U32Octets, Zenon
  <1>4. Bytes(pdu) = Header(pdu, pdu.session, 12) \o p
    BY <1>1 DEF Bytes, WriteSerialNotify, WriteSerialQuery
  <1>5. Frame(Bytes(pdu), pdu, pdu.session, p)
    <2>1. 8 + Len(p) = 12 /\ 8 + Len(p) <= messageMaxSize
      BY <1>3, SMT DEF messageMaxSize
    <2> QED
      BY <1>2, <1>3, <1>4, <2>1 DEF Frame
  <1>6. Uint32(p, 1) = pdu.serial
    <2>1. Holds(p, 0, U32(pdu.serial))
      BY <1>1, <1>3, SMT DEF Holds
    <2>2. 0 \in Nat /\ 0 + 1 = 1
      BY SMT
    <2> QED
      BY <1>2, <1>3, <2>1, <2>2, ReadU32
  <1>7. PICK ty, v, s, n : ty = pdu.type /\ v = pdu.version /\ s = pdu.session /\ n = pdu.serial
    BY Zenon
  <1>8. Received(pdu) = PduOf(ty, v, s, n, <<0, 0, 0>>, 0, << >>, 0, 0, 0, << >>, << >>)
    <2>1. /\ pdu.times = <<0, 0, 0>> /\ pdu.flags = 0 /\ pdu.ip = << >> /\ pdu.len = 0
          /\ pdu.maxLen = 0 /\ pdu.asn = 0 /\ pdu.copy = << >> /\ pdu.msg = << >>
      BY SMT DEF Writable
    <2>2. pdu = PduOf(ty, v, s, n, <<0, 0, 0>>, 0, << >>, 0, 0, 0, << >>, << >>)
      BY <1>7, <2>1, PduFields, SMT DEF Writable
    <2> QED
      BY <2>2, ReceivedPdu, SMT
  <1>9. PICK q : q = PduOf(ty, v, s, 0, <<0, 0, 0>>, 0, << >>, 0, 0, 0, << >>, << >>)
    BY Zenon
  <1>10. [NewPdu(pdu.type, pdu.version) EXCEPT !.session = pdu.session] = q
    BY <1>7, <1>9, StartPdu, Zenon
  <1>11. DecodePayload(q, p) = SetSerial(q, n)
    <2>1. q.type = ty
      BY <1>9, GetField, SMT
    <2> QED
      BY <1>3, <1>6, <1>7, <2>1, SMTT(30) DEF DecodePayload, SetSerial
  <1>12. SetSerial(q, n) = Received(pdu)
    <2>1. SetSerial(q, n) = PduOf(ty, v, s, n, <<0, 0, 0>>, 0, << >>, 0, 0, 0, << >>, << >>)
      BY <1>9, SetsSerial, SMT
    <2> QED
      BY <1>8, <2>1, Zenon
  <1> QED
    BY <1>5, <1>10, <1>11, <1>12, Zenon DEF Codes

\* The PDUs without a payload.
LEMMA CodesEmpty ==
  ASSUME NEW pdu, Writable(pdu), pdu.type \in {RESET_QUERY, CACHE_RESET, CACHE_RESPONSE}
  PROVE  Codes(Bytes(pdu), pdu)
  <1>1. PICK ty, v, s : ty = pdu.type /\ v = pdu.version /\ s = pdu.session
    BY Zenon
  <1>2. s \in Nat /\ (ty # CACHE_RESPONSE => s = 0)
    BY <1>1, SMT DEF Writable, PduType
  <1>3. Bytes(pdu) = Header(pdu, s, 8)
    BY <1>1, <1>2 DEF Bytes, WriteResetQuery, WriteCacheReset, WriteCacheResponse
  <1>4. Frame(Bytes(pdu), pdu, s, << >>)
    <2>1. IsSeq(Header(pdu, s, 8))
      BY <1>2, HeaderOctets
    <2>2. /\ Header(pdu, s, 8) \o << >> = Header(pdu, s, 8)
          /\ IsSeq(<< >>) /\ Len(<< >>) = 0
      BY <2>1, NoOctets, Zenon
    <2>3. 8 + 0 = 8 /\ 8 <= messageMaxSize
      BY SMT DEF messageMaxSize
    <2> QED
      BY <1>2, <1>3, <2>2, <2>3, Zenon DEF Frame
  <1>5. Received(pdu) = PduOf(ty, v, s, 0, <<0, 0, 0>>, 0, << >>, 0, 0, 0, << >>, << >>)
    <2>1. /\ pdu.times = <<0, 0, 0>> /\ pdu.flags = 0 /\ pdu.ip = << >> /\ pdu.len = 0
          /\ pdu.maxLen = 0 /\ pdu.asn = 0 /\ pdu.copy = << >> /\ pdu.msg = << >>
          /\ pdu.serial = 0
      BY SMT DEF Writable
    <2>2. pdu = PduOf(ty, v, s, 0, <<0, 0, 0>>, 0, << >>, 0, 0, 0, << >>, << >>)
      BY <1>1, <2>1, PduFields, SMT DEF Writable
    <2> QED
      BY <2>2, ReceivedPdu, SMT
  <1>6. PICK q : q = PduOf(ty, v, s, 0, <<0, 0, 0>>, 0, << >>, 0, 0, 0, << >>, << >>)
    BY Zenon
  <1>7. [NewPdu(pdu.type, pdu.version) EXCEPT !.session = s] = q
    BY <1>1, <1>6, StartPdu, Zenon
  <1>8. DecodePayload(q, << >>) = q
    <2>1. q.type = ty
      BY <1>6, GetField, SMT
    <2>2. ty = CACHE_RESPONSE => DecodePayload(q, << >>) = q
      BY <2>1, SMT DEF DecodePayload
    <2>3. ty # CACHE_RESPONSE => DecodePayload(q, << >>) = SetSession(q, 0)
      BY <1>1, <2>1, SMT DEF DecodePayload, SetSession
    <2>4. ty # CACHE_RESPONSE => SetSession(q, 0) = q
      BY <1>2, <1>6, SetsSession, SMT
    <2> QED
      BY <2>2, <2>3, <2>4, ZenonT(30)
  <1> QED
    BY <1>4, <1>5, <1>6, <1>7, <1>8, Zenon DEF Codes

\* The Prefix PDUs.
LEMMA CodesPrefix ==
  ASSUME NEW pdu, Writable(pdu), pdu.type \in {IPV4_PREFIX, IPV6_PREFIX}
  PROVE  Codes(Bytes(pdu), pdu)
  <1>1. PICK ty, v, fl, ip, ln, mx, aa :
          /\ ty = pdu.type /\ v = pdu.version /\ fl = pdu.flags /\ ip = pdu.ip /\ ln = pdu.len
          /\ mx = pdu.maxLen /\ aa = pdu.asn
    BY Zenon
  <1>2. ip \in Seq(Nat) /\ aa \in Nat /\ Len(ip) = IF ty = IPV4_PREFIX THEN 4 ELSE 16
    <2>1. pdu.ip \in Seq(Nat) /\ pdu.asn \in Nat
      BY SMT DEF Writable, PduType
    <2>2. pdu.type = IPV4_PREFIX => Len(pdu.ip) = 4
      BY Zenon DEF Writable
    <2>3. pdu.type = IPV6_PREFIX => Len(pdu.ip) = 16
      BY Zenon DEF Writable
    <2>4. pdu.type = IPV4_PREFIX \/ pdu.type = IPV6_PREFIX
      BY Zenon
    <2> QED
      BY <1>1, <2>1, <2>2, <2>3, <2>4, Zenon
  <1>3. PICK n : n = Len(ip)
    BY Zenon
  <1>4. n \in Nat /\ n = IF ty = IPV4_PREFIX THEN 4 ELSE 16
    BY <1>2, <1>3, SMT
  <1>5. PICK t, u, h : t = <<fl, ln, mx, 0>> /\ u = U32(aa) /\ h = Header(pdu, 0, 16 + n)
    BY Zenon
  <1>6. Bytes(pdu) = ((h \o t) \o ip) \o u
    <2>1. 16 + n = IF ty = IPV4_PREFIX THEN 20 ELSE 32
      BY <1>4, SMT
    <2>2. CASE ty = IPV4_PREFIX
      <3>1. Bytes(pdu) = WriteIPv4Prefix(pdu)
        BY <1>1, <2>2 DEF Bytes
      <3>2. h = Header(pdu, 0, 20)
        BY <1>5, <2>1, <2>2, Zenon
      <3> QED
        BY <1>1, <1>5, <3>1, <3>2, Zenon DEF WriteIPv4Prefix
    <2>3. CASE ty # IPV4_PREFIX
      <3>1. Bytes(pdu) = WriteIPv6Prefix(pdu)
        BY <1>1, <2>3 DEF Bytes
      <3>2. h = Header(pdu, 0, 32)
        BY <1>5, <2>1, <2>3, Zenon
      <3> QED
        BY <1>1, <1>5, <3>1, <3>2, Zenon DEF WriteIPv6Prefix
    <2> QED
      BY <2>2, <2>3
  <1>7. IsSeq(t) /\ IsSeq(ip) /\ IsSeq(u) /\ IsSeq(h) /\ Len(u) = 4
    <2>1. 16 + n \in Nat /\ 0 \in Nat
      BY <1>4, SMT
    <2>2. IsSeq(h)
      <3>1. PICK k : k = 16 + n
        BY Zenon
      <3>2. IsSeq(Header(pdu, 0, k))
        BY <2>1, <3>1, HeaderOctets, SMT
      <3> QED
        BY <1>5, <3>1, <3>2, Zenon
    <2>3. IsSeq(ip)
      BY <1>2, Zenon DEF IsSeq
    <2>4. IsSeq(t)
      BY <1>5, Tuples, Zenon
    <2>5. IsSeq(u) /\ Len(u) = 4
      BY <1>5, U32Octets, Zenon
    <2> QED
      BY <2>2, <2>3, <2>4, <2>5, Zenon
  <1>8. Len(t) = 4 /\ t[1] = fl /\ t[2] = ln /\ t[3] = mx
    BY <1>5, SMT
  <1>9. PICK w, p : w = t \o ip /\ p = w \o u
    BY Zenon
  <1>10. IsSeq(w) /\ Len(w) = Len(t) + Len(ip)
    BY <1>7, <1>9, HoldsBoth, Zenon
  <1>11. IsSeq(p) /\ Len(p) = Len(w) + Len(u)
    BY <1>7, <1>9, <1>10, HoldsBoth, Zenon
  <1>12. Bytes(pdu) = h \o p
    <2>1. Same((h \o t) \o ip, h \o (t \o ip))
      BY <1>7, Assoc, Zenon
    <2>2. Same((h \o w) \o u, h \o (w \o u))
      BY <1>7, <1>10, Assoc, Zenon
    <2> QED
      BY <1>6, <1>9, <2>1, <2>2, Zenon DEF Same
  <1>13. Len(w) = n + 4 /\ Len(p) = n + 8
    <2>1. Len(w) = 4 + n /\ Len(p) = (4 + n) + 4
      BY <1>3, <1>7, <1>8, <1>10, <1>11, Zenon
    <2>2. 4 + n = n + 4 /\ (4 + n) + 4 = n + 8
      BY <1>4, SMT
    <2> QED
      BY <2>1, <2>2, Zenon
  <1>14. Frame(Bytes(pdu), pdu, 0, p)
    <2>1. 8 + Len(p) = 16 + n /\ 8 + Len(p) <= messageMaxSize /\ 0 \in Nat
      BY <1>4, <1>13, SMT DEF messageMaxSize
    <2> QED
      BY <1>5, <1>11, <1>12, <2>1, Zenon DEF Frame
  <1>15. Holds(p, 0, t) /\ Holds(p, 4, ip) /\ Holds(p, n + 4, u)
    <2>1. Holds(p, 0, p) /\ 0 \in Nat
      BY <1>11, HoldsAll, SMT
    <2>2. Holds(p, 0, w) /\ Holds(p, 0 + Len(w), u)
      BY <1>7, <1>9, <1>10, <1>11, <2>1, HoldsBoth, Zenon
    <2>3. Holds(p, 0, t) /\ Holds(p, 0 + Len(t), ip)
      BY <1>7, <1>9, <1>11, <2>1, <2>2, HoldsBoth, Zenon
    <2>4. 0 + Len(w) = n + 4 /\ 0 + Len(t) = 4
      BY <1>4, <1>8, <1>13, SMT
    <2> QED
      BY <2>2, <2>3, <2>4, Zenon
  <1>16. p[1] = fl /\ p[2] = ln /\ p[3] = mx
    BY <1>8, <1>15, SMT DEF Holds
  <1>17. SubSeq(p, 5, n + 4) = ip
    <2>1. 4 \in Nat /\ 4 + 1 = 5 /\ 4 + Len(ip) = n + 4
      BY <1>3, <1>4, SMT
    <2>2. SubSeq(p, 4 + 1, 4 + Len(ip)) = ip
      BY <1>7, <1>11, <1>15, <2>1, ReadAll, Zenon
    <2> QED
      BY <2>1, <2>2, Zenon
  <1>18. Uint32(p, AsnAt(n)) = aa
    <2>1. n + 4 \in Nat /\ (n + 4) + 1 = n + 5
      BY <1>4, SMT
    <2>2. Uint32(p, (n + 4) + 1) = aa
      BY <1>2, <1>5, <1>11, <1>15, <2>1, ReadU32, Zenon
    <2> QED
      BY <2>1, <2>2, Zenon DEF AsnAt
  <1>19. Received(pdu) = PduOf(ty, v, 0, 0, <<0, 0, 0>>, fl, ip, ln, mx, aa, << >>, << >>)
    <2>1. /\ pdu.times = <<0, 0, 0>> /\ pdu.copy = << >> /\ pdu.msg = << >>
          /\ pdu.serial = 0 /\ pdu.session = 0
      BY SMT DEF Writable
    <2>2. pdu = PduOf(ty, v, 0, 0, <<0, 0, 0>>, fl, ip, ln, mx, aa, << >>, << >>)
      BY <1>1, <2>1, PduFields, SMT DEF Writable
    <2> QED
      BY <2>2, ReceivedPdu, SMT
  <1>20. PICK q : q = PduOf(ty, v, 0, 0, <<0, 0, 0>>, 0, << >>, 0, 0, 0, << >>, << >>)
    BY Zenon
  <1>21. [NewPdu(pdu.type, pdu.version) EXCEPT !.session = 0] = q
    BY <1>1, <1>20, StartPdu, Zenon
  <1>22. DecodePayload(q, p) = DecodePrefix(q, p, n)
    <2>1. q.type = ty
      BY <1>20, GetField, SMT
    <2> QED
      BY <1>1, <1>4, <2>1, SMTT(30) DEF DecodePayload
  <1>23. DecodePrefix(q, p, n) =
           [q EXCEPT !.session = 0, !.flags = fl, !.len = ln, !.maxLen = mx, !.ip = ip, !.asn = aa]
    BY <1>13, <1>16, <1>17, <1>18, Zenon DEF DecodePrefix
  <1>24. DecodePrefix(q, p, n) =
           SetAsn(SetIp(SetMaxLen(SetLen(SetFlags(SetSession(q, 0), fl), ln), mx), ip), aa)
    BY <1>23, Zenon DEF SetAsn, SetIp, SetMaxLen, SetLen, SetFlags, SetSession
  <1>25. SetAsn(SetIp(SetMaxLen(SetLen(SetFlags(SetSession(q, 0), fl), ln), mx), ip), aa)
           = Received(pdu)
    <2>1. SetSession(q, 0) = PduOf(ty, v, 0, 0, <<0, 0, 0>>, 0, << >>, 0, 0, 0, << >>, << >>)
      BY <1>20, SetsSession, SMT
    <2>2. SetLen(SetFlags(SetSession(q, 0), fl), ln) =
            PduOf(ty, v, 0, 0, <<0, 0, 0>>, fl, << >>, ln, 0, 0, << >>, << >>)
      BY <2>1, SetsFlags, SetsLen, SMT
    <2>3. SetIp(SetMaxLen(SetLen(SetFlags(SetSession(q, 0), fl), ln), mx), ip) =
            PduOf(ty, v, 0, 0, <<0, 0, 0>>, fl, ip, ln, mx, 0, << >>, << >>)
      BY <2>2, SetsMaxLen, SetsIp, SMT
    <2> QED
      BY <1>19, <2>3, SetsAsn, SMT
  <1> QED
    BY <1>14, <1>21, <1>22, <1>24, <1>25, Zenon DEF Codes

\* The End of Data PDU, with intervals or without.
LEMMA CodesEndOfData ==
  ASSUME NEW pdu, Writable(pdu), pdu.type = END_OF_DATA
  PROVE  Codes(Bytes(pdu), pdu)
  <1>1. PICK ty, v, s, n, ts :
          ty = pdu.type /\ v = pdu.version /\ s = pdu.session /\ n = pdu.serial /\ ts = pdu.times
    BY Zenon
  <1>2. s \in Nat /\ n \in Nat /\ ts \in Nat \X Nat \X Nat
    BY <1>1, SMT DEF Writable, PduType
  <1>3. PICK a, b, c : a = ts[1] /\ b = ts[2] /\ c = ts[3]
    BY Zenon
  <1>4. a \in Nat /\ b \in Nat /\ c \in Nat /\ ts = <<a, b, c>>
    BY <1>2, <1>3, SMT
  <1>5. Bytes(pdu) = WriteEndOfData(pdu)
    BY DEF Bytes
  <1>6. Received(pdu) = PduOf(ty, v, s, n, IF v = 0 THEN <<0, 0, 0>> ELSE ts, 0, << >>, 0, 0, 0,
                              << >>, << >>)
    <2>1. /\ pdu.flags = 0 /\ pdu.ip = << >> /\ pdu.len = 0
          /\ pdu.maxLen = 0 /\ pdu.asn = 0 /\ pdu.copy = << >> /\ pdu.msg = << >>
      BY SMT DEF Writable
    <2>2. pdu = PduOf(ty, v, s, n, ts, 0, << >>, 0, 0, 0, << >>, << >>)
      BY <1>1, <2>1, PduFields, SMT DEF Writable
    <2> QED
      BY <2>2, ReceivedPdu, SMT
  <1>7. PICK q : q = PduOf(ty, v, s, 0, <<0, 0, 0>>, 0, << >>, 0, 0, 0, << >>, << >>)
    BY Zenon
  <1>8. [NewPdu(pdu.type, pdu.version) EXCEPT !.session = s] = q
    BY <1>1, <1>7, StartPdu, Zenon
  <1>9. \A p : DecodePayload(q, p) = DecodeEndOfData(q, p)
    <2>1. q.type = END_OF_DATA
      BY <1>1, <1>7, GetField, SMT
    <2> QED
      BY <2>1, SMTT(30) DEF DecodePayload
  <1>10. PICK u, x, y, z : u = U32(n) /\ x = U32(a) /\ y = U32(b) /\ z = U32(c)
    BY Zenon
  <1>11. IsSeq(u) /\ IsSeq(x) /\ IsSeq(y) /\ IsSeq(z)
    BY <1>10, U32Octets, Zenon
  <1>12. Len(u) = 4 /\ Len(x) = 4 /\ Len(y) = 4 /\ Len(z) = 4
    BY <1>10, U32Octets, Zenon
  <1>13. 0 \in Nat /\ 4 \in Nat /\ 8 \in Nat /\ 12 \in Nat /\ 16 \in Nat /\ 24 \in Nat
         /\ 0 + 1 = 1 /\ 4 + 1 = 5 /\ 8 + 1 = 9 /\ 12 + 1 = 13
         /\ 0 + 4 = 4 /\ 4 + 4 = 8 /\ 8 + 4 = 12 /\ 12 + 4 = 16 /\ 8 + 16 = 24
         /\ 0 + 8 = 8 /\ 0 + 12 = 12 /\ 4 # 16
    BY SMT
  <1>14. CASE v = 0
    <2>1. Bytes(pdu) = Header(pdu, s, 12) \o u
      BY <1>1, <1>5, <1>10, <1>14, Zenon DEF WriteEndOfData
    <2>2. Frame(Bytes(pdu), pdu, s, u)
      <3>1. 12 <= messageMaxSize
        BY SMT DEF messageMaxSize
      <3> QED
        BY <1>2, <1>11, <1>12, <1>13, <2>1, <3>1, Zenon DEF Frame
    <2>3. Uint32(u, 1) = n
      <3>1. Holds(u, 0, U32(n))
        BY <1>10, <1>11, HoldsAll, Zenon
      <3>2. Uint32(u, 0 + 1) = n
        BY <1>2, <1>11, <1>13, <3>1, ReadU32, Zenon
      <3> QED
        BY <1>13, <3>2, Zenon
    <2>4. DecodeEndOfData(q, u) = SetSerial(q, n)
      BY <1>12, <2>3, Zenon DEF DecodeEndOfData, SetSerial
    <2>5. SetSerial(q, n) = PduOf(ty, v, s, n, <<0, 0, 0>>, 0, << >>, 0, 0, 0, << >>, << >>)
      BY <1>7, SetsSerial, SMT
    <2>6. SetSerial(q, n) = Received(pdu)
      BY <1>6, <1>14, <2>5, Zenon
    <2> QED
      BY <1>8, <1>9, <2>2, <2>4, <2>6, Zenon DEF Codes
  <1>15. CASE v # 0
    <2>1. PICK h : h = Header(pdu, s, 24)
      BY Zenon
    <2>2. IsSeq(h)
      <3>1. IsSeq(Header(pdu, s, 24))
        BY <1>2, <1>13, HeaderIsSeq, Zenon
      <3> QED
        BY <2>1, <3>1, Zenon
    <2>3. Bytes(pdu) = (((h \o u) \o x) \o y) \o z
      BY <1>1, <1>3, <1>5, <1>10, <1>15, <2>1, Zenon DEF WriteEndOfData
    <2>4. PICK ux, uxy, p : ux = u \o x /\ uxy = ux \o y /\ p = uxy \o z
      BY Zenon
    <2>5. IsSeq(ux) /\ Len(ux) = Len(u) + Len(x)
      BY <1>11, <2>4, HoldsBoth, Zenon
    <2>6. IsSeq(uxy) /\ Len(uxy) = Len(ux) + Len(y)
      BY <1>11, <2>4, <2>5, HoldsBoth, Zenon
    <2>7. IsSeq(p) /\ Len(p) = Len(uxy) + Len(z)
      BY <1>11, <2>4, <2>6, HoldsBoth, Zenon
    <2>8. Len(ux) = 8 /\ Len(uxy) = 12 /\ Len(p) = 16
      BY <1>12, <1>13, <2>5, <2>6, <2>7, ZenonT(30)
    <2>9. Bytes(pdu) = h \o p
      <3>1. Same((h \o u) \o x, h \o (u \o x))
        BY <1>11, <2>2, Assoc, Zenon
      <3>2. Same((h \o ux) \o y, h \o (ux \o y))
        BY <1>11, <2>2, <2>5, Assoc, Zenon
      <3>3. Same((h \o uxy) \o z, h \o (uxy \o z))
        BY <1>11, <2>2, <2>6, Assoc, Zenon
      <3> QED
        BY <2>3, <2>4, <3>1, <3>2, <3>3, Zenon DEF Same
    <2>10. Frame(Bytes(pdu), pdu, s, p)
      <3>1. 24 <= messageMaxSize
        BY SMT DEF messageMaxSize
      <3> QED
        BY <1>2, <1>13, <2>1, <2>7, <2>8, <2>9, <3>1, Zenon DEF Frame
    <2>11. Holds(p, 0, u) /\ Holds(p, 4, x) /\ Holds(p, 8, y) /\ Holds(p, 12, z)
      <3>1. Holds(p, 0, p)
        BY <2>7, HoldsAll, Zenon
      <3>2. Holds(p, 0, uxy) /\ Holds(p, 0 + Len(uxy), z)
        BY <1>11, <1>13, <2>4, <2>6, <2>7, <3>1, HoldsBoth, Zenon
      <3>3. Holds(p, 0, ux) /\ Holds(p, 0 + Len(ux), y)
        BY <1>11, <1>13, <2>4, <2>5, <2>7, <3>2, HoldsBoth, Zenon
      <3>4. Holds(p, 0, u) /\ Holds(p, 0 + Len(u), x)
        BY <1>11, <1>13, <2>4, <2>7, <3>3, HoldsBoth, Zenon
      <3> QED
        BY <1>12, <1>13, <2>8, <3>2, <3>3, <3>4, Zenon
    <2>12. Uint32(p, 1) = n
      <3>1. Uint32(p, 0 + 1) = n
        BY <1>2, <1>10, <1>13, <2>7, <2>11, ReadU32, ZenonT(30)
      <3> QED
        BY <1>13, <3>1, Zenon
    <2>13. Uint32(p, 5) = a /\ Uint32(p, 9) = b /\ Uint32(p, 13) = c
      <3>1. Uint32(p, 4 + 1) = a
        BY <1>4, <1>10, <1>13, <2>7, <2>11, ReadU32, ZenonT(30)
      <3>2. Uint32(p, 8 + 1) = b
        BY <1>4, <1>10, <1>13, <2>7, <2>11, ReadU32, ZenonT(30)
      <3>3. Uint32(p, 12 + 1) = c
        BY <1>4, <1>10, <1>13, <2>7, <2>11, ReadU32, Zenon
      <3> QED
        BY <1>13, <3>1, <3>2, <3>3, Zenon
    <2>14. DecodeEndOfData(q, p) = [q EXCEPT !.serial = n, !.times = <<a, b, c>>]
      BY <1>13, <2>8, <2>12, <2>13, Zenon DEF DecodeEndOfData
    <2>15. DecodeEndOfData(q, p) = SetTimes(SetSerial(q, n), ts)
      BY <1>4, <2>14, Zenon DEF SetTimes, SetSerial
    <2>16. SetSerial(q, n) = PduOf(ty, v, s, n, <<0, 0, 0>>, 0, << >>, 0, 0, 0, << >>, << >>)
      BY <1>7, SetsSerial, SMT
    <2>17. SetTimes(SetSerial(q, n), ts) = PduOf(ty, v, s, n, ts, 0, << >>, 0, 0, 0, << >>, << >>)
      BY <2>16, SetsTimes, SMT
    <2>18. SetTimes(SetSerial(q, n), ts) = Received(pdu)
      BY <1>6, <1>15, <2>17, Zenon
    <2> QED
      BY <1>8, <1>9, <2>10, <2>15, <2>18, Zenon DEF Codes
  <1> QED
    BY <1>14, <1>15

\* The Error Report PDU: the octets of a copy and of a message, counted.
LEMMA CodesErrorReport ==
  ASSUME NEW pdu, Writable(pdu), pdu.type = ERROR_REPORT
  PROVE  Codes(Bytes(pdu), pdu)
  <1>1. PICK ty, v, s, cp, mg :
          ty = pdu.type /\ v = pdu.version /\ s = pdu.session /\ cp = pdu.copy /\ mg = pdu.msg
    BY Zenon
  <1>2. s \in Nat /\ cp \in Seq(Nat) /\ mg \in Seq(Nat)
    BY <1>1, SMT DEF Writable, PduType
  <1>3. PICK m : m = IF mg = << >> THEN << >> ELSE Append(mg, 0)
    BY Zenon
  <1>4. m \in Seq(Nat) /\ Len(m) <= Len(mg) + 1 /\ Len(m) \in Nat
    BY <1>2, <1>3, SMT
  <1>5. PICK i, j : i = Len(cp) /\ j = Len(m)
    BY Zenon
  <1>6. i \in Nat /\ j \in Nat
    <2>1. Len(cp) \in Nat
      BY <1>2, SMT
    <2> QED
      BY <1>4, <1>5, <2>1, Zenon
  <1>7. i + j + 16 <= messageMaxSize
    <2>1. PICK k : k = Len(mg)
      BY Zenon
    <2>2. k \in Nat /\ j <= k + 1
      BY <1>2, <1>4, <1>5, <2>1, SMT
    <2>3. i + k + 17 <= messageMaxSize
      BY <1>1, <1>5, <2>1, Zenon DEF Writable
    <2> QED
      BY <1>6, <2>2, <2>3, SMT DEF messageMaxSize
  <1>8. PICK h, x, y : h = Header(pdu, s, 12 + i + 4 + j) /\ x = U32(i) /\ y = U32(j)
    BY Zenon
  <1>9. Bytes(pdu) = (((h \o x) \o cp) \o y) \o m
    <2>1. Bytes(pdu) = WriteErrorReport(pdu)
      BY DEF Bytes
    <2> QED
      BY <1>1, <1>3, <1>5, <1>8, <2>1, Zenon DEF WriteErrorReport
  <1>10. IsSeq(x) /\ IsSeq(y) /\ IsSeq(cp) /\ IsSeq(m)
    <2>1. IsSeq(cp) /\ IsSeq(m)
      BY <1>2, <1>4, Zenon DEF IsSeq
    <2> QED
      BY <1>8, <2>1, U32Octets, Zenon
  <1>11. IsSeq(h)
    <2>1. PICK k : k = 12 + i + 4 + j
      BY Zenon
    <2>2. k \in Nat
      BY <1>6, <2>1, SMT
    <2>3. IsSeq(Header(pdu, s, k))
      BY <1>2, <2>2, HeaderIsSeq, Zenon
    <2> QED
      BY <1>8, <2>1, <2>3, Zenon
  <1>12. PICK xc, xcy, p : xc = x \o cp /\ xcy = xc \o y /\ p = xcy \o m
    BY Zenon
  <1>13. IsSeq(xc) /\ Len(xc) = Len(x) + Len(cp)
    BY <1>10, <1>12, HoldsBoth, Zenon
  <1>14. IsSeq(xcy) /\ Len(xcy) = Len(xc) + Len(y)
    BY <1>10, <1>12, <1>13, HoldsBoth, Zenon
  <1>15. IsSeq(p) /\ Len(p) = Len(xcy) + Len(m)
    BY <1>10, <1>12, <1>14, HoldsBoth, Zenon
  <1>16. Len(x) = 4 /\ Len(y) = 4
    BY <1>8, U32Octets, Zenon
  <1>17. Len(xc) = 4 + i /\ Len(xcy) = (4 + i) + 4 /\ Len(p) = ((4 + i) + 4) + j
    BY <1>5, <1>13, <1>14, <1>15, <1>16, Zenon
  <1>18. Bytes(pdu) = h \o p
    <2>1. Same((h \o x) \o cp, h \o (x \o cp))
      BY <1>10, <1>11, Assoc, Zenon
    <2>2. Same((h \o xc) \o y, h \o (xc \o y))
      BY <1>10, <1>11, <1>13, Assoc, Zenon
    <2>3. Same((h \o xcy) \o m, h \o (xcy \o m))
      BY <1>10, <1>11, <1>14, Assoc, Zenon
    <2> QED
      BY <1>9, <1>12, <2>1, <2>2, <2>3, Zenon DEF Same
  <1>19. Frame(Bytes(pdu), pdu, s, p)
    <2>1. /\ 8 + (((4 + i) + 4) + j) = 12 + i + 4 + j
          /\ 8 + (((4 + i) + 4) + j) <= messageMaxSize
      BY <1>6, <1>7, SMT DEF messageMaxSize
    <2> QED
      BY <1>2, <1>8, <1>15, <1>17, <1>18, <2>1, Zenon DEF Frame
  <1>20. /\ 0 \in Nat /\ 4 \in Nat /\ i + 4 \in Nat /\ i + 8 \in Nat
         /\ 0 + 1 = 1 /\ 4 + 1 = 5 /\ (i + 4) + 1 = i + 5 /\ (i + 8) + 1 = i + 9
         /\ 0 + 4 = 4 /\ 0 + (4 + i) = i + 4 /\ 0 + ((4 + i) + 4) = i + 8 /\ 4 + i = i + 4
         /\ (i + 8) + j = i + 8 + j /\ ((4 + i) + 4) + j = i + 8 + j
    BY <1>6, SMT
  <1>21. Holds(p, 0, x) /\ Holds(p, 4, cp) /\ Holds(p, i + 4, y) /\ Holds(p, i + 8, m)
    <2>1. Holds(p, 0, p)
      BY <1>15, HoldsAll, Zenon
    <2>2. Holds(p, 0, xcy) /\ Holds(p, 0 + Len(xcy), m)
      BY <1>10, <1>12, <1>14, <1>15, <1>20, <2>1, HoldsBoth, Zenon
    <2>3. Holds(p, 0, xc) /\ Holds(p, 0 + Len(xc), y)
      BY <1>10, <1>12, <1>13, <1>15, <1>20, <2>2, HoldsBoth, Zenon
    <2>4. Holds(p, 0, x) /\ Holds(p, 0 + Len(x), cp)
      BY <1>10, <1>12, <1>15, <1>20, <2>3, HoldsBoth, Zenon
    <2> QED
      BY <1>16, <1>17, <1>20, <2>2, <2>3, <2>4, Zenon
  <1>22. Uint32(p, 1) = i /\ Uint32(p, i + 5) = j
    <2>1. Uint32(p, 0 + 1) = i
      BY <1>6, <1>8, <1>15, <1>20, <1>21, ReadU32, Zenon
    <2>2. Uint32(p, (i + 4) + 1) = j
      BY <1>6, <1>8, <1>15, <1>20, <1>21, ReadU32, Zenon
    <2> QED
      BY <1>20, <2>1, <2>2, Zenon
  <1>23. SubSeq(p, 5, i + 4) = cp /\ SubSeq(p, i + 9, i + 8 + j) = m
    <2>1. SubSeq(p, 4 + 1, 4 + Len(cp)) = cp
      BY <1>10, <1>15, <1>20, <1>21, ReadAll, Zenon
    <2>2. SubSeq(p, (i + 8) + 1, (i + 8) + Len(m)) = m
      BY <1>10, <1>15, <1>20, <1>21, ReadAll, Zenon
    <2> QED
      BY <1>5, <1>20, <2>1, <2>2, Zenon
  <1>24. Received(pdu) = PduOf(ty, v, s, 0, <<0, 0, 0>>, 0, << >>, 0, 0, 0, cp, m)
    <2>1. /\ pdu.flags = 0 /\ pdu.ip = << >> /\ pdu.len = 0
          /\ pdu.maxLen = 0 /\ pdu.asn = 0 /\ pdu.times = <<0, 0, 0>> /\ pdu.serial = 0
      BY SMT DEF Writable
    <2>2. pdu = PduOf(ty, v, s, 0, <<0, 0, 0>>, 0, << >>, 0, 0, 0, cp, mg)
      BY <1>1, <2>1, PduFields, SMT DEF Writable
    <2> QED
      BY <1>3, <2>2, ReceivedPdu, SMT
  <1>25. PICK q : q = PduOf(ty, v, s, 0, <<0, 0, 0>>, 0, << >>, 0, 0, 0, << >>, << >>)
    BY Zenon
  <1>26. [NewPdu(pdu.type, pdu.version) EXCEPT !.session = s] = q
    BY <1>1, <1>25, StartPdu, Zenon
  <1>27. DecodePayload(q, p) = DecodeErrorReport(q, p)
    <2>1. q.type = ERROR_REPORT
      BY <1>1, <1>25, GetField, SMT
    <2> QED
      BY <2>1, SMTT(30) DEF DecodePayload
  <1>28. DecodeErrorReport(q, p) = [q EXCEPT !.copy = cp, !.msg = m]
    <2>1. Len(p) = i + 8 + j
      BY <1>17, <1>20, Zenon
    <2>2. ~(i + 8 + j < 8) /\ ~(i + 8 + j < i + 8) /\ ~(i + 8 + j < i + 8 + j)
      BY <1>6, SMT
    <2> QED
      BY <1>22, <1>23, <2>1, <2>2, Zenon DEF DecodeErrorReport
  <1>29. DecodeErrorReport(q, p) = SetMsg(SetCopy(q, cp), m)
    BY <1>28, Zenon DEF SetMsg, SetCopy
  <1>30. SetCopy(q, cp) = PduOf(ty, v, s, 0, <<0, 0, 0>>, 0, << >>, 0, 0, 0, cp, << >>)
    BY <1>25, SetsCopy, SMT
  <1>31. SetMsg(SetCopy(q, cp), m) = Received(pdu)
    BY <1>24, <1>30, SetsMsg, SMT
  <1> QED
    BY <1>19, <1>26, <1>27, <1>29, <1>31, Zenon DEF Codes

\* Whatever a program writes, Decode waits for all of it and for no more, and
\* reads it as it was written.
LEMMA BytesDecoded ==
  ASSUME NEW pdu, Writable(pdu), NEW w, w = Bytes(pdu)
  PROVE  Framed(w) /\ ReadAs(w, Received(pdu))
  <1>1. Codes(Bytes(pdu), pdu)
    <2>1. pdu.type \in {SERIAL_NOTIFY, SERIAL_QUERY, RESET_QUERY, CACHE_RESPONSE, IPV4_PREFIX,
                        IPV6_PREFIX, END_OF_DATA, CACHE_RESET, ERROR_REPORT}
      BY Zenon DEF Writable
    <2> QED
      BY <2>1, CodesSerial, CodesEmpty, CodesPrefix, CodesEndOfData, CodesErrorReport
  <1>2. PICK half, p :
          /\ Frame(w, pdu, half, p)
          /\ DecodePayload([NewPdu(pdu.type, pdu.version) EXCEPT !.session = half], p) = Received(pdu)
    BY <1>1, Zenon DEF Codes
  <1> QED
    BY <1>2, FrameDecoded, Zenon

\* Decode reads from the octets of a PDU the PDU, as the other side sees it:
\* Write and Decode of every type of PDU that the programs write fit.
THEOREM DecodesWhatIsWritten ==
  ASSUME NEW pdu, Writable(pdu)
  PROVE  Decode(Bytes(pdu)) = Received(pdu)
  <1>1. Framed(Bytes(pdu)) /\ ReadAs(Bytes(pdu), Received(pdu))
    BY BytesDecoded, Zenon
  <1>2. IsSeq(Bytes(pdu))
    BY <1>1, Zenon DEF Framed
  <1>3. Holds(Bytes(pdu), 0, Bytes(pdu))
    BY <1>2, HoldsAll, Zenon
  <1> QED
    BY <1>1, <1>2, <1>3, Zenon DEF ReadAs

-----------------------------------------------------------------------------
(* What the server writes. *)

\* The octets st are those of the PDUs se; the first i end at off[i].
Layout(off, se, st) ==
  /\ off \in [0 .. Len(se) -> Nat]
  /\ off[0] = 0 /\ off[Len(se)] = Len(st)
  /\ \A i \in 1 .. Len(se) : /\ off[i] = off[i - 1] + Len(Bytes(se[i]))
                             /\ Holds(st, off[i - 1], Bytes(se[i]))

\* What is there stays when more is written.
LEMMA HoldsMore ==
  ASSUME NEW b, NEW w, IsSeq(b), IsSeq(w), NEW n \in Nat, NEW s, IsSeq(s), Holds(b, n, s)
  PROVE  Holds(b \o w, n, s)
  <1>1. PICK c : c = b \o w
    BY Zenon
  <1>2. IsSeq(c) /\ Len(c) = Len(b) + Len(w) /\ Len(b) \in Nat /\ Len(w) \in Nat
    BY <1>1, HoldsBoth, Zenon
  <1>3. Holds(c, 0, b)
    <2>1. Holds(c, 0, c) /\ 0 \in Nat
      BY <1>2, HoldsAll, SMT
    <2> QED
      BY <1>1, <1>2, <2>1, HoldsBoth, Zenon
  <1>4. PICK S : s \in Seq(S)
    BY Zenon DEF IsSeq
  <1>5. PICK l, lb, lc : l = Len(s) /\ lb = Len(b) /\ lc = Len(c)
    BY Zenon
  <1>6. l \in Nat /\ lb \in Nat /\ lc \in Nat
    <2>1. Len(s) \in Nat
      BY <1>4, SMT
    <2>2. Len(c) \in Nat
      BY <1>2, HoldsAll, Zenon
    <2> QED
      BY <1>2, <1>5, <2>1, <2>2, Zenon
  <1>7. /\ n + l <= lb /\ \A k \in 1 .. l : b[n + k] = s[k]
        /\ lb <= lc /\ \A k \in 1 .. lb : c[k] = b[k]
    <2>1. /\ n + l <= lb /\ \A k \in 1 .. l : b[n + k] = s[k]
          /\ 0 + lb <= lc /\ \A k \in 1 .. lb : c[0 + k] = b[k]
      BY <1>3, <1>5, Zenon DEF Holds
    <2> QED
      BY <1>6, <2>1, SMT
  <1>8. n + l <= lc /\ \A k \in 1 .. l : c[n + k] = s[k]
    BY <1>6, <1>7, SMT
  <1> QED
    BY <1>1, <1>5, <1>8, Zenon DEF Holds

\* A PDU more, after the octets of the others.
LEMMA LayoutWrite ==
  ASSUME NEW off, NEW se, NEW st, IsSeq(se), IsSeq(st), Layout(off, se, st),
         \A i \in 1 .. Len(se) : Writable(se[i]), NEW pdu, Writable(pdu)
  PROVE  /\ IsSeq(st \o Bytes(pdu)) /\ Len(st \o Bytes(pdu)) >= Len(st)
         /\ \E o : /\ Layout(o, Append(se, pdu), st \o Bytes(pdu))
                   /\ \A i \in 0 .. Len(se) : o[i] = off[i]
  <1>1. PICK w, ns, nt, n : w = Bytes(pdu) /\ ns = Append(se, pdu) /\ nt = st \o w /\ n = Len(se)
    BY Zenon
  <1>2. IsSeq(w) /\ Len(w) \in Nat
    BY <1>1, BytesDecoded, Zenon DEF Framed
  <1>3. IsSeq(nt) /\ Len(nt) = Len(st) + Len(w) /\ Len(st) \in Nat
    BY <1>1, <1>2, HoldsBoth, Zenon
  <1>4. /\ IsSeq(ns) /\ n \in Nat /\ Len(ns) = n + 1
        /\ \A k \in 1 .. n + 1 : ns[k] = IF k <= n THEN se[k] ELSE pdu
    BY <1>1, AppendToSeq, Zenon
  <1>5. PICK a, b : a = Len(st) /\ b = Len(w)
    BY Zenon
  <1>6. a \in Nat /\ b \in Nat /\ Len(nt) = a + b
    BY <1>2, <1>3, <1>5, Zenon
  <1>7. /\ off \in [0 .. n -> Nat] /\ off[0] = 0 /\ off[n] = a
        /\ \A i \in 1 .. n : /\ off[i] = off[i - 1] + Len(Bytes(se[i]))
                             /\ Holds(st, off[i - 1], Bytes(se[i]))
    BY <1>1, <1>5, Zenon DEF Layout
  <1>8. PICK o : o = [i \in 0 .. n + 1 |-> IF i = n + 1 THEN a + b ELSE off[i]]
    BY Zenon
  <1>9. /\ o \in [0 .. n + 1 -> Nat] /\ o[0] = 0 /\ o[n + 1] = a + b
        /\ \A i \in 0 .. n : o[i] = off[i]
    BY <1>4, <1>6, <1>7, <1>8, SMT
  <1>10. ASSUME NEW i \in 1 .. n + 1
         PROVE  o[i] = o[i - 1] + Len(Bytes(ns[i])) /\ Holds(nt, o[i - 1], Bytes(ns[i]))
    <2>1. CASE i <= n
      <3>1. i \in 1 .. n /\ i \in 0 .. n /\ i - 1 \in 0 .. n /\ i \in 1 .. n + 1
        BY <1>4, <2>1, SMT
      <3>2. ns[i] = se[i] /\ o[i] = off[i] /\ o[i - 1] = off[i - 1]
        BY <1>4, <1>9, <2>1, <3>1, Zenon
      <3>3. off[i - 1] \in Nat
        BY <1>7, <3>1, SMT
      <3>4. IsSeq(Bytes(se[i]))
        BY <1>1, <3>1, BytesDecoded, Zenon DEF Framed
      <3>5. Holds(nt, off[i - 1], Bytes(se[i]))
        BY <1>1, <1>2, <1>7, <3>1, <3>3, <3>4, HoldsMore, Zenon
      <3> QED
        BY <1>7, <3>1, <3>2, <3>5, Zenon
    <2>2. CASE ~(i <= n)
      <3>1. i = n + 1 /\ i - 1 = n /\ n \in 0 .. n
        BY <1>4, <2>2, SMT
      <3>2. ns[i] = pdu /\ o[i] = a + b /\ o[i - 1] = a
        BY <1>4, <1>7, <1>9, <2>2, <3>1, Zenon
      <3>3. Holds(nt, a, w)
        <4>1. Holds(nt, 0, nt) /\ 0 \in Nat /\ 0 + a = a
          BY <1>3, <1>6, HoldsAll, SMT
        <4>2. Holds(nt, 0 + Len(st), w)
          BY <1>1, <1>2, <1>3, <4>1, HoldsBoth, Zenon
        <4> QED
          BY <1>5, <4>1, <4>2, Zenon
      <3> QED
        BY <1>1, <1>5, <3>2, <3>3, Zenon
    <2> QED
      BY <2>1, <2>2
  <1>11. Layout(o, ns, nt)
    BY <1>4, <1>6, <1>9, <1>10, Zenon DEF Layout
  <1>12. Len(nt) >= Len(st)
    <2>1. a + b >= a
      BY <1>6, SMT
    <2> QED
      BY <1>5, <1>6, <2>1, Zenon
  <1> QED
    BY <1>1, <1>3, <1>9, <1>11, <1>12, Zenon

\* The header of a PDU.
HeadOf(h, w) == h = SubSeq(w, 1, 8)

\* The header of what is there.
LEMMA HoldsHead ==
  ASSUME NEW b, NEW n \in Nat, NEW w, IsSeq(b), IsSeq(w), Holds(b, n, w), 8 <= Len(w),
         NEW h, HeadOf(h, w)
  PROVE  IsSeq(h) /\ Len(h) = 8 /\ Holds(b, n, h)
  <1>1. PICK W : w \in Seq(W)
    BY Zenon DEF IsSeq
  <1>2. PICK B : b \in Seq(B)
    BY Zenon DEF IsSeq
  <1>4. h \in Seq(W) /\ Len(h) = 8 /\ \A i \in 1 .. 8 : h[i] = w[i]
    BY <1>1, SMT DEF HeadOf
  <1>5. Holds(b, n, h)
    <2>1. PICK l, m : l = Len(w) /\ m = Len(b)
      BY Zenon
    <2>2. l \in Nat /\ m \in Nat
      BY <1>1, <1>2, <2>1, SMT
    <2>3. n + l <= m /\ 8 <= l /\ \A i \in 1 .. l : b[n + i] = w[i]
      BY <2>1, Zenon DEF Holds
    <2>4. n + 8 <= m /\ \A i \in 1 .. 8 : b[n + i] = w[i]
      BY <2>2, <2>3, SMT
    <2> QED
      BY <1>4, <2>1, <2>4, Zenon DEF Holds
  <1>6. IsSeq(h)
    BY <1>4, Zenon DEF IsSeq
  <1> QED
    BY <1>4, <1>5, <1>6, Zenon

\* What was read had arrived.
LEMMA Between ==
  ASSUME NEW r \in Nat, NEW a \in Nat, NEW l \in Nat, a - r >= l
  PROVE  r + l \in Nat /\ r + l <= a
  BY SMT

\* b is what has arrived of the octets st and is not decoded.
Arrived(b, st, r, a) == r <= a /\ a <= Len(st) /\ b = SubSeq(st, r + 1, a)

\* Decode, on what has arrived of the octets after those of the first n PDUs:
\* it waits unless all of the next one is there, and then reads that one.
LEMMA LayoutRead ==
  ASSUME NEW off, NEW se, NEW st, IsSeq(se), IsSeq(st), Layout(off, se, st),
         \A i \in 1 .. Len(se) : Writable(se[i]),
         NEW n \in Nat, n <= Len(se), NEW r \in Nat, r = off[n],
         NEW a \in Nat, NEW b, Arrived(b, st, r, a), Complete(b)
  PROVE  /\ n + 1 \in 1 .. Len(se)
         /\ Decode(b) = Received(se[n + 1])
         /\ off[n + 1] = r + Taken(b) /\ off[n + 1] \in Nat /\ off[n + 1] <= a
  <1>1. IsSeq(b) /\ Len(b) = a - r
    BY Piece, Zenon DEF Arrived
  <1>2. Len(b) >= 8
    BY Zenon DEF Complete
  <1>3. PICK k, m : k = Len(se) /\ m = Len(st)
    BY Zenon
  <1>4. k \in Nat /\ m \in Nat /\ n <= k /\ a <= m
    BY <1>3, HoldsAll, Zenon DEF Arrived
  <1>5. a - r >= 8
    BY <1>1, <1>2, Zenon
  <1>6. off \in [0 .. k -> Nat] /\ off[k] = m
    BY <1>3, Zenon DEF Layout
  <1>7. n + 1 \in 1 .. k /\ (n + 1) - 1 = n
    <2>1. n # k
      BY <1>4, <1>5, <1>6, SMT
    <2> QED
      BY <1>4, <2>1, SMT
  <1>8. PICK w : w = Bytes(se[n + 1])
    BY Zenon
  <1>9. Framed(w) /\ ReadAs(w, Received(se[n + 1]))
    BY <1>3, <1>7, <1>8, BytesDecoded, Zenon
  <1>10. off[n + 1] = r + Len(w) /\ Holds(st, r, w)
    BY <1>3, <1>7, <1>8, Zenon DEF Layout
  <1>11. PICK l : l = Len(w)
    BY Zenon
  <1>12. l \in Nat /\ 8 <= l /\ IsSeq(w)
    <2>1. l \in Nat /\ l >= 8 /\ IsSeq(w)
      BY <1>9, <1>11, Zenon DEF Framed
    <2> QED
      BY <2>1, SMT
  <1>13. PICK h : HeadOf(h, w)
    BY Zenon DEF HeadOf
  <1>14. 0 \in Nat /\ 8 \in Nat /\ 0 + 8 = 8 /\ r + 0 = r
    BY SMT
  <1>15. IsSeq(h) /\ Len(h) = 8 /\ Holds(st, r, h)
    <2>1. 8 <= Len(w)
      BY <1>12, <1>11, Zenon
    <2>2. Holds(st, r, w) /\ IsSeq(w)
      BY <1>10, <1>12
    <2> QED
      BY <1>13, <2>1, <2>2, HoldsHead, Zenon
  <1>17. Holds(b, 0, h)
    <2>1. 0 + Len(h) <= a - r
      BY <1>5, <1>14, <1>15, Zenon
    <2>2. Holds(st, r + 0, h)
      BY <1>14, <1>15, Zenon
    <2> QED
      BY <1>14, <1>15, <2>1, <2>2, HoldsPiece, Zenon DEF Arrived
  <1>18. Uint32(b, 5) = l /\ Len(b) >= l
    <2>1. Holds(b, 0, SubSeq(w, 1, 8))
      BY <1>13, <1>17, Zenon DEF HeadOf
    <2> QED
      BY <1>1, <1>2, <1>9, <1>11, <2>1, Zenon DEF Framed
  <1>19. a - r >= l
    BY <1>1, <1>18, Zenon
  <1>20. Holds(b, 0, w)
    <2>1. 0 + l <= a - r
      BY <1>12, <1>19, SMT
    <2>2. Holds(st, r + 0, w)
      BY <1>10, <1>14, Zenon
    <2>3. 0 + Len(w) <= a - r
      BY <1>11, <2>1, Zenon
    <2> QED
      BY <1>12, <1>14, <2>2, <2>3, HoldsPiece, Zenon DEF Arrived
  <1>21. Decode(b) = Received(se[n + 1])
    BY <1>1, <1>9, <1>20, Zenon DEF ReadAs
  <1>22. off[n + 1] = r + l /\ Taken(b) = l
    BY <1>10, <1>11, <1>18, Zenon DEF Taken
  <1>23. r + l \in Nat /\ r + l <= a
    BY <1>12, <1>19, Between, Zenon
  <1> QED
    BY <1>3, <1>7, <1>21, <1>22, <1>23, Zenon

\* The parameters of the PDUs are numbers.
LEMMA Numbers ==
  /\ Session \in Nat /\ Serial \in Nat /\ Times \in Nat \X Nat \X Nat
  /\ 0 + 0 + 17 <= messageMaxSize /\ 0 + 2 + 17 <= messageMaxSize
  BY SMT DEF Session, Serial, Times, messageMaxSize

\* When a PDU has the fields of its type.
OfType(ty, v, s, n, ts, fl, ip, ln, mx, aa, mg) ==
  /\ v \in Nat /\ s \in Nat /\ n \in Nat /\ ts \in Nat \X Nat \X Nat
  /\ fl \in Nat /\ ip \in Seq(Nat) /\ ln \in Nat /\ mx \in Nat /\ aa \in Nat /\ mg \in Seq(Nat)
  /\ ty \in {SERIAL_NOTIFY, SERIAL_QUERY, RESET_QUERY, CACHE_RESPONSE, IPV4_PREFIX,
             IPV6_PREFIX, END_OF_DATA, CACHE_RESET, ERROR_REPORT}
  /\ ty \in {RESET_QUERY, CACHE_RESET, IPV4_PREFIX, IPV6_PREFIX} => s = 0
  /\ ty \notin {SERIAL_NOTIFY, SERIAL_QUERY, END_OF_DATA} => n = 0
  /\ ty # END_OF_DATA => ts = <<0, 0, 0>>
  /\ ty \notin {IPV4_PREFIX, IPV6_PREFIX} =>
       fl = 0 /\ ip = << >> /\ ln = 0 /\ mx = 0 /\ aa = 0
  /\ ty = IPV4_PREFIX => Len(ip) = 4
  /\ ty = IPV6_PREFIX => Len(ip) = 16
  /\ ty # ERROR_REPORT => mg = << >>
  /\ Len(mg) <= 2

\* Such a PDU can be written.
LEMMA OfTypeWritable ==
  ASSUME NEW ty, NEW v, NEW s, NEW n, NEW ts, NEW fl, NEW ip, NEW ln, NEW mx, NEW aa, NEW mg,
         OfType(ty, v, s, n, ts, fl, ip, ln, mx, aa, mg)
  PROVE  Writable(PduOf(ty, v, s, n, ts, fl, ip, ln, mx, aa, << >>, mg))
  <1>1. PICK e : e = << >>
    BY Zenon
  <1>2. PICK pdu : pdu = PduOf(ty, v, s, n, ts, fl, ip, ln, mx, aa, e, mg)
    BY Zenon
  <1>3. /\ pdu.type = ty /\ pdu.version = v /\ pdu.session = s /\ pdu.serial = n
        /\ pdu.times = ts /\ pdu.flags = fl /\ pdu.ip = ip /\ pdu.len = ln
        /\ pdu.maxLen = mx /\ pdu.asn = aa /\ pdu.copy = e /\ pdu.msg = mg
    BY <1>2, GetField, SMTT(30)
  <1>4. pdu \in PduType
    <2>1. /\ v \in Nat /\ s \in Nat /\ n \in Nat /\ ts \in Nat \X Nat \X Nat
          /\ fl \in Nat /\ ip \in Seq(Nat) /\ ln \in Nat /\ mx \in Nat /\ aa \in Nat
          /\ mg \in Seq(Nat)
      BY Zenon DEF OfType
    <2>2. ty \in Nat
      BY SMT DEF OfType
    <2>3. e \in Seq(Nat)
      BY <1>1, SMT
    <2> QED
      BY <1>2, <2>1, <2>2, <2>3, SMT DEF PduType, PduOf
  <1>5. Len(e) + Len(mg) + 17 <= messageMaxSize
    <2>1. mg \in Seq(Nat) /\ Len(mg) <= 2
      BY Zenon DEF OfType
    <2> QED
      BY <1>1, <2>1, SMT DEF messageMaxSize
  <1>6. Writable(pdu)
    <2>1. pdu.type \in {SERIAL_NOTIFY, SERIAL_QUERY, RESET_QUERY, CACHE_RESPONSE, IPV4_PREFIX,
                   IPV6_PREFIX, END_OF_DATA, CACHE_RESET, ERROR_REPORT}
      BY <1>3, SMT DEF OfType
    <2>2. pdu.type \in {RESET_QUERY, CACHE_RESET, IPV4_PREFIX, IPV6_PREFIX} => pdu.session = 0
      BY <1>3, SMT DEF OfType
    <2>3. pdu.type \notin {SERIAL_NOTIFY, SERIAL_QUERY, END_OF_DATA} => pdu.serial = 0
      BY <1>3, SMT DEF OfType
    <2>4. pdu.type # END_OF_DATA => pdu.times = <<0, 0, 0>>
      BY <1>3, Zenon DEF OfType
    <2>5. pdu.type \notin {IPV4_PREFIX, IPV6_PREFIX} =>
            pdu.flags = 0 /\ pdu.ip = << >> /\ pdu.len = 0 /\ pdu.maxLen = 0 /\ pdu.asn = 0
      BY <1>3, Zenon DEF OfType
    <2>6. /\ pdu.type = IPV4_PREFIX => Len(pdu.ip) = 4
          /\ pdu.type = IPV6_PREFIX => Len(pdu.ip) = 16
      BY <1>3, Zenon DEF OfType
    <2>7. pdu.type # ERROR_REPORT => pdu.copy = << >> /\ pdu.msg = << >>
      <3>1. ty # ERROR_REPORT => mg = << >>
        BY Zenon DEF OfType
      <3> QED
        BY <1>1, <1>3, <3>1, SMT
    <2>8. Len(pdu.copy) + Len(pdu.msg) + 17 <= messageMaxSize
      BY <1>3, <1>5, Zenon
    <2> QED
      BY <1>4, <2>1, <2>2, <2>3, <2>4, <2>5, <2>6, <2>7, <2>8, Zenon DEF Writable
  <1> QED
    BY <1>1, <1>2, <1>6, Zenon

\* The PDUs of the server, field by field.
LEMMA ServerPdus ==
  ASSUME NEW v
  PROVE  /\ [NewPdu(SERIAL_NOTIFY, v) EXCEPT !.session = Session, !.serial = Serial] =
              PduOf(SERIAL_NOTIFY, v, Session, Serial, <<0, 0, 0>>, 0, << >>, 0, 0, 0, << >>, << >>)
         /\ [NewPdu(CACHE_RESPONSE, v) EXCEPT !.session = Session] =
              PduOf(CACHE_RESPONSE, v, Session, 0, <<0, 0, 0>>, 0, << >>, 0, 0, 0, << >>, << >>)
         /\ [NewPdu(END_OF_DATA, v) EXCEPT !.session = Session, !.serial = Serial, !.times = Times] =
              PduOf(END_OF_DATA, v, Session, Serial, Times, 0, << >>, 0, 0, 0, << >>, << >>)
         /\ [NewPdu(ERROR_REPORT, v) EXCEPT !.session = 2, !.msg = <<78, 111>>] =
              PduOf(ERROR_REPORT, v, 2, 0, <<0, 0, 0>>, 0, << >>, 0, 0, 0, << >>, <<78, 111>>)
         /\ NewPdu(CACHE_RESET, v) =
              PduOf(CACHE_RESET, v, 0, 0, <<0, 0, 0>>, 0, << >>, 0, 0, 0, << >>, << >>)
  <1>1. \A ty, s : SetSession(NewPdu(ty, v), s) =
                     PduOf(ty, v, s, 0, <<0, 0, 0>>, 0, << >>, 0, 0, 0, << >>, << >>)
    BY StartPdu, Zenon DEF SetSession
  <1>2. [NewPdu(CACHE_RESPONSE, v) EXCEPT !.session = Session] =
              PduOf(CACHE_RESPONSE, v, Session, 0, <<0, 0, 0>>, 0, << >>, 0, 0, 0, << >>, << >>)
    BY StartPdu, Zenon
  <1>3. \A ty : SetSerial(SetSession(NewPdu(ty, v), Session), Serial) =
                  PduOf(ty, v, Session, Serial, <<0, 0, 0>>, 0, << >>, 0, 0, 0, << >>, << >>)
    BY <1>1, SetsSerial, SMT
  <1>4. [NewPdu(SERIAL_NOTIFY, v) EXCEPT !.session = Session, !.serial = Serial] =
          SetSerial(SetSession(NewPdu(SERIAL_NOTIFY, v), Session), Serial)
    BY Zenon DEF SetSerial, SetSession
  <1>5. [NewPdu(END_OF_DATA, v) EXCEPT !.session = Session, !.serial = Serial, !.times = Times] =
          SetTimes(SetSerial(SetSession(NewPdu(END_OF_DATA, v), Session), Serial), Times)
    BY Zenon DEF SetSerial, SetSession, SetTimes
  <1>6. SetTimes(SetSerial(SetSession(NewPdu(END_OF_DATA, v), Session), Serial), Times) =
          PduOf(END_OF_DATA, v, Session, Serial, Times, 0, << >>, 0, 0, 0, << >>, << >>)
    BY <1>3, SetsTimes, SMT
  <1>7. [NewPdu(ERROR_REPORT, v) EXCEPT !.session = 2, !.msg = <<78, 111>>] =
          SetMsg(SetSession(NewPdu(ERROR_REPORT, v), 2), <<78, 111>>)
    BY Zenon DEF SetMsg, SetSession
  <1>8. SetMsg(SetSession(NewPdu(ERROR_REPORT, v), 2), <<78, 111>>) =
          PduOf(ERROR_REPORT, v, 2, 0, <<0, 0, 0>>, 0, << >>, 0, 0, 0, << >>, <<78, 111>>)
    BY <1>1, SetsMsg, SMT
  <1>9. NewPdu(CACHE_RESET, v) =
          PduOf(CACHE_RESET, v, 0, 0, <<0, 0, 0>>, 0, << >>, 0, 0, 0, << >>, << >>)
    BY Zenon DEF NewPdu, PduOf
  <1> QED
    BY <1>2, <1>3, <1>4, <1>5, <1>6, <1>7, <1>8, <1>9, Zenon

\* SendVRP.
LEMMA ServerPrefix ==
  ASSUME NEW v, NEW vrp, NEW ty, ty = IF Len(vrp.ip) = 4 THEN IPV4_PREFIX ELSE IPV6_PREFIX
  PROVE  SendVRP(v, vrp) = PduOf(ty, v, 0, 0, <<0, 0, 0>>, vrp.flags, vrp.ip, vrp.len,
                                 vrp.maxLen, vrp.asn, << >>, << >>)
  <1>1. PICK fl, ip, ln, mx, aa : fl = vrp.flags /\ ip = vrp.ip /\ ln = vrp.len
                                  /\ mx = vrp.maxLen /\ aa = vrp.asn
    BY Zenon
  <1>2. SendVRP(v, vrp) = SetAsn(SetMaxLen(SetLen(SetIp(SetFlags(NewPdu(ty, v), fl), ip), ln), mx), aa)
    <2>1. SendVRP(v, vrp) =
            [NewPdu(ty, v) EXCEPT !.flags = fl, !.ip = ip, !.len = ln, !.maxLen = mx, !.asn = aa]
      BY <1>1, Zenon DEF SendVRP
    <2> QED
      BY <2>1, Zenon DEF SetAsn, SetMaxLen, SetLen, SetIp, SetFlags
  <1>3. NewPdu(ty, v) = PduOf(ty, v, 0, 0, <<0, 0, 0>>, 0, << >>, 0, 0, 0, << >>, << >>)
    BY Zenon DEF NewPdu, PduOf
  <1>4. SetIp(SetFlags(NewPdu(ty, v), fl), ip) =
          PduOf(ty, v, 0, 0, <<0, 0, 0>>, fl, ip, 0, 0, 0, << >>, << >>)
    BY <1>3, SetsFlags, SetsIp, SMT
  <1>5. SetMaxLen(SetLen(SetIp(SetFlags(NewPdu(ty, v), fl), ip), ln), mx) =
          PduOf(ty, v, 0, 0, <<0, 0, 0>>, fl, ip, ln, mx, 0, << >>, << >>)
    BY <1>4, SetsLen, SetsMaxLen, SMT
  <1>6. SetAsn(SetMaxLen(SetLen(SetIp(SetFlags(NewPdu(ty, v), fl), ip), ln), mx), aa) =
          PduOf(ty, v, 0, 0, <<0, 0, 0>>, fl, ip, ln, mx, aa, << >>, << >>)
    BY <1>5, SetsAsn, SMT
  <1> QED
    BY <1>1, <1>2, <1>6, Zenon

\* An answer of the server: an error or a reset, or all VRPs between a Cache
\* Response and an End of Data; or none yet.
IsAnswer(ans) ==
  /\ IsSeq(ans)
  /\ \A i \in 1 .. Len(ans) : Writable(ans[i])
  /\ \/ \A i \in 1 .. Len(ans) : ans[i].type \in {ERROR_REPORT, CACHE_RESET}
     \/ /\ Len(ans) = Len(Vrps) + 2
        /\ ans[1].type = CACHE_RESPONSE
        /\ \A i \in 1 .. Len(Vrps) : /\ ans[i + 1].type \in {IPV4_PREFIX, IPV6_PREFIX}
                                     /\ Entry(ans[i + 1]) = Entry(Vrps[i])
        /\ ans[Len(Vrps) + 2].type = END_OF_DATA

\* One PDU that ends the exchange is an answer.
LEMMA AnswerOne ==
  ASSUME NEW pdu, Writable(pdu), pdu.type \in {ERROR_REPORT, CACHE_RESET}
  PROVE  IsAnswer(<<pdu>>) /\ IsAnswer(<< >>)
  <1>1. IsSeq(<<pdu>>) /\ IsSeq(<< >>)
    BY Tuples, Zenon
  <1>2. Len(<<pdu>>) = 1 /\ <<pdu>>[1] = pdu /\ Len(<< >>) = 0
    BY SMT
  <1>3. (\A i \in 1 .. 1 : i = 1) /\ ~\E i \in 1 .. 0 : TRUE
    BY SMT
  <1>4. IsAnswer(<<pdu>>)
    <2>1. \A i \in 1 .. Len(<<pdu>>) : <<pdu>>[i] = pdu
      BY <1>2, <1>3, Zenon
    <2> QED
      BY <1>1, <2>1, Zenon DEF IsAnswer
  <1>5. IsAnswer(<< >>)
    BY <1>1, <1>2, <1>3, Zenon DEF IsAnswer
  <1> QED
    BY <1>4, <1>5

\* The octets and numbers of a VRP.
LEMMA VrpFields ==
  ASSUME NEW i \in 1 .. Len(Vrps)
  PROVE  /\ Vrps[i].ip \in Seq(Nat) /\ Len(Vrps[i].ip) \in {4, 16} /\ Vrps[i].len \in Nat
         /\ Vrps[i].maxLen \in Nat /\ Vrps[i].asn \in Nat /\ Vrps[i].flags \in Nat
  <1>1. PICK R : R = [ip : Seq(0 .. 255), len : 0 .. 255, maxLen : 0 .. 255, asn : Nat,
                      flags : 0 .. 255]
    BY Zenon
  <1>2. Vrps \in Seq(R)
    BY <1>1, DumpAssumption, Zenon
  <1>3. Vrps[i] \in R /\ i \in DOMAIN Vrps
    BY <1>2, SMTT(30)
  <1>4. /\ Vrps[i].ip \in Seq(0 .. 255) /\ Vrps[i].len \in 0 .. 255
        /\ Vrps[i].maxLen \in 0 .. 255 /\ Vrps[i].asn \in Nat /\ Vrps[i].flags \in 0 .. 255
    BY <1>1, <1>3, SMT
  <1>5. Len(Vrps[i].ip) \in {4, 16}
    BY <1>3, DumpAssumption, Zenon
  <1>6. Vrps[i].ip \in Seq(Nat)
    <2>1. ASSUME NEW O, NEW Q, O \subseteq Q, NEW s \in Seq(O)
          PROVE  s \in Seq(Q)
      BY <2>1, SMT
    <2>2. PICK O, x : O = 0 .. 255 /\ x = Vrps[i].ip
      BY Zenon
    <2>3. O \subseteq Nat
      BY <2>2, SMT
    <2>4. x \in Seq(O)
      BY <1>4, <2>2, Zenon
    <2>5. x \in Seq(Nat)
      BY <2>1, <2>3, <2>4, Zenon
    <2> QED
      BY <2>2, <2>5, Zenon
  <1>7. \A n : n \in 0 .. 255 => n \in Nat
    BY SMT
  <1> QED
    BY <1>4, <1>5, <1>6, <1>7, Zenon

\* The PDU of a VRP has its entry.
LEMMA PrefixOK ==
  ASSUME NEW v \in Nat, NEW i \in 1 .. Len(Vrps)
  PROVE  /\ Writable(SendVRP(v, Vrps[i]))
         /\ SendVRP(v, Vrps[i]).type \in {IPV4_PREFIX, IPV6_PREFIX}
         /\ Entry(SendVRP(v, Vrps[i])) = Entry(Vrps[i])
  <1>1. PICK fl, ip, ln, mx, aa :
          fl = Vrps[i].flags /\ ip = Vrps[i].ip /\ ln = Vrps[i].len /\ mx = Vrps[i].maxLen
          /\ aa = Vrps[i].asn
    BY Zenon
  <1>2. /\ ip \in Seq(Nat) /\ Len(ip) \in {4, 16} /\ ln \in Nat
        /\ mx \in Nat /\ aa \in Nat /\ fl \in Nat
    BY <1>1, VrpFields, Zenon
  <1>3. PICK ty : ty = IF Len(ip) = 4 THEN IPV4_PREFIX ELSE IPV6_PREFIX
    BY Zenon
  <1>4. PICK z, e : z = <<0, 0, 0>> /\ e = << >>
    BY Zenon
  <1>5. SendVRP(v, Vrps[i]) = PduOf(ty, v, 0, 0, z, fl, ip, ln, mx, aa, e, e)
    BY <1>1, <1>3, <1>4, ServerPrefix, Zenon
  <1>6. OfType(ty, v, 0, 0, z, fl, ip, ln, mx, aa, e)
    <2>1. /\ ty \in {IPV4_PREFIX, IPV6_PREFIX}
          /\ (ty = IPV4_PREFIX => Len(ip) = 4) /\ (ty = IPV6_PREFIX => Len(ip) = 16)
      BY <1>2, <1>3, SMT
    <2>2. 0 \in Nat /\ z \in Nat \X Nat \X Nat /\ e \in Seq(Nat) /\ Len(e) <= 2
      BY <1>4, SMT
    <2> QED
      BY <1>2, <1>4, <2>1, <2>2, SMT DEF OfType
  <1>7. Writable(SendVRP(v, Vrps[i]))
    BY <1>4, <1>5, <1>6, OfTypeWritable, SMT
  <1>8. PICK pdu : pdu = PduOf(ty, v, 0, 0, z, fl, ip, ln, mx, aa, e, e)
    BY Zenon
  <1>9. pdu.type = ty /\ pdu.ip = ip /\ pdu.len = ln /\ pdu.maxLen = mx /\ pdu.asn = aa
    BY <1>8, GetField, SMT
  <1>10. Entry(pdu) = Entry(Vrps[i])
    BY <1>1, <1>9, Zenon DEF Entry
  <1>11. ty \in {IPV4_PREFIX, IPV6_PREFIX}
    BY <1>3, Zenon
  <1> QED
    BY <1>5, <1>7, <1>8, <1>9, <1>10, <1>11, Zenon

\* sendVRPs, SendNoDataError and SendCacheReset.
LEMMA Answers ==
  ASSUME NEW v \in Nat
  PROVE  /\ IsAnswer(SendVRPs(v)) /\ IsAnswer(SendNoDataError(v)) /\ IsAnswer(SendCacheReset(v))
         /\ IsAnswer(<< >>)
         /\ Writable([NewPdu(SERIAL_NOTIFY, v) EXCEPT !.session = Session, !.serial = Serial])
  <1>1. PICK z, e, m : z = <<0, 0, 0>> /\ e = << >> /\ m = <<78, 111>>
    BY Zenon
  <1>2. PICK ses, ser, tim : ses = Session /\ ser = Serial /\ tim = Times
    BY Zenon
  <1>3. ses \in Nat /\ ser \in Nat /\ tim \in Nat \X Nat \X Nat
    BY <1>2, Numbers, Zenon
  <1>4. /\ z \in Nat \X Nat \X Nat /\ e \in Seq(Nat) /\ m \in Seq(Nat) /\ Len(e) <= 2 /\ Len(m) <= 2
        /\ 0 \in Nat /\ 2 \in Nat
    BY <1>1, SMT
  <1>5. /\ OfType(SERIAL_NOTIFY, v, ses, ser, z, 0, e, 0, 0, 0, e)
        /\ OfType(CACHE_RESPONSE, v, ses, 0, z, 0, e, 0, 0, 0, e)
        /\ OfType(END_OF_DATA, v, ses, ser, tim, 0, e, 0, 0, 0, e)
        /\ OfType(CACHE_RESET, v, 0, 0, z, 0, e, 0, 0, 0, e)
    BY <1>1, <1>3, <1>4, SMT DEF OfType
  <1>6. OfType(ERROR_REPORT, v, 2, 0, z, 0, e, 0, 0, 0, m)
    BY <1>1, <1>3, <1>4, SMT DEF OfType
  <1>7. PICK nt, cr, ed, er, rs :
          /\ nt = PduOf(SERIAL_NOTIFY, v, ses, ser, z, 0, e, 0, 0, 0, e, e)
          /\ cr = PduOf(CACHE_RESPONSE, v, ses, 0, z, 0, e, 0, 0, 0, e, e)
          /\ ed = PduOf(END_OF_DATA, v, ses, ser, tim, 0, e, 0, 0, 0, e, e)
          /\ er = PduOf(ERROR_REPORT, v, 2, 0, z, 0, e, 0, 0, 0, e, m)
          /\ rs = PduOf(CACHE_RESET, v, 0, 0, z, 0, e, 0, 0, 0, e, e)
    BY Zenon
  <1>8. Writable(nt) /\ Writable(cr) /\ Writable(ed) /\ Writable(er) /\ Writable(rs)
    BY <1>1, <1>5, <1>6, <1>7, OfTypeWritable, SMTT(30)
  <1>9. /\ nt.type = SERIAL_NOTIFY /\ cr.type = CACHE_RESPONSE /\ ed.type = END_OF_DATA
        /\ er.type = ERROR_REPORT /\ rs.type = CACHE_RESET
    BY <1>7, GetField, SMT
  <1>10. /\ nt = [NewPdu(SERIAL_NOTIFY, v) EXCEPT !.session = Session, !.serial = Serial]
         /\ cr = [NewPdu(CACHE_RESPONSE, v) EXCEPT !.session = Session]
         /\ ed = [NewPdu(END_OF_DATA, v) EXCEPT !.session = Session, !.serial = Serial, !.times = Times]
         /\ er = [NewPdu(ERROR_REPORT, v) EXCEPT !.session = 2, !.msg = <<78, 111>>]
         /\ rs = NewPdu(CACHE_RESET, v)
    BY <1>1, <1>2, <1>7, ServerPdus, ZenonT(30)
  <1>11. SendNoDataError(v) = <<er>> /\ SendCacheReset(v) = <<rs>>
    BY <1>10, Zenon DEF SendNoDataError, SendCacheReset
  <1>12. IsAnswer(<<er>>) /\ IsAnswer(<<rs>>) /\ IsAnswer(<< >>)
    BY <1>8, <1>9, AnswerOne, Zenon
  <1>13. IsAnswer(SendVRPs(v))
    <2>1. PICK n, f : n = Len(Vrps) /\ f = [i \in DOMAIN Vrps |-> SendVRP(v, Vrps[i])]
      BY Zenon
    <2>2. n \in Nat /\ DOMAIN Vrps = 1 .. n
      <3>1. PICK R : Vrps \in Seq(R)
        BY DumpAssumption, Zenon
      <3> QED
        BY <2>1, <3>1, SMT
    <2>3. IsSeq(f) /\ Len(f) = n /\ \A i \in 1 .. n : f[i] = SendVRP(v, Vrps[i])
      <3>1. f = [i \in 1 .. n |-> SendVRP(v, Vrps[i])]
        BY <2>1, <2>2, Zenon
      <3>2. PICK F : F = {SendVRP(v, Vrps[i]) : i \in 1 .. n}
        BY Zenon
      <3>3. f \in Seq(F) /\ Len(f) = n /\ \A i \in 1 .. n : f[i] = SendVRP(v, Vrps[i])
        BY <2>2, <3>1, <3>2, SMT
      <3> QED
        BY <3>3, Zenon DEF IsSeq
    <2>4. PICK s, t : s = <<cr>> /\ t = <<ed>>
      BY Zenon
    <2>5. PICK sf, ans : sf = s \o f /\ ans = sf \o t
      BY Zenon
    <2>6. SendVRPs(v) = ans
      BY <1>10, <2>1, <2>4, <2>5, Zenon DEF SendVRPs
    <2>7. IsSeq(s) /\ IsSeq(t)
      BY <2>4, Tuples, Zenon
    <2>8. Len(s) = 1 /\ s[1] = cr /\ Len(t) = 1 /\ t[1] = ed
      BY <2>4, SMT
    <2>9. IsSeq(sf) /\ Len(sf) = Len(s) + Len(f)
      BY <2>3, <2>5, <2>7, HoldsBoth, Zenon
    <2>10. IsSeq(ans) /\ Len(ans) = Len(sf) + Len(t)
      BY <2>5, <2>7, <2>9, HoldsBoth, Zenon
    <2>11. Len(sf) = 1 + n /\ Len(ans) = (1 + n) + 1
      BY <2>3, <2>8, <2>9, <2>10, Zenon
    <2>12. 0 \in Nat /\ 0 + 1 = 1 /\ 0 + (1 + n) = 1 + n /\ (1 + n) + 1 = n + 2
      BY <2>2, SMT
    <2>13. Holds(ans, 0, ans)
      BY <2>10, HoldsAll, Zenon
    <2>14. Holds(ans, 0, sf) /\ Holds(ans, 0 + Len(sf), t)
      BY <2>5, <2>7, <2>9, <2>10, <2>12, <2>13, HoldsBoth, Zenon
    <2>15. Holds(ans, 0, s) /\ Holds(ans, 0 + Len(s), f)
      BY <2>3, <2>5, <2>7, <2>10, <2>12, <2>14, HoldsBoth, Zenon
    <2>16. ans[1] = cr
      <3>1. \A k \in 1 .. Len(s) : ans[0 + k] = s[k]
        BY <2>15, Zenon DEF Holds
      <3>2. 1 \in 1 .. 1 /\ 0 + 1 = 1
        BY SMT
      <3>3. ans[0 + 1] = s[1]
        BY <2>8, <3>1, <3>2, Zenon
      <3> QED
        BY <2>8, <3>2, <3>3, Zenon
    <2>17. \A k \in 1 .. n : ans[k + 1] = SendVRP(v, Vrps[k])
      <3>1. \A k \in 1 .. Len(f) : ans[(0 + Len(s)) + k] = f[k]
        BY <2>15, Zenon DEF Holds
      <3>2. \A k \in 1 .. n : (0 + 1) + k = k + 1
        BY <2>2, SMT
      <3> QED
        BY <2>3, <2>8, <3>1, <3>2, ZenonT(30)
    <2>20. ans[n + 2] = ed
      <3>1. \A k \in 1 .. Len(t) : ans[(0 + Len(sf)) + k] = t[k]
        BY <2>14, Zenon DEF Holds
      <3>2. 1 \in 1 .. 1 /\ (0 + (1 + n)) + 1 = n + 2
        BY <2>2, SMT
      <3> QED
        BY <2>8, <2>11, <3>1, <3>2, Zenon
    <2>18. \A k \in 1 .. n : /\ Writable(ans[k + 1])
                             /\ ans[k + 1].type \in {IPV4_PREFIX, IPV6_PREFIX}
                             /\ Entry(ans[k + 1]) = Entry(Vrps[k])
      BY <2>1, <2>17, PrefixOK, Zenon
    <2>19. \A i \in 1 .. n + 2 : Writable(ans[i])
      <3>1. ASSUME NEW i \in 1 .. n + 2, i # 1, i # n + 2
            PROVE  i - 1 \in 1 .. n /\ (i - 1) + 1 = i
        BY <2>2, <3>1, SMT
      <3> QED
        BY <1>8, <2>16, <2>20, <2>18, <3>1, Zenon
    <2> QED
      BY <1>9, <2>1, <2>6, <2>10, <2>11, <2>12, <2>16, <2>20, <2>18, <2>19, Zenon DEF IsAnswer
  <1> QED
    BY <1>8, <1>10, <1>11, <1>12, <1>13, Zenon

\* What the other side sees has the type, the version and the entry.
LEMMA ReceivedSame ==
  ASSUME NEW pdu, Writable(pdu)
  PROVE  /\ Received(pdu).type = pdu.type /\ Received(pdu).version = pdu.version
         /\ Entry(Received(pdu)) = Entry(pdu)
         /\ Received(pdu) # Malformed
  <1>1. PICK ty, v, s, n, ts, fl, ip, ln, mx, aa, cp, mg :
          /\ ty = pdu.type /\ v = pdu.version /\ s = pdu.session /\ n = pdu.serial
          /\ ts = pdu.times /\ fl = pdu.flags /\ ip = pdu.ip /\ ln = pdu.len
          /\ mx = pdu.maxLen /\ aa = pdu.asn /\ cp = pdu.copy /\ mg = pdu.msg
    BY Zenon
  <1>2. pdu = PduOf(ty, v, s, n, ts, fl, ip, ln, mx, aa, cp, mg)
    BY <1>1, PduFields, Zenon DEF Writable
  <1>3. \E t, m : Received(pdu) = PduOf(ty, v, s, n, t, fl, ip, ln, mx, aa, cp, m)
    <2>1. PICK t, m : /\ t = IF v = 0 THEN <<0, 0, 0>> ELSE ts
                      /\ m = IF mg = << >> THEN << >> ELSE Append(mg, 0)
      BY Zenon
    <2>2. Received(PduOf(ty, v, s, n, ts, fl, ip, ln, mx, aa, cp, mg)) =
            PduOf(ty, v, s, n, t, fl, ip, ln, mx, aa, cp, m)
      BY <2>1, ReceivedPdu, SMT
    <2> QED
      BY <1>2, <2>2, Zenon
  <1>4. PICK r, t, m : /\ r = Received(pdu)
                       /\ r = PduOf(ty, v, s, n, t, fl, ip, ln, mx, aa, cp, m)
    BY <1>3, Zenon
  <1>5. r.type = ty /\ r.version = v /\ r.ip = ip /\ r.len = ln /\ r.maxLen = mx /\ r.asn = aa
    BY <1>4, GetField, SMT
  <1>6. Entry(r) = Entry(pdu)
    BY <1>1, <1>5, Zenon DEF Entry
  <1>7. r # Malformed
    <2>1. Malformed.type = 255
      BY SMT DEF Malformed, NewPdu
    <2>2. ty # 255
      BY <1>1, SMT DEF Writable
    <2> QED
      BY <1>5, <2>1, <2>2
  <1> QED
    BY <1>1, <1>4, <1>5, <1>6, <1>7, Zenon

-----------------------------------------------------------------------------
(* The stream. *)

\* rd is where, in the octets st of the PDUs se, those after the PDUs ha begin;
\* the first ar octets have arrived.
Framing(se, st, ha, rd, ar) ==
  /\ IsSeq(se) /\ IsSeq(st) /\ IsSeq(ha)
  /\ \A i \in 1 .. Len(se) : Writable(se[i])
  /\ ar \in Nat /\ rd \in Nat /\ rd <= ar /\ ar <= Len(st)
  /\ Len(ha) <= Len(se)
  /\ \A i \in 1 .. Len(ha) : ha[i] = Received(se[i])
  /\ \E off : Layout(off, se, st) /\ rd = off[Len(ha)]

\* sendLoop writes a PDU.
LEMMA FramingWrite ==
  ASSUME NEW se, NEW st, NEW ha, NEW rd, NEW ar, Framing(se, st, ha, rd, ar),
         NEW pdu, Writable(pdu)
  PROVE  Framing(Append(se, pdu), st \o Bytes(pdu), ha, rd, ar)
  <1>1. IsSeq(se) /\ IsSeq(st) /\ IsSeq(ha) /\ \A i \in 1 .. Len(se) : Writable(se[i])
    BY Zenon DEF Framing
  <1>2. PICK off : Layout(off, se, st) /\ rd = off[Len(ha)]
    BY Zenon DEF Framing
  <1>3. PICK ns, nt, n, k : ns = Append(se, pdu) /\ nt = st \o Bytes(pdu) /\ n = Len(se) /\ k = Len(ha)
    BY Zenon
  <1>4. /\ IsSeq(nt) /\ Len(nt) >= Len(st)
        /\ \E o : Layout(o, ns, nt) /\ \A i \in 0 .. n : o[i] = off[i]
    <2>1. /\ IsSeq(st \o Bytes(pdu)) /\ Len(st \o Bytes(pdu)) >= Len(st)
          /\ \E o : /\ Layout(o, Append(se, pdu), st \o Bytes(pdu))
                    /\ \A i \in 0 .. Len(se) : o[i] = off[i]
      BY <1>1, <1>2, LayoutWrite, Zenon
    <2> QED
      BY <1>3, <2>1, Zenon
  <1>5. PICK o : Layout(o, ns, nt) /\ \A i \in 0 .. n : o[i] = off[i]
    BY <1>4, Zenon
  <1>6. /\ IsSeq(ns) /\ n \in Nat /\ Len(ns) = n + 1
        /\ \A i \in 1 .. n + 1 : ns[i] = IF i <= n THEN se[i] ELSE pdu
    BY <1>1, <1>3, AppendToSeq, Zenon
  <1>7. k \in Nat /\ k <= n
    <2>1. Len(ha) \in Nat
      BY <1>1, HoldsAll, Zenon
    <2> QED
      BY <1>3, <2>1, Zenon DEF Framing
  <1>8. rd = o[k] /\ k <= n + 1
    <2>1. k \in 0 .. n /\ k <= n + 1
      BY <1>6, <1>7, SMT
    <2> QED
      BY <1>2, <1>3, <1>5, <2>1, Zenon
  <1>9. \A i \in 1 .. n + 1 : Writable(ns[i])
    <2>1. ASSUME NEW i \in 1 .. n + 1 PROVE i <= n => i \in 1 .. n
      BY <1>6, SMT
    <2> QED
      BY <1>1, <1>3, <1>6, <2>1, Zenon
  <1>10. \A i \in 1 .. k : ha[i] = Received(ns[i])
    <2>1. \A i \in 1 .. k : i \in 1 .. n + 1 /\ i <= n
      BY <1>6, <1>7, SMT
    <2>2. \A i \in 1 .. k : ha[i] = Received(se[i])
      BY <1>3, Zenon DEF Framing
    <2> QED
      BY <1>6, <2>1, <2>2, Zenon
  <1>11. ar \in Nat /\ rd \in Nat /\ rd <= ar /\ ar <= Len(nt)
    <2>1. PICK a, b : a = Len(st) /\ b = Len(nt)
      BY Zenon
    <2>2. a \in Nat /\ b \in Nat /\ b >= a /\ ar \in Nat /\ ar <= a
      BY <1>1, <1>4, <2>1, HoldsAll, Zenon DEF Framing
    <2>3. ar <= b
      BY <2>2, SMT
    <2> QED
      BY <2>1, <2>3, Zenon DEF Framing
  <1>12. Framing(ns, nt, ha, rd, ar)
    BY <1>1, <1>3, <1>4, <1>5, <1>6, <1>8, <1>9, <1>10, <1>11, Zenon DEF Framing
  <1> QED
    BY <1>3, <1>12, Zenon

\* Decode takes a PDU.
LEMMA FramingRead ==
  ASSUME NEW se, NEW st, NEW ha, NEW rd, NEW ar, Framing(se, st, ha, rd, ar),
         NEW b, Arrived(b, st, rd, ar), Complete(b)
  PROVE  /\ Len(ha) + 1 \in 1 .. Len(se)
         /\ Decode(b) = Received(se[Len(ha) + 1])
         /\ Framing(se, st, Append(ha, Decode(b)), rd + Taken(b), ar)
  <1>1. /\ IsSeq(se) /\ IsSeq(st) /\ IsSeq(ha) /\ (\A i \in 1 .. Len(se) : Writable(se[i]))
        /\ ar \in Nat /\ rd \in Nat /\ Len(ha) <= Len(se)
    BY Zenon DEF Framing
  <1>2. PICK off : Layout(off, se, st) /\ rd = off[Len(ha)]
    BY Zenon DEF Framing
  <1>3. PICK n, m, d, nh : n = Len(ha) /\ m = Len(se) /\ d = Decode(b) /\ nh = Append(ha, d)
    BY Zenon
  <1>4. n \in Nat /\ m \in Nat /\ n <= m
    <2>1. Len(ha) \in Nat /\ Len(se) \in Nat
      BY <1>1, HoldsAll, Zenon
    <2> QED
      BY <1>1, <1>3, <2>1, Zenon
  <1>5. rd = off[n] /\ n <= Len(se)
    BY <1>1, <1>2, <1>3, Zenon
  <1>6. /\ n + 1 \in 1 .. m /\ d = Received(se[n + 1])
        /\ off[n + 1] = rd + Taken(b) /\ off[n + 1] \in Nat /\ off[n + 1] <= ar
    <2>1. /\ n + 1 \in 1 .. Len(se) /\ Decode(b) = Received(se[n + 1])
          /\ off[n + 1] = rd + Taken(b) /\ off[n + 1] \in Nat /\ off[n + 1] <= ar
      <3>1. Layout(off, se, st)
        BY <1>2, Zenon
      <3>2. IsSeq(se) /\ IsSeq(st) /\ (\A i \in 1 .. Len(se) : Writable(se[i]))
        BY <1>1, Zenon
      <3>3. ar \in Nat /\ rd \in Nat /\ n \in Nat
        BY <1>1, <1>4, Zenon
      <3> QED
        BY <1>5, <3>1, <3>2, <3>3, LayoutRead, SMT
    <2> QED
      BY <1>3, <2>1, Zenon
  <1>7. /\ IsSeq(nh) /\ Len(nh) = n + 1
        /\ \A k \in 1 .. n + 1 : nh[k] = IF k <= n THEN ha[k] ELSE d
    BY <1>1, <1>3, AppendToSeq, Zenon
  <1>8. \A i \in 1 .. n + 1 : nh[i] = Received(se[i])
    <2>1. \A i \in 1 .. n : ha[i] = Received(se[i])
      BY <1>3, Zenon DEF Framing
    <2>2. ASSUME NEW i \in 1 .. n + 1 PROVE IF i <= n THEN i \in 1 .. n ELSE i = n + 1
      BY <1>4, SMT
    <2> QED
      BY <1>6, <1>7, <2>1, <2>2, Zenon
  <1>9. n + 1 <= m
    BY <1>4, <1>6, SMT
  <1>10. Framing(se, st, nh, rd + Taken(b), ar)
    BY <1>1, <1>2, <1>3, <1>6, <1>7, <1>8, <1>9, Zenon DEF Framing
  <1> QED
    BY <1>3, <1>6, <1>10, Zenon

\* More octets arrive.
LEMMA FramingArrive ==
  ASSUME NEW se, NEW st, NEW ha, NEW rd, NEW ar, Framing(se, st, ha, rd, ar),
         NEW n \in ar + 1 .. Len(st)
  PROVE  Framing(se, st, ha, rd, n)
  <1>1. PICK m : m = Len(st)
    BY Zenon
  <1>2. m \in Nat
    BY <1>1, HoldsAll, Zenon DEF Framing
  <1>3. ar \in Nat /\ rd \in Nat /\ rd <= ar /\ n \in ar + 1 .. m
    BY <1>1, Zenon DEF Framing
  <1>4. n \in Nat /\ rd <= n /\ n <= m
    BY <1>2, <1>3, SMT
  <1> QED
    BY <1>1, <1>4, Zenon DEF Framing

-----------------------------------------------------------------------------
(* The answer. *)

\* The first k PDUs are no notifications.
Quiet(se, k) == \A i \in 1 .. k : se[i].type # SERIAL_NOTIFY

\* Up to the first notification, the n PDUs of se are the first of the a PDUs of
\* ans; and if there was no notification, the t PDUs of td are the others.
Follows(ans, a, se, n, td, t) ==
  /\ \A k \in 0 .. n : Quiet(se, k) => k <= a /\ \A i \in 1 .. k : se[i] = ans[i]
  /\ Quiet(se, n) => n + t = a /\ \A j \in 1 .. t : td[j] = ans[n + j]

\* ns has pdu after the n PDUs of se.
Grown(ns, n, se, pdu) == \A k \in 1 .. n + 1 : ns[k] = IF k <= n THEN se[k] ELSE pdu

\* Then the first PDUs are as they were, and as quiet.
AsBefore(ns, n, se, pdu) ==
  /\ ns[n + 1] = pdu /\ \A k \in 1 .. n : ns[k] = se[k]
  /\ \A k \in 0 .. n : Quiet(ns, k) <=> Quiet(se, k)
  /\ Quiet(ns, n + 1) => Quiet(se, n) /\ pdu.type # SERIAL_NOTIFY

\* What is written later changes nothing of what was.
LEMMA QuietBefore ==
  ASSUME NEW se, NEW ns, NEW n \in Nat, NEW pdu, Grown(ns, n, se, pdu)
  PROVE  AsBefore(ns, n, se, pdu)
  <1>1. /\ n + 1 \in 1 .. n + 1 /\ ~(n + 1 <= n)
        /\ \A k \in 1 .. n : k \in 1 .. n + 1 /\ k <= n
        /\ \A k \in 0 .. n : \A i \in 1 .. k : i \in 1 .. n
    BY SMT
  <1>2. ns[n + 1] = pdu /\ \A k \in 1 .. n : ns[k] = se[k]
    BY <1>1, Zenon DEF Grown
  <1>3. \A k \in 0 .. n : Quiet(ns, k) <=> Quiet(se, k)
    BY <1>1, <1>2, Zenon DEF Quiet
  <1>4. Quiet(ns, n + 1) => Quiet(se, n) /\ pdu.type # SERIAL_NOTIFY
    BY <1>1, <1>2, Zenon DEF Quiet
  <1> QED
    BY <1>2, <1>3, <1>4, Zenon DEF AsBefore

\* sendLoop writes the next PDU of the answer.
LEMMA FollowsAnswer ==
  ASSUME NEW ans, NEW a \in Nat, NEW se, NEW n \in Nat, NEW td, NEW t \in Nat \ {0},
         Follows(ans, a, se, n, td, t), NEW ns, NEW nd,
         Grown(ns, n, se, td[1]),
         \A k \in 1 .. t - 1 : nd[k] = td[k + 1]
  PROVE  Follows(ans, a, ns, n + 1, nd, t - 1)
  <1>1. /\ ns[n + 1] = td[1] /\ (\A k \in 1 .. n : ns[k] = se[k])
        /\ \A k \in 0 .. n : Quiet(ns, k) <=> Quiet(se, k)
        /\ Quiet(ns, n + 1) => Quiet(se, n)
    <2>1. AsBefore(ns, n, se, td[1])
      BY QuietBefore, Zenon
    <2> QED
      BY <2>1, Zenon DEF AsBefore
  <1>2. /\ (\A k \in 0 .. n + 1 : k \in 0 .. n \/ k = n + 1)
        /\ (\A i \in 1 .. n + 1 : i \in 1 .. n \/ i = n + 1)
        /\ \A k \in 0 .. n : \A i \in 1 .. k : i \in 1 .. n
        /\ n \in 0 .. n /\ 1 \in 1 .. t
    BY SMT
  <1>3. ASSUME NEW k \in 0 .. n, Quiet(ns, k)
        PROVE  k <= a /\ \A i \in 1 .. k : ns[i] = ans[i]
    BY <1>1, <1>2, <1>3, Zenon DEF Follows
  <1>4. ASSUME Quiet(ns, n + 1)
        PROVE  /\ n + 1 <= a /\ (\A i \in 1 .. n + 1 : ns[i] = ans[i])
               /\ n + 1 + (t - 1) = a /\ \A j \in 1 .. t - 1 : nd[j] = ans[n + 1 + j]
    <2>1. /\ n + t = a /\ (\A j \in 1 .. t : td[j] = ans[n + j])
          /\ \A i \in 1 .. n : se[i] = ans[i]
      BY <1>1, <1>2, <1>4, Zenon DEF Follows
    <2>2. n + 1 <= a /\ n + 1 + (t - 1) = a
      BY <2>1, SMT
    <2>3. \A j \in 1 .. t - 1 : j + 1 \in 1 .. t /\ n + (j + 1) = n + 1 + j
      BY SMT
    <2>4. \A j \in 1 .. t - 1 : nd[j] = ans[n + (j + 1)]
      BY <2>1, <2>3, Zenon
    <2>5. \A j \in 1 .. t - 1 : nd[j] = ans[n + 1 + j]
      BY <2>3, <2>4, Zenon
    <2>6. ns[n + 1] = ans[n + 1]
      BY <1>1, <1>2, <2>1, Zenon
    <2> QED
      BY <1>1, <1>2, <2>1, <2>2, <2>5, <2>6, Zenon
  <1> QED
    BY <1>2, <1>3, <1>4, Zenon DEF Follows

\* sendLoop writes a notification.
LEMMA FollowsNotify ==
  ASSUME NEW ans, NEW a \in Nat, NEW se, NEW n \in Nat, NEW td, NEW t,
         Follows(ans, a, se, n, td, t), NEW ns, NEW pdu, pdu.type = SERIAL_NOTIFY,
         Grown(ns, n, se, pdu)
  PROVE  Follows(ans, a, ns, n + 1, td, t)
  <1>1. /\ \A k \in 1 .. n : ns[k] = se[k]
        /\ \A k \in 0 .. n : Quiet(ns, k) <=> Quiet(se, k)
        /\ ~Quiet(ns, n + 1)
    <2>1. AsBefore(ns, n, se, pdu)
      BY QuietBefore, Zenon
    <2> QED
      BY <2>1, Zenon DEF AsBefore
  <1>2. /\ \A k \in 0 .. n + 1 : k \in 0 .. n \/ k = n + 1
        /\ \A k \in 0 .. n : \A i \in 1 .. k : i \in 1 .. n
    BY SMT
  <1>3. ASSUME NEW k \in 0 .. n, Quiet(ns, k)
        PROVE  k <= a /\ \A i \in 1 .. k : ns[i] = ans[i]
    BY <1>1, <1>2, <1>3, Zenon DEF Follows
  <1> QED
    BY <1>1, <1>2, <1>3, Zenon DEF Follows

\* HandlePDU chooses the answer, with nothing or only notifications written.
LEMMA FollowsQuery ==
  ASSUME NEW se, NEW n \in Nat, NEW no, NEW td, Follows(no, 0, se, n, td, 0),
         NEW ans, NEW a \in Nat
  PROVE  Follows(ans, a, se, n, ans, a)
  <1>1. \A k \in 0 .. n : Quiet(se, k) => k = 0
    <2>1. \A k \in 0 .. n : Quiet(se, k) => k <= 0
      BY Zenon DEF Follows
    <2>2. \A k \in 0 .. n : k <= 0 => k = 0
      BY SMT
    <2> QED
      BY <2>1, <2>2, Zenon
  <1>2. /\ 0 <= a /\ 0 + a = a /\ n \in 0 .. n
        /\ (\A j \in 1 .. a : 0 + j = j) /\ ~\E i \in 1 .. 0 : TRUE
    BY SMT
  <1>3. n = 0 => n + a = a /\ \A j \in 1 .. a : ans[j] = ans[n + j]
    BY <1>2, Zenon
  <1> QED
    BY <1>1, <1>2, <1>3, Zenon DEF Follows

\* ans is the answer; no query was read before it.
AnswerFor(ans, srv, se, td) ==
  /\ IsAnswer(ans) /\ IsSeq(td)
  /\ \A i \in 1 .. Len(td) : Writable(td[i])
  /\ srv = "read" => ans = << >> /\ td = << >>
  /\ Follows(ans, Len(ans), se, Len(se), td, Len(td))

\* SendAnswer.
LEMMA AnswerSent ==
  ASSUME NEW ans, NEW srv, NEW se, NEW td, AnswerFor(ans, srv, se, td),
         IsSeq(se), srv # "read", td # << >>
  PROVE  Writable(Head(td)) /\ AnswerFor(ans, srv, Append(se, Head(td)), Tail(td))
  <1>1. PICK n, a, t, ns, nd, hd : /\ n = Len(se) /\ a = Len(ans) /\ t = Len(td)
                                   /\ ns = Append(se, hd) /\ nd = Tail(td) /\ hd = Head(td)
    BY Zenon
  <1>2. IsAnswer(ans) /\ IsSeq(ans) /\ IsSeq(td) /\ Follows(ans, a, se, n, td, t)
    BY <1>1, Zenon DEF AnswerFor, IsAnswer
  <1>3. a \in Nat
    BY <1>1, <1>2, HoldsAll, Zenon
  <1>4. /\ IsSeq(nd) /\ t \in Nat \ {0} /\ hd = td[1] /\ Len(nd) = t - 1
        /\ \A k \in 1 .. t - 1 : nd[k] = td[k + 1]
    BY <1>1, <1>2, TailOfSeq, Zenon
  <1>5. /\ n \in Nat /\ Len(ns) = n + 1
        /\ \A k \in 1 .. n + 1 : ns[k] = IF k <= n THEN se[k] ELSE hd
    BY <1>1, AppendToSeq, Zenon
  <1>6. Grown(ns, n, se, td[1])
    BY <1>4, <1>5, Zenon DEF Grown
  <1>7. Follows(ans, a, ns, n + 1, nd, t - 1)
    BY <1>2, <1>3, <1>4, <1>5, <1>6, FollowsAnswer, Zenon
  <1>8. Writable(td[1]) /\ \A k \in 1 .. t - 1 : Writable(nd[k])
    <2>1. 1 \in 1 .. t /\ \A k \in 1 .. t - 1 : k + 1 \in 1 .. t
      BY <1>4, SMT
    <2>2. \A i \in 1 .. t : Writable(td[i])
      BY <1>1, Zenon DEF AnswerFor
    <2> QED
      BY <1>4, <2>1, <2>2, Zenon
  <1>9. AnswerFor(ans, srv, ns, nd)
    BY <1>1, <1>2, <1>4, <1>5, <1>7, <1>8, Zenon DEF AnswerFor
  <1> QED
    BY <1>1, <1>4, <1>8, <1>9, Zenon

\* SendNotify.
LEMMA NotifySent ==
  ASSUME NEW ans, NEW srv, NEW se, NEW td, AnswerFor(ans, srv, se, td),
         IsSeq(se), NEW pdu, pdu.type = SERIAL_NOTIFY
  PROVE  AnswerFor(ans, srv, Append(se, pdu), td)
  <1>1. PICK n, a, t, ns : n = Len(se) /\ a = Len(ans) /\ t = Len(td) /\ ns = Append(se, pdu)
    BY Zenon
  <1>2. IsSeq(ans) /\ Follows(ans, a, se, n, td, t)
    BY <1>1, Zenon DEF AnswerFor, IsAnswer
  <1>3. a \in Nat
    BY <1>1, <1>2, HoldsAll, Zenon
  <1>4. n \in Nat /\ Len(ns) = n + 1 /\ Grown(ns, n, se, pdu)
    BY <1>1, AppendToSeq, Zenon DEF Grown
  <1>5. Follows(ans, a, ns, n + 1, td, t)
    BY <1>2, <1>3, <1>4, FollowsNotify, Zenon
  <1>6. AnswerFor(ans, srv, ns, td)
    BY <1>1, <1>4, <1>5, Zenon DEF AnswerFor
  <1> QED
    BY <1>1, <1>6, Zenon

\* ReadQuery.
LEMMA AnswerChosen ==
  ASSUME NEW no, NEW se, NEW td, AnswerFor(no, "read", se, td), IsSeq(se),
         NEW ans, IsAnswer(ans)
  PROVE  AnswerFor(ans, "answer", se, ans)
  <1>1. PICK n, a : n = Len(se) /\ a = Len(ans)
    BY Zenon
  <1>2. n \in Nat /\ a \in Nat /\ IsSeq(ans) /\ Len(<< >>) = 0
    BY <1>1, HoldsAll, NoOctets, Zenon DEF IsAnswer
  <1>3. no = << >> /\ td = << >> /\ Follows(no, Len(no), se, n, td, Len(td))
    BY <1>1, Zenon DEF AnswerFor
  <1>4. Follows(no, 0, se, n, td, 0)
    BY <1>2, <1>3, Zenon
  <1>5. Follows(ans, a, se, n, ans, a)
    BY <1>2, <1>4, FollowsQuery, Zenon
  <1>6. "answer" # "read"
    BY Zenon
  <1> QED
    BY <1>1, <1>2, <1>5, <1>6, Zenon DEF AnswerFor, IsAnswer

\* Which PDUs end the loop of the client.
LEMMA Ending ==
  ASSUME NEW pdu
  PROVE  /\ pdu.type \in {ERROR_REPORT, CACHE_RESET} => Ends(pdu) /\ pdu.type # END_OF_DATA
         /\ pdu.type = END_OF_DATA => /\ Ends(pdu) /\ pdu.type # SERIAL_NOTIFY
                                      /\ pdu.type \notin {IPV4_PREFIX, IPV6_PREFIX}
         /\ pdu.type = CACHE_RESPONSE => /\ pdu.type # END_OF_DATA
                                         /\ pdu.type \notin {IPV4_PREFIX, IPV6_PREFIX}
         /\ pdu.type \in {IPV4_PREFIX, IPV6_PREFIX} => ~Ends(pdu) /\ pdu.type # END_OF_DATA
         /\ ~Ends(pdu) => pdu.type # SERIAL_NOTIFY /\ pdu.type # END_OF_DATA
  <1>1. PICK t : t = pdu.type
    BY Zenon
  <1> QED
    BY <1>1, SMT DEF Ends

\* Where a PDU of the answer may be.
LEMMA PlaceOf ==
  ASSUME NEW m \in Nat, NEW l \in Nat
  PROVE  /\ m + 1 <= l + 2 => m = 0 \/ m \in 1 .. l \/ (m = l + 1 /\ m + 1 = l + 2)
         /\ m + 1 <= l => m + 1 \in 1 .. l
  BY SMT

\* The n-th PDU of an answer whose PDUs so far do not end the loop of the client
\* says how many VRPs came before it.
LEMMA PlaceInAnswer ==
  ASSUME NEW ans, IsAnswer(ans), NEW m \in Nat, m + 1 <= Len(ans),
         NEW pdu, pdu = ans[m + 1]
  PROVE  /\ ~Ends(pdu) => IF m = 0 THEN pdu.type = CACHE_RESPONSE
                          ELSE /\ pdu.type \in {IPV4_PREFIX, IPV6_PREFIX}
                               /\ Entry(pdu) = Entry(Vrps[m])
         /\ pdu.type = END_OF_DATA => m = Len(Vrps) + 1
  <1>1. PICK a, l : a = Len(ans) /\ l = Len(Vrps)
    BY Zenon
  <1>2. IsSeq(ans)
    BY Zenon DEF IsAnswer
  <1>3. a \in Nat
    BY <1>1, <1>2, HoldsAll, Zenon
  <1>4. l \in Nat
    BY <1>1, DumpAssumption, SMT
  <1>5. CASE \A i \in 1 .. Len(ans) : ans[i].type \in {ERROR_REPORT, CACHE_RESET}
    <2>1. m + 1 <= a
      BY <1>1, Zenon
    <2>2. m + 1 \in 1 .. a
      BY <1>3, <2>1, PlaceOf, Zenon
    <2>3. pdu.type \in {ERROR_REPORT, CACHE_RESET}
      BY <1>1, <1>5, <2>2, Zenon
    <2>4. Ends(pdu) /\ pdu.type # END_OF_DATA
      BY <2>3, Ending, Zenon
    <2> QED
      BY <2>4, Zenon
  <1>6. CASE /\ Len(ans) = Len(Vrps) + 2
             /\ ans[1].type = CACHE_RESPONSE
             /\ \A i \in 1 .. Len(Vrps) : /\ ans[i + 1].type \in {IPV4_PREFIX, IPV6_PREFIX}
                                          /\ Entry(ans[i + 1]) = Entry(Vrps[i])
             /\ ans[Len(Vrps) + 2].type = END_OF_DATA
    <2>1. m + 1 <= a /\ a = l + 2 /\ ans[l + 2].type = END_OF_DATA
      BY <1>1, <1>6, Zenon
    <2>2. m = 0 \/ m \in 1 .. l \/ (m = l + 1 /\ m + 1 = l + 2)
      BY <1>4, <2>1, PlaceOf, Zenon
    <2>3. CASE m = 0
      <3>1. m + 1 = 1
        BY <2>3, SMT
      <3>2. pdu.type = CACHE_RESPONSE
        BY <1>6, <3>1, Zenon
      <3> QED
        BY <2>3, <3>2, Ending, Zenon
    <2>4. CASE m \in 1 .. l
      <3>1. pdu.type \in {IPV4_PREFIX, IPV6_PREFIX} /\ Entry(pdu) = Entry(Vrps[m])
        BY <1>1, <1>6, <2>4, Zenon
      <3>2. m # 0
        BY <2>4, SMT
      <3> QED
        BY <3>1, <3>2, Ending, Zenon
    <2>5. CASE m = l + 1 /\ m + 1 = l + 2
      <3>1. pdu.type = END_OF_DATA
        BY <2>1, <2>5, Zenon
      <3>2. Ends(pdu)
        BY <3>1, Ending, Zenon
      <3> QED
        BY <1>1, <2>5, <3>2, Zenon
    <2> QED
      BY <2>2, <2>3, <2>4, <2>5
  <1> QED
    BY <1>5, <1>6, Zenon DEF IsAnswer

-----------------------------------------------------------------------------
(* The client. *)

\* The client has an entry for each PDU it handled after the first; and once it
\* is disconnected by an End of Data, for each VRP.
DataFor(cl, ha, da, ou) ==
  /\ IsSeq(da) /\ \A i \in 1 .. Len(da) : da[i] = Entry(Vrps[i])
  /\ IF cl \in {"disconnected", "done"}
     THEN ha[Len(ha)].type = END_OF_DATA => Len(da) = Len(Vrps)
     ELSE /\ \A i \in 1 .. Len(ha) : ~Ends(ha[i])
          /\ Len(da) = IF Len(ha) = 0 THEN 0 ELSE Len(ha) - 1
  /\ cl = "done" => ou = da

\* While the loop has not ended, there was no notification.
LEMMA QuietHandled ==
  ASSUME NEW se, NEW st, NEW ha, NEW rd, NEW ar, Framing(se, st, ha, rd, ar),
         \A i \in 1 .. Len(ha) : ~Ends(ha[i])
  PROVE  Quiet(se, Len(ha))
  <1>1. PICK n, k : n = Len(ha) /\ k = Len(se)
    BY Zenon
  <1>2. /\ n <= k /\ (\A i \in 1 .. k : Writable(se[i]))
        /\ (\A i \in 1 .. n : ha[i] = Received(se[i])) /\ IsSeq(ha) /\ IsSeq(se)
    BY <1>1, Zenon DEF Framing
  <1>3. n \in Nat /\ k \in Nat
    BY <1>1, <1>2, HoldsAll, Zenon
  <1>4. \A i \in 1 .. n : i \in 1 .. k
    BY <1>2, <1>3, SMT
  <1>5. ASSUME NEW i \in 1 .. n PROVE se[i].type # SERIAL_NOTIFY
    <2>1. Writable(se[i]) /\ ha[i] = Received(se[i]) /\ ~Ends(ha[i])
      BY <1>1, <1>2, <1>4, Zenon
    <2>2. ha[i].type = se[i].type
      BY <2>1, ReceivedSame, Zenon
    <2>3. ha[i].type # SERIAL_NOTIFY
      BY <2>1, Ending, Zenon
    <2> QED
      BY <2>2, <2>3, Zenon
  <1> QED
    BY <1>1, <1>5, Zenon DEF Quiet

\* The PDU that is handled next has its place in the answer, or is a notification.
LEMMA NextHandled ==
  ASSUME NEW se, NEW st, NEW ha, NEW rd, NEW ar, Framing(se, st, ha, rd, ar),
         \A i \in 1 .. Len(ha) : ~Ends(ha[i]), Len(ha) + 1 \in 1 .. Len(se),
         NEW ans, NEW srv, NEW td, AnswerFor(ans, srv, se, td),
         se[Len(ha) + 1].type # SERIAL_NOTIFY
  PROVE  Len(ha) + 1 <= Len(ans) /\ se[Len(ha) + 1] = ans[Len(ha) + 1]
  <1>1. PICK n, k : n = Len(ha) /\ k = Len(se)
    BY Zenon
  <1>2. IsSeq(ha) /\ IsSeq(se)
    BY Zenon DEF Framing
  <1>3. n \in Nat /\ k \in Nat
    BY <1>1, <1>2, HoldsAll, Zenon
  <1>4. n + 1 \in 1 .. k /\ se[n + 1].type # SERIAL_NOTIFY
    BY <1>1, Zenon
  <1>5. n + 1 \in 0 .. k /\ n + 1 \in 1 .. n + 1 /\ \A i \in 1 .. n + 1 : i \in 1 .. n \/ i = n + 1
    <2>1. n + 1 \in 1 .. k
      BY <1>4, Zenon
    <2> QED
      BY <1>3, <2>1, SMT
  <1>6. Quiet(se, n)
    BY <1>1, QuietHandled, Zenon
  <1>7. Quiet(se, n + 1)
    BY <1>4, <1>5, <1>6, Zenon DEF Quiet
  <1>8. Follows(ans, Len(ans), se, k, td, Len(td))
    BY <1>1, Zenon DEF AnswerFor
  <1>9. n + 1 <= Len(ans) /\ se[n + 1] = ans[n + 1]
    BY <1>5, <1>7, <1>8, Zenon DEF Follows
  <1> QED
    BY <1>1, <1>9, Zenon

\* HandlePDU of the client.
LEMMA DataHandled ==
  ASSUME NEW se, NEW st, NEW ha, NEW rd, NEW ar, Framing(se, st, ha, rd, ar),
         NEW ans, NEW srv, NEW td, AnswerFor(ans, srv, se, td),
         NEW da, NEW ou, DataFor("loop", ha, da, ou),
         Len(ha) + 1 \in 1 .. Len(se), NEW d, d = Received(se[Len(ha) + 1])
  PROVE  DataFor(IF Ends(d) THEN "disconnected" ELSE "loop", Append(ha, d),
                 IF d.type \in {IPV4_PREFIX, IPV6_PREFIX} THEN Append(da, Entry(d)) ELSE da, ou)
  <1>1. PICK n, nh, pdu, l, v :
          n = Len(ha) /\ nh = Append(ha, d) /\ pdu = se[n + 1] /\ l = Len(da) /\ v = Len(Vrps)
    BY Zenon
  <1>2. /\ IsSeq(ha) /\ IsSeq(da) /\ (\A i \in 1 .. n : ~Ends(ha[i]))
        /\ (\A i \in 1 .. l : da[i] = Entry(Vrps[i]))
        /\ l = IF n = 0 THEN 0 ELSE n - 1
    BY <1>1, Zenon DEF DataFor, Framing
  <1>3. /\ n \in Nat /\ IsSeq(nh) /\ Len(nh) = n + 1
        /\ \A i \in 1 .. n + 1 : nh[i] = IF i <= n THEN ha[i] ELSE d
    BY <1>1, <1>2, AppendToSeq, Zenon
  <1>4. v \in Nat
    BY <1>1, DumpAssumption, SMT
  <1>5. Writable(pdu) /\ d = Received(pdu)
    BY <1>1, Zenon DEF Framing
  <1>6. d.type = pdu.type /\ Entry(d) = Entry(pdu)
    BY <1>5, ReceivedSame, Zenon
  <1>7. Ends(d) <=> Ends(pdu)
    BY <1>6, Zenon DEF Ends
  <1>8. pdu.type # SERIAL_NOTIFY =>
          /\ ~Ends(d) => IF n = 0 THEN pdu.type = CACHE_RESPONSE
                         ELSE /\ pdu.type \in {IPV4_PREFIX, IPV6_PREFIX}
                              /\ Entry(pdu) = Entry(Vrps[n])
          /\ pdu.type = END_OF_DATA => n = v + 1
    <2> SUFFICES ASSUME pdu.type # SERIAL_NOTIFY
                 PROVE  /\ ~Ends(pdu) => IF n = 0 THEN pdu.type = CACHE_RESPONSE
                                         ELSE /\ pdu.type \in {IPV4_PREFIX, IPV6_PREFIX}
                                              /\ Entry(pdu) = Entry(Vrps[n])
                        /\ pdu.type = END_OF_DATA => n = v + 1
      BY <1>7, Zenon
    <2>1. Len(ha) + 1 <= Len(ans) /\ se[Len(ha) + 1] = ans[Len(ha) + 1]
      <3>1. se[Len(ha) + 1].type # SERIAL_NOTIFY
        BY <1>1, Zenon
      <3>2. \A i \in 1 .. Len(ha) : ~Ends(ha[i])
        BY <1>1, <1>2, Zenon
      <3> QED
        BY <3>1, <3>2, NextHandled, Zenon
    <2>2. n + 1 <= Len(ans) /\ pdu = ans[n + 1] /\ IsAnswer(ans)
      BY <1>1, <2>1, Zenon DEF AnswerFor
    <2>3. /\ ~Ends(pdu) => IF n = 0 THEN pdu.type = CACHE_RESPONSE
                           ELSE /\ pdu.type \in {IPV4_PREFIX, IPV6_PREFIX}
                                /\ Entry(pdu) = Entry(Vrps[n])
          /\ pdu.type = END_OF_DATA => n = Len(Vrps) + 1
      BY <1>3, <2>2, PlaceInAnswer, Zenon
    <2> QED
      BY <1>1, <2>3, Zenon
  <1>9. n + 1 \in 1 .. n + 1 /\ ~(n + 1 <= n) /\ \A i \in 1 .. n + 1 : IF i <= n THEN i \in 1 .. n ELSE i = n + 1
    BY <1>3, SMT
  <1>10. nh[Len(nh)] = d
    BY <1>3, <1>9, Zenon
  <1>11. "loop" \notin {"disconnected", "done"} /\ "loop" # "done"
    BY SMT
  <1>12. CASE Ends(d)
    <2>1. pdu.type = END_OF_DATA => l = v
      <3>1. pdu.type = END_OF_DATA => n = v + 1
        BY <1>8, Ending, Zenon
      <3>2. n = v + 1 => l = v
        BY <1>2, <1>4, SMT
      <3> QED
        BY <3>1, <3>2, Zenon
    <2>2. d.type \notin {IPV4_PREFIX, IPV6_PREFIX}
      BY <1>12, Ending, Zenon
    <2>3. DataFor("disconnected", nh, da, ou)
      <3>1. "disconnected" # "done"
        BY Zenon
      <3> QED
        BY <1>1, <1>2, <1>6, <1>10, <2>1, <3>1, Zenon DEF DataFor
    <2> QED
      BY <1>1, <1>12, <2>2, <2>3, Zenon
  <1>13. CASE ~Ends(d)
    <2>1. \A i \in 1 .. Len(nh) : ~Ends(nh[i])
      BY <1>2, <1>3, <1>9, <1>13, Zenon
    <2>2. pdu.type # SERIAL_NOTIFY
      BY <1>6, <1>13, Ending, Zenon
    <2>3. CASE n = 0
      <3>1. d.type \notin {IPV4_PREFIX, IPV6_PREFIX}
        BY <1>6, <1>8, <1>13, <2>2, <2>3, Ending, Zenon
      <3>2. DataFor("loop", nh, da, ou)
        <4>1. Len(da) = IF Len(nh) = 0 THEN 0 ELSE Len(nh) - 1
          <5>1. PICK x, y : x = Len(nh) /\ y = Len(da)
            BY Zenon
          <5>2. x = n + 1 /\ y = 0
            BY <1>1, <1>2, <1>3, <2>3, <5>1, Zenon
          <5>3. y = IF x = 0 THEN 0 ELSE x - 1
            BY <2>3, <5>2, SMT
          <5> QED
            BY <5>1, <5>3, Zenon
        <4>2. IsSeq(da) /\ \A i \in 1 .. Len(da) : da[i] = Entry(Vrps[i])
          BY <1>1, <1>2, Zenon
        <4> QED
          BY <1>11, <2>1, <4>1, <4>2, Zenon DEF DataFor
      <3> QED
        BY <1>1, <1>13, <3>1, <3>2, Zenon
    <2>4. CASE n # 0
      <3>1. PICK en, nd : en = Entry(d) /\ nd = Append(da, en)
        BY Zenon
      <3>2. d.type \in {IPV4_PREFIX, IPV6_PREFIX} /\ en = Entry(Vrps[n])
        BY <1>6, <1>8, <1>13, <2>2, <2>4, <3>1, Zenon
      <3>3. l + 1 = n
        BY <1>2, <1>3, <2>4, SMT
      <3>4. /\ IsSeq(nd) /\ l \in Nat /\ Len(nd) = l + 1
            /\ \A i \in 1 .. l + 1 : nd[i] = IF i <= l THEN da[i] ELSE en
        <4>1. /\ IsSeq(Append(da, en)) /\ Len(da) \in Nat /\ Len(Append(da, en)) = Len(da) + 1
              /\ \A i \in 1 .. Len(da) + 1 :
                   Append(da, en)[i] = IF i <= Len(da) THEN da[i] ELSE en
          BY <1>2, AppendToSeq, Zenon
        <4> QED
          BY <1>1, <3>1, <4>1, Zenon
      <3>5. \A i \in 1 .. l + 1 : IF i <= l THEN i \in 1 .. l ELSE i = l + 1
        BY <3>4, SMT
      <3>6. \A i \in 1 .. Len(nd) : nd[i] = Entry(Vrps[i])
        BY <1>2, <3>2, <3>3, <3>4, <3>5, Zenon
      <3>7. DataFor("loop", nh, nd, ou)
        <4>1. Len(nd) = IF Len(nh) = 0 THEN 0 ELSE Len(nh) - 1
          <5>1. PICK x, y : x = Len(nh) /\ y = Len(nd)
            BY Zenon
          <5>2. x = n + 1 /\ y = n
            BY <1>3, <3>3, <3>4, <5>1, Zenon
          <5>3. y = IF x = 0 THEN 0 ELSE x - 1
            BY <1>3, <5>2, SMT
          <5> QED
            BY <5>1, <5>3, Zenon
        <4> QED
          BY <1>11, <2>1, <3>4, <3>6, <4>1, Zenon DEF DataFor
      <3> QED
        BY <1>1, <1>13, <3>1, <3>2, <3>7, Zenon
    <2> QED
      BY <2>3, <2>4
  <1> QED
    BY <1>12, <1>13

-----------------------------------------------------------------------------
(* The server reads the query. *)

\* What ClientConnected sends is read as version 1.
LEMMA QueryRead ==
  ASSUME NEW q \in ClientConnected
  PROVE  Decode(Bytes(q)).version = 1
  <1>1. PICK z, e, ses, ser : z = <<0, 0, 0>> /\ e = << >> /\ ses = Session /\ ser = Serial
    BY Zenon
  <1>2. ses \in Nat /\ ser \in Nat
    BY <1>1, Numbers, Zenon
  <1>3. /\ OfType(RESET_QUERY, 1, 0, 0, z, 0, e, 0, 0, 0, e)
        /\ OfType(SERIAL_QUERY, 1, ses, ser, z, 0, e, 0, 0, 0, e)
    BY <1>1, <1>2, SMT DEF OfType
  <1>4. PICK rq, sq : /\ rq = PduOf(RESET_QUERY, 1, 0, 0, z, 0, e, 0, 0, 0, e, e)
                      /\ sq = PduOf(SERIAL_QUERY, 1, ses, ser, z, 0, e, 0, 0, 0, e, e)
    BY Zenon
  <1>5. Writable(rq) /\ Writable(sq)
    BY <1>1, <1>3, <1>4, OfTypeWritable, SMT
  <1>6. NewPdu(RESET_QUERY, 1) = rq
    BY <1>1, <1>4, Zenon DEF NewPdu, PduOf
  <1>7. [NewPdu(SERIAL_QUERY, 1) EXCEPT !.session = Session, !.serial = Serial] = sq
    <2>1. SetSession(NewPdu(SERIAL_QUERY, 1), Session) =
            PduOf(SERIAL_QUERY, 1, Session, 0, <<0, 0, 0>>, 0, << >>, 0, 0, 0, << >>, << >>)
      BY StartPdu, Zenon DEF SetSession
    <2>2. SetSerial(SetSession(NewPdu(SERIAL_QUERY, 1), Session), Serial) =
            PduOf(SERIAL_QUERY, 1, Session, Serial, <<0, 0, 0>>, 0, << >>, 0, 0, 0, << >>, << >>)
      BY <2>1, SetsSerial, SMT
    <2>3. [NewPdu(SERIAL_QUERY, 1) EXCEPT !.session = Session, !.serial = Serial] =
            SetSerial(SetSession(NewPdu(SERIAL_QUERY, 1), Session), Serial)
      BY Zenon DEF SetSerial, SetSession
    <2> QED
      BY <1>1, <1>4, <2>2, <2>3, Zenon
  <1>8. q = rq \/ q = sq
    BY <1>6, <1>7, Zenon DEF ClientConnected
  <1>9. Writable(q) /\ q.version = 1
    <2>1. rq.version = 1 /\ sq.version = 1
      BY <1>4, GetField, SMT
    <2> QED
      BY <1>5, <1>8, <2>1, Zenon
  <1>10. Decode(Bytes(q)) = Received(q)
    BY <1>9, DecodesWhatIsWritten, Zenon
  <1>11. Received(q).version = q.version
    BY <1>9, ReceivedSame, Zenon
  <1> QED
    BY <1>9, <1>10, <1>11, Zenon

\* HandlePDU keeps the version a number.
LEMMA DowngradedIsVersion ==
  ASSUME NEW q \in ClientConnected
  PROVE  Downgraded(Decode(Bytes(q)).version) \in Nat
  <1>1. PICK v : v = Decode(Bytes(q)).version
    BY Zenon
  <1>2. v \in Nat
    BY <1>1, QueryRead, SMT
  <1>3. Downgraded(v) \in Nat
    BY <1>2, DumpAssumption, Zenon DEF Downgraded
  <1> QED
    BY <1>1, <1>3, Zenon

-----------------------------------------------------------------------------
(* The run. *)

\* The inductive invariant.
DumpInv ==
  /\ Framing(sent, stream, handled, read, arrived)
  /\ \E ans : AnswerFor(ans, server, sent, todo)
  /\ DataFor(client, handled, data, out)
  /\ version \in Nat /\ query \in ClientConnected
  /\ client = "fatal" => server = "closed"

\* It holds before the client dials.
LEMMA DumpInitial == DumpInit => DumpInv
  <1> SUFFICES ASSUME DumpInit PROVE DumpInv
    OBVIOUS
  <1>1. PICK e : e = << >>
    BY Zenon
  <1>2. IsSeq(e) /\ Len(e) = 0
    BY <1>1, Tuples, NoOctets, Zenon
  <1>3. ~\E i \in 1 .. 0 : TRUE
    BY SMT
  <1>4. Framing(e, e, e, 0, 0)
    <2>1. PICK off : off = [i \in 0 .. 0 |-> 0]
      BY Zenon
    <2>2. off \in [0 .. 0 -> Nat] /\ off[0] = 0 /\ 0 \in Nat /\ 0 <= 0
      BY <2>1, SMT
    <2>3. Layout(off, e, e)
      BY <1>2, <1>3, <2>2, Zenon DEF Layout
    <2> QED
      BY <1>2, <1>3, <2>2, <2>3, Zenon DEF Framing
  <1>5. AnswerFor(e, "read", e, e)
    <2>1. IsAnswer(e)
      BY <1>2, <1>3, Zenon DEF IsAnswer
    <2>2. 0 <= 0 /\ 0 + 0 = 0 /\ \A k \in 0 .. 0 : k = 0
      BY SMT
    <2>3. Follows(e, 0, e, 0, e, 0)
      BY <1>3, <2>2, Zenon DEF Follows
    <2> QED
      BY <1>1, <1>2, <1>3, <2>1, <2>3, Zenon DEF AnswerFor
  <1>6. DataFor("dial", e, e, e)
    <2>1. "dial" \notin {"disconnected", "done"} /\ "dial" # "done"
      BY SMT
    <2> QED
      BY <1>2, <1>3, <2>1, Zenon DEF DataFor
  <1>7. /\ query \in ClientConnected /\ server = "read" /\ version = 0 /\ todo = e /\ sent = e
        /\ stream = e /\ arrived = 0 /\ read = 0 /\ client = "dial" /\ handled = e /\ data = e
        /\ out = e
    BY <1>1, Zenon DEF DumpInit
  <1>8. version \in Nat /\ client # "fatal"
    <2>1. version = 0 /\ client = "dial"
      BY <1>7, Zenon
    <2> QED
      BY <2>1, SMT
  <1> QED
    BY <1>4, <1>5, <1>6, <1>7, <1>8, Zenon DEF DumpInv

\* The server chooses an answer.
LEMMA DumpReadQuery == DumpInv /\ ReadQuery => DumpInv'
  <1> SUFFICES ASSUME DumpInv, ReadQuery PROVE DumpInv'
    OBVIOUS
  <1>1. PICK v : v = Downgraded(Decode(Bytes(query)).version)
    BY Zenon
  <1>2. v \in Nat
    BY <1>1, DowngradedIsVersion, Zenon DEF DumpInv
  <1>3. /\ version' = v /\ server = "read" /\ server' = "answer" /\ client = "loop"
        /\ todo' = SendVRPs(v) \/ todo' = SendNoDataError(v) \/ todo' = SendCacheReset(v)
    BY <1>1, Zenon DEF ReadQuery
  <1>4. UNCHANGED <<query, sent, stream, arrived, read, client, handled, data, out>>
    BY Zenon DEF ReadQuery, clientVars
  <1>5. IsAnswer(todo')
    BY <1>2, <1>3, Answers, Zenon
  <1>6. PICK no : AnswerFor(no, "read", sent, todo)
    BY <1>3, Zenon DEF DumpInv
  <1>7. IsSeq(sent)
    BY Zenon DEF DumpInv, Framing
  <1>8. AnswerFor(todo', "answer", sent, todo')
    BY <1>5, <1>6, <1>7, AnswerChosen, Zenon
  <1>9. "loop" # "fatal"
    BY SMT
  <1> QED
    BY <1>2, <1>3, <1>4, <1>8, <1>9, Zenon DEF DumpInv

\* The server closes.
LEMMA DumpClosed ==
  ASSUME DumpInv, server' = "closed",
         UNCHANGED <<query, version, todo, sent, stream, arrived, read, handled, data, out>>,
         \/ client' = client
         \/ client' = "fatal" /\ client \notin {"disconnected", "done"}
  PROVE  DumpInv'
  <1>1. "closed" # "read" /\ "fatal" \notin {"disconnected", "done"} /\ "fatal" # "done"
    BY SMT
  <1>2. PICK ans : AnswerFor(ans, server, sent, todo)
    BY Zenon DEF DumpInv
  <1>3. AnswerFor(ans, "closed", sent, todo)
    BY <1>1, <1>2, Zenon DEF AnswerFor
  <1>4. DataFor(client', handled, data, out)
    BY <1>1, Zenon DEF DumpInv, DataFor
  <1> QED
    BY <1>3, <1>4, Zenon DEF DumpInv

\* The server writes a PDU of the answer.
LEMMA DumpSendAnswer == DumpInv /\ SendAnswer => DumpInv'
  <1> SUFFICES ASSUME DumpInv, SendAnswer PROVE DumpInv'
    OBVIOUS
  <1>1. /\ server = "answer" /\ todo # << >> /\ sent' = Append(sent, Head(todo))
        /\ stream' = stream \o Bytes(Head(todo)) /\ todo' = Tail(todo)
    BY Zenon DEF SendAnswer, Write
  <1>2. UNCHANGED <<query, server, version, arrived, read, client, handled, data, out>>
    BY Zenon DEF SendAnswer, clientVars
  <1>3. PICK ans : AnswerFor(ans, server, sent, todo)
    BY Zenon DEF DumpInv
  <1>4. server # "read"
    <2>1. "answer" # "read"
      BY SMT
    <2> QED
      BY <1>1, <2>1, Zenon
  <1>5. IsSeq(sent) /\ todo # << >>
    BY <1>1, Zenon DEF DumpInv, Framing
  <1>6. Writable(Head(todo)) /\ AnswerFor(ans, server, Append(sent, Head(todo)), Tail(todo))
    BY <1>3, <1>4, <1>5, AnswerSent, Zenon
  <1>7. Framing(Append(sent, Head(todo)), stream \o Bytes(Head(todo)), handled, read, arrived)
    <2>1. Framing(sent, stream, handled, read, arrived)
      BY Zenon DEF DumpInv
    <2> QED
      BY <1>6, <2>1, FramingWrite, Zenon
  <1> QED
    BY <1>1, <1>2, <1>6, <1>7, Zenon DEF DumpInv

\* The server writes a notification.
LEMMA DumpSendNotify == DumpInv /\ SendNotify => DumpInv'
  <1> SUFFICES ASSUME DumpInv, SendNotify PROVE DumpInv'
    OBVIOUS
  <1>1. PICK pdu : pdu = [NewPdu(SERIAL_NOTIFY, version) EXCEPT !.session = Session, !.serial = Serial]
    BY Zenon
  <1>2. sent' = Append(sent, pdu) /\ stream' = stream \o Bytes(pdu)
    BY <1>1, Zenon DEF SendNotify, Write
  <1>3. UNCHANGED <<query, server, version, todo, arrived, read, client, handled, data, out>>
    BY Zenon DEF SendNotify, clientVars
  <1>4. version \in Nat
    BY Zenon DEF DumpInv
  <1>5. Writable(pdu)
    BY <1>1, <1>4, Answers, ZenonT(30)
  <1>6. pdu.type = SERIAL_NOTIFY
    <2>1. pdu = PduOf(SERIAL_NOTIFY, version, Session, Serial, <<0, 0, 0>>, 0, << >>, 0, 0, 0, << >>, << >>)
      BY <1>1, ServerPdus, Zenon
    <2> QED
      BY <2>1, GetField, SMT
  <1>7. PICK ans : AnswerFor(ans, server, sent, todo)
    BY Zenon DEF DumpInv
  <1>8. AnswerFor(ans, server, Append(sent, pdu), todo)
    <2>1. IsSeq(sent)
      BY Zenon DEF DumpInv, Framing
    <2> QED
      BY <1>6, <1>7, <2>1, NotifySent, Zenon
  <1>9. Framing(Append(sent, pdu), stream \o Bytes(pdu), handled, read, arrived)
    <2>1. Framing(sent, stream, handled, read, arrived)
      BY Zenon DEF DumpInv
    <2> QED
      BY <1>5, <2>1, FramingWrite, Zenon
  <1> QED
    BY <1>2, <1>3, <1>8, <1>9, Zenon DEF DumpInv

\* What has arrived and is not read.
LEMMA InboxArrived ==
  ASSUME DumpInv
  PROVE  /\ Framing(sent, stream, handled, read, arrived)
         /\ Arrived(Inbox, stream, read, arrived)
  BY Zenon DEF DumpInv, Framing, Arrived, Inbox

\* Decode does not fail on whole PDUs.
LEMMA DumpDecodeFails == DumpInv /\ DecodeFails => DumpInv'
  <1> SUFFICES ASSUME DumpInv, DecodeFails PROVE DumpInv'
    OBVIOUS
  <1>1. ASSUME Complete(Inbox) PROVE Decode(Inbox) # Malformed
    <2>1. PICK b : b = Inbox
      BY Zenon
    <2>2. Framing(sent, stream, handled, read, arrived) /\ Arrived(b, stream, read, arrived)
      BY <2>1, InboxArrived, Zenon
    <2>3. Complete(b)
      BY <1>1, <2>1, Zenon
    <2>4. /\ Len(handled) + 1 \in 1 .. Len(sent)
          /\ Decode(b) = Received(sent[Len(handled) + 1])
      BY <2>2, <2>3, FramingRead, Zenon
    <2>5. Writable(sent[Len(handled) + 1])
      BY <2>2, <2>4, Zenon DEF Framing
    <2>6. Decode(b) # Malformed
      BY <2>4, <2>5, ReceivedSame, Zenon
    <2> QED
      BY <2>1, <2>6, Zenon
  <1>2. server = "closed" /\ client = "loop" /\ client' = "fatal"
    BY <1>1, Zenon DEF DecodeFails
  <1>3. UNCHANGED <<query, server, version, todo, sent, stream, arrived, read, handled, data, out>>
    BY Zenon DEF DecodeFails, serverVars
  <1>4. client \notin {"disconnected", "done"}
    <2>1. "loop" \notin {"disconnected", "done"}
      BY SMT
    <2> QED
      BY <1>2, <2>1, Zenon
  <1>5. server' = "closed"
    BY <1>2, <1>3, Zenon
  <1> QED
    BY <1>2, <1>3, <1>4, <1>5, DumpClosed, Zenon

\* The client handles a PDU.
LEMMA DumpHandlePDU == DumpInv /\ HandlePDU => DumpInv'
  <1> SUFFICES ASSUME DumpInv, HandlePDU PROVE DumpInv'
    OBVIOUS
  <1>1. PICK b, d : b = Inbox /\ d = Decode(b)
    BY Zenon
  <1>2. /\ client = "loop" /\ Complete(b) /\ handled' = Append(handled, d)
        /\ data' = IF d.type \in {IPV4_PREFIX, IPV6_PREFIX} THEN Append(data, Entry(d)) ELSE data
        /\ client' = IF Ends(d) THEN "disconnected" ELSE "loop"
        /\ read' = read + Taken(b)
    BY <1>1, Zenon DEF HandlePDU
  <1>3. UNCHANGED <<query, server, version, todo, sent, stream, arrived, out>>
    BY Zenon DEF HandlePDU, serverVars
  <1>4. Framing(sent, stream, handled, read, arrived) /\ Arrived(b, stream, read, arrived)
    BY <1>1, InboxArrived, Zenon
  <1>5. Complete(b)
    BY <1>2, Zenon
  <1>6. /\ Len(handled) + 1 \in 1 .. Len(sent)
        /\ Decode(b) = Received(sent[Len(handled) + 1])
        /\ Framing(sent, stream, Append(handled, Decode(b)), read + Taken(b), arrived)
    BY <1>4, <1>5, FramingRead, Zenon
  <1>7. PICK ans : AnswerFor(ans, server, sent, todo)
    BY Zenon DEF DumpInv
  <1>8. DataFor("loop", handled, data, out)
    BY <1>2, Zenon DEF DumpInv
  <1>9. Len(handled) + 1 \in 1 .. Len(sent) /\ d = Received(sent[Len(handled) + 1])
    BY <1>1, <1>6, Zenon
  <1>10. DataFor(IF Ends(d) THEN "disconnected" ELSE "loop", Append(handled, d),
                 IF d.type \in {IPV4_PREFIX, IPV6_PREFIX} THEN Append(data, Entry(d)) ELSE data, out)
    BY <1>4, <1>7, <1>8, <1>9, DataHandled, SMT
  <1>11. DataFor(client', handled', data', out')
    BY <1>2, <1>3, <1>10, Zenon
  <1>12. Framing(sent', stream', handled', read', arrived')
    BY <1>1, <1>2, <1>3, <1>6, Zenon
  <1>13. client' # "fatal"
    <2>1. "disconnected" # "fatal" /\ "loop" # "fatal"
      BY SMT
    <2> QED
      BY <1>2, <2>1, Zenon
  <1>14. AnswerFor(ans, server', sent', todo')
    BY <1>3, <1>7, Zenon
  <1>15. version' \in Nat /\ query' \in ClientConnected
    BY <1>3, Zenon DEF DumpInv
  <1> QED
    BY <1>11, <1>12, <1>13, <1>14, <1>15, Zenon DEF DumpInv

\* The other steps of the client and of the network.
LEMMA DumpOther ==
  DumpInv /\ (ReadPart \/ ServerCloses \/ Deliver \/ Start \/ StartFails \/ WriteFile) => DumpInv'
  <1> SUFFICES ASSUME DumpInv,
                      ReadPart \/ ServerCloses \/ Deliver \/ Start \/ StartFails \/ WriteFile
               PROVE  DumpInv'
    OBVIOUS
  <1>1. /\ "dial" \notin {"disconnected", "done"} /\ "loop" \notin {"disconnected", "done"}
        /\ "loop" # "done" /\ "loop" # "fatal" /\ "done" # "fatal"
        /\ "disconnected" \in {"disconnected", "done"} /\ "done" \in {"disconnected", "done"}
    BY SMT
  <1>2. ASSUME ReadPart \/ ServerCloses PROVE DumpInv'
    <2>1. /\ server' = "closed" /\ client' = client
          /\ UNCHANGED <<query, version, todo, sent, stream, arrived, read, handled, data, out>>
      BY <1>2, Zenon DEF ReadPart, ServerCloses, clientVars
    <2> QED
      BY <2>1, DumpClosed, Zenon
  <1>3. ASSUME StartFails PROVE DumpInv'
    <2>1. /\ server' = "closed" /\ client' = "fatal" /\ client = "dial"
          /\ UNCHANGED <<query, version, todo, sent, stream, arrived, read, handled, data, out>>
      BY <1>3, Zenon DEF StartFails
    <2>2. client \notin {"disconnected", "done"}
      BY <1>1, <2>1, Zenon
    <2> QED
      BY <2>1, <2>2, DumpClosed, Zenon
  <1>4. ASSUME Deliver PROVE DumpInv'
    <2>1. /\ arrived' \in arrived + 1 .. Len(stream)
          /\ UNCHANGED <<query, server, version, todo, sent, stream, read, client, handled, data, out>>
      BY <1>4, Zenon DEF Deliver, serverVars, clientVars
    <2>2. Framing(sent, stream, handled, read, arrived)
      BY Zenon DEF DumpInv
    <2>3. Framing(sent, stream, handled, read, arrived')
      BY <2>1, <2>2, FramingArrive, Zenon
    <2> QED
      BY <2>1, <2>3, Zenon DEF DumpInv
  <1>5. ASSUME Start PROVE DumpInv'
    <2>1. /\ client = "dial" /\ client' = "loop"
          /\ UNCHANGED <<query, server, version, todo, sent, stream, arrived, read, handled, data, out>>
      BY <1>5, Zenon DEF Start, serverVars
    <2>2. DataFor("dial", handled, data, out)
      BY <2>1, Zenon DEF DumpInv
    <2>3. DataFor("loop", handled, data, out)
      BY <1>1, <2>2, Zenon DEF DataFor
    <2> QED
      BY <1>1, <2>1, <2>3, Zenon DEF DumpInv
  <1>6. ASSUME WriteFile PROVE DumpInv'
    <2>1. /\ client = "disconnected" /\ client' = "done" /\ out' = data
          /\ UNCHANGED <<query, server, version, todo, sent, stream, arrived, read, handled, data>>
      BY <1>6, Zenon DEF WriteFile, serverVars
    <2>2. DataFor("disconnected", handled, data, out)
      BY <2>1, Zenon DEF DumpInv
    <2>3. DataFor("done", handled, data, data)
      BY <1>1, <2>2, Zenon DEF DataFor
    <2> QED
      BY <1>1, <2>1, <2>3, Zenon DEF DumpInv
  <1> QED
    BY <1>2, <1>3, <1>4, <1>5, <1>6, Zenon

\* Every step keeps the invariant.
LEMMA DumpStep == DumpInv /\ [DumpNext]_dumpVars => DumpInv'
  <1> SUFFICES ASSUME DumpInv, [DumpNext]_dumpVars PROVE DumpInv'
    OBVIOUS
  <1>1. CASE DumpNext
    BY <1>1, DumpReadQuery, DumpSendAnswer, DumpSendNotify, DumpDecodeFails, DumpHandlePDU,
       DumpOther, Zenon DEF DumpNext, ServerStep, ClientStep
  <1>2. CASE UNCHANGED dumpVars
    BY <1>2, Zenon DEF dumpVars, serverVars, clientVars, DumpInv
  <1> QED
    BY <1>1, <1>2

\* DumpInv in every state.
LEMMA DumpAlways == DumpSpec => []DumpInv
  BY DumpInitial, DumpStep, PTL DEF DumpSpec

\* However the stream is cut and whatever notifications come in between, the
\* client handles the PDUs the server wrote, one for one and in order, and fails
\* only where the stream ends: for all VRPs, base versions and notifications.
THEOREM FramingIsExact == DumpSpec => []FramingExact
  <1>1. DumpInv => FramingExact
    <2> SUFFICES ASSUME DumpInv PROVE FramingExact
      OBVIOUS
    <2>1. /\ IsSeq(handled) /\ Len(handled) <= Len(sent)
          /\ \A i \in 1 .. Len(handled) : handled[i] = Received(sent[i])
      BY Zenon DEF DumpInv, Framing
    <2>2. DOMAIN handled = 1 .. Len(handled)
      <3>1. PICK S : handled \in Seq(S)
        BY <2>1, Zenon DEF IsSeq
      <3> QED
        BY <3>1, SMT
    <2> QED
      BY <2>1, <2>2, Zenon DEF DumpInv, FramingExact
  <1> QED
    BY <1>1, DumpAlways, PTL

\* A file that is written after an End of Data has exactly the VRPs of the
\* answer, in order.
THEOREM DumpIsExact == DumpSpec => []DumpExact
  <1>1. DumpInv => DumpExact
    <2> SUFFICES ASSUME DumpInv, client = "done", handled[Len(handled)].type = END_OF_DATA
                 PROVE  out = [i \in DOMAIN Vrps |-> Entry(Vrps[i])]
      BY Zenon DEF DumpExact
    <2>1. PICK n, f : n = Len(Vrps) /\ f = [i \in DOMAIN Vrps |-> Entry(Vrps[i])]
      BY Zenon
    <2>2. n \in Nat /\ DOMAIN Vrps = 1 .. n
      <3>1. PICK R : Vrps \in Seq(R)
        BY DumpAssumption, Zenon
      <3> QED
        BY <2>1, <3>1, SMT
    <2>3. IsSeq(f) /\ Len(f) = n /\ \A i \in 1 .. n : f[i] = Entry(Vrps[i])
      <3>1. f = [i \in 1 .. n |-> Entry(Vrps[i])]
        BY <2>1, <2>2, Zenon
      <3>2. PICK F : F = {Entry(Vrps[i]) : i \in 1 .. n}
        BY Zenon
      <3>3. f \in Seq(F) /\ Len(f) = n /\ \A i \in 1 .. n : f[i] = Entry(Vrps[i])
        BY <2>2, <3>1, <3>2, SMT
      <3> QED
        BY <3>3, Zenon DEF IsSeq
    <2>4. DataFor("done", handled, data, out)
      BY Zenon DEF DumpInv
    <2>5. "done" \in {"disconnected", "done"}
      BY SMT
    <2>6. /\ IsSeq(out) /\ Len(out) = n
          /\ \A i \in 1 .. Len(out) : out[i] = Entry(Vrps[i])
      BY <2>1, <2>4, <2>5, Zenon DEF DataFor
    <2>7. Len(out) = Len(f) /\ \A k \in 1 .. Len(out) : out[k] = f[k]
      BY <2>3, <2>6, Zenon
    <2>8. out = f
      BY <2>3, <2>6, <2>7, SameOctets, Zenon
    <2> QED
      BY <2>1, <2>8, Zenon
  <1> QED
    BY <1>1, DumpAlways, PTL

=============================================================================
