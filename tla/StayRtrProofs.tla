---------------------------- MODULE StayRtrProofs ----------------------------
(***************************************************************************)
(* What stayrtr serves is what the two files say, what is exported is what *)
(* is served, and conditional requests hide nothing, for any address       *)
(* length, files, flags and bounds.                                        *)
(***************************************************************************)
EXTENDS StayRtr, ListFacts

-----------------------------------------------------------------------------
(* Powers of two. *)

\* The first n + 1 powers of two.
Powers(g, n) == g = [i \in 0 .. n |-> IF i = 0 THEN 1 ELSE 2 * g[i - 1]]

\* They exist, however many.
LEMMA PowersExist ==
  ASSUME NEW k \in Nat
  PROVE  \E g : Powers(g, k)
<1> DEFINE A == {n \in Nat : \E g : Powers(g, n)}
<1>1. 0 \in A
  <2> DEFINE g == [i \in 0 .. 0 |-> 1]
  <2>1. Powers(g, 0)
    BY DEF Powers
  <2> QED
    BY <2>1
<1>2. ASSUME NEW n \in Nat, n \in A
      PROVE  n + 1 \in A
  <2>1. PICK g : Powers(g, n)
    BY <1>2
  <2> DEFINE h == [i \in 0 .. n + 1 |-> IF i = n + 1 THEN 2 * g[n] ELSE g[i]]
  <2>2. \A i \in 0 .. n : h[i] = g[i]
    OBVIOUS
  <2>3. h[n + 1] = 2 * h[n]
    OBVIOUS
  <2>4. \A i \in 0 .. n : g[i] = IF i = 0 THEN 1 ELSE 2 * g[i - 1]
    BY <2>1, Zenon DEF Powers
  <2>5. h = [i \in 0 .. n + 1 |-> h[i]]
    OBVIOUS
  <2> HIDE DEF h
  <2>6. \A i \in 0 .. n + 1 : h[i] = IF i = 0 THEN 1 ELSE 2 * h[i - 1]
    <3> TAKE i \in 0 .. n + 1
    <3>1. CASE i = n + 1
      BY <2>3, <3>1
    <3>2. CASE i \in 0 .. n
      <4>1. i = 0 \/ i - 1 \in 0 .. n
        BY <3>2
      <4> QED
        BY <2>2, <2>4, <3>2, <4>1
    <3> QED
      BY <3>1, <3>2
  <2>7. Powers(h, n + 1)
    BY <2>5, <2>6, Zenon DEF Powers
  <2> QED
    BY <2>7
<1>3. Nat \subseteq A
  <2> HIDE DEF A
  <2> QED
    BY <1>1, <1>2, Induction
<1> QED
  BY <1>3

\* Two such lists agree as far as both go.
LEMMA PowersAgree ==
  ASSUME NEW n \in Nat, NEW g, Powers(g, n), NEW h, Powers(h, n + 1)
  PROVE  \A i \in 0 .. n : g[i] = h[i]
<1> DEFINE A == {i \in Nat : i <= n => g[i] = h[i]}
<1>1. \A i \in 0 .. n : g[i] = IF i = 0 THEN 1 ELSE 2 * g[i - 1]
  BY Zenon DEF Powers
<1>2. \A i \in 0 .. n + 1 : h[i] = IF i = 0 THEN 1 ELSE 2 * h[i - 1]
  BY Zenon DEF Powers
<1>3. 0 \in A
  BY <1>1, <1>2
<1>4. ASSUME NEW i \in Nat, i \in A
      PROVE  i + 1 \in A
  <2> SUFFICES ASSUME i + 1 <= n PROVE g[i + 1] = h[i + 1]
    OBVIOUS
  <2>1. i + 1 \in 0 .. n /\ i + 1 \in 0 .. n + 1 /\ i + 1 # 0 /\ (i + 1) - 1 = i /\ g[i] = h[i]
    BY <1>4
  <2>2. g[i + 1] = 2 * g[i]
    BY <1>1, <2>1
  <2>3. h[i + 1] = 2 * h[i]
    BY <1>2, <2>1
  <2> QED
    BY <2>1, <2>2, <2>3
<1>5. Nat \subseteq A
  <2> HIDE DEF A
  <2> QED
    BY <1>3, <1>4, Induction
<1> QED
  BY <1>5

\* Pow2 is the function its definition describes.
LEMMA Pow2Steps ==
  /\ Pow2[0] = 1
  /\ \A n \in Nat : Pow2[n + 1] = 2 * Pow2[n]
<1> DEFINE c(n) == CHOOSE g : Powers(g, n)
           f == [n \in Nat |-> c(n)[n]]
<1>1. \A n \in Nat : Powers(c(n), n)
  BY PowersExist
<1> HIDE DEF c
<1>2. f[0] = 1
  <2>1. Powers(c(0), 0)
    BY <1>1
  <2>2. c(0)[0] = 1
    BY <2>1 DEF Powers
  <2> QED
    BY <2>2
<1>3. ASSUME NEW n \in Nat
      PROVE  f[n + 1] = 2 * f[n]
  <2>1. Powers(c(n), n) /\ Powers(c(n + 1), n + 1)
    BY <1>1
  <2>2. c(n)[n] = c(n + 1)[n]
    BY <2>1, PowersAgree
  <2>3. c(n + 1)[n + 1] = 2 * c(n + 1)[n]
    <3>1. \A i \in 0 .. n + 1 : c(n + 1)[i] = IF i = 0 THEN 1 ELSE 2 * c(n + 1)[i - 1]
      BY <2>1, Zenon DEF Powers
    <3> QED
      BY <3>1
  <2> QED
    BY <2>2, <2>3
<1>4. f = [n \in Nat |-> f[n]]
  OBVIOUS
<1> HIDE DEF f
<1>5. \A n \in Nat : f[n] = IF n = 0 THEN 1 ELSE 2 * f[n - 1]
  <2> TAKE n \in Nat
  <2>1. n = 0 \/ (n - 1 \in Nat /\ (n - 1) + 1 = n)
    OBVIOUS
  <2> QED
    BY <1>2, <1>3, <2>1
<1>6. f = [n \in Nat |-> IF n = 0 THEN 1 ELSE 2 * f[n - 1]]
  BY <1>4, <1>5, Zenon
<1> DEFINE IsPow2(g) == g = [n \in Nat |-> IF n = 0 THEN 1 ELSE 2 * g[n - 1]]
<1>7. Pow2 = CHOOSE g : IsPow2(g)
  BY DEF Pow2
<1>8. IsPow2(Pow2)
  <2>1. IsPow2(f)
    BY <1>6
  <2> HIDE DEF IsPow2
  <2> QED
    BY <1>7, <2>1
<1>9. \A n \in Nat : Pow2[n] = IF n = 0 THEN 1 ELSE 2 * Pow2[n - 1]
  BY <1>8, Zenon
<1>10. \A n \in Nat : n + 1 \in Nat /\ n + 1 # 0 /\ (n + 1) - 1 = n
  OBVIOUS
<1> HIDE DEF IsPow2
<1>11. Pow2[0] = 1
  BY <1>9
<1> QED
  BY <1>9, <1>10, <1>11

\* Powers of two are positive ...
LEMMA Pow2Positive ==
  \A n \in Nat : Pow2[n] \in Nat \ {0}
<1> DEFINE A == {n \in Nat : Pow2[n] \in Nat \ {0}}
<1>1. 0 \in A
  BY Pow2Steps
<1>2. ASSUME NEW n \in Nat, n \in A
      PROVE  n + 1 \in A
  BY <1>2, Pow2Steps
<1>3. Nat \subseteq A
  <2> HIDE DEF A
  <2> QED
    BY <1>1, <1>2, Induction
<1> QED
  BY <1>3

\* ... and a greater one is a multiple of a smaller one.
LEMMA Pow2Divides ==
  ASSUME NEW m \in Nat
  PROVE  \A d \in Nat : \E q \in Nat : Pow2[m + d] = q * Pow2[m]
<1> DEFINE A == {d \in Nat : \E q \in Nat : Pow2[m + d] = q * Pow2[m]}
<1>1. 0 \in A
  <2>1. m + 0 = m /\ Pow2[m] = 1 * Pow2[m] /\ 1 \in Nat
    BY Pow2Positive
  <2> QED
    BY <2>1
<1>2. ASSUME NEW d \in Nat, d \in A
      PROVE  d + 1 \in A
  <2>1. PICK q \in Nat : Pow2[m + d] = q * Pow2[m]
    BY <1>2
  <2>2. m + d \in Nat /\ m + (d + 1) = (m + d) + 1
    OBVIOUS
  <2>3. Pow2[m + (d + 1)] = 2 * Pow2[m + d]
    BY <2>2, Pow2Steps
  <2>4. Pow2[m + (d + 1)] = (2 * q) * Pow2[m] /\ 2 * q \in Nat
    BY <2>1, <2>3, Pow2Positive
  <2> QED
    BY <2>4
<1>3. Nat \subseteq A
  <2> HIDE DEF A
  <2> QED
    BY <1>1, <1>2, Induction
<1> QED
  BY <1>3

-----------------------------------------------------------------------------
(* Prefixes as sets of addresses. *)

\* What \div and % compute.
LEMMA Division ==
  ASSUME NEW x \in Nat, NEW b \in Nat \ {0}
  PROVE  /\ x \div b \in Nat
         /\ x - (x % b) = b * (x \div b)
         /\ b * (x \div b) <= x
         /\ x < b * (x \div b) + b
<1>1. x = b * (x \div b) + (x % b)
  OBVIOUS
<1>2. x % b \in 0 .. b - 1
  OBVIOUS
<1>3. x \div b \in Nat
  OBVIOUS
<1>4. PICK q \in Nat, r \in Nat : q = x \div b /\ r = x % b
  BY <1>2, <1>3
<1>5. PICK m \in Nat : m = b * q
  OBVIOUS
<1> QED
  BY <1>1, <1>2, <1>4, <1>5

\* The multiples of b are at least b apart.
LEMMA Multiples ==
  ASSUME NEW b \in Nat \ {0}, NEW d \in Nat, NEW e \in Nat, d < e
  PROVE  b * d + b <= b * e
  OBVIOUS

\* \div counts the multiples of b up to x.
LEMMA Quotient ==
  ASSUME NEW x \in Nat, NEW b \in Nat \ {0}, NEW d \in Nat
  PROVE  x \div b = d <=> b * d <= x /\ x < b * d + b
<1>1. PICK q \in Nat : q = x \div b /\ b * q <= x /\ x < b * q + b
  BY Division
<1>2. d < q => b * d + b <= b * q
  BY Multiples
<1>3. q < d => b * q + b <= b * d
  BY Multiples
<1>4. PICK m \in Nat, n \in Nat : m = b * q /\ n = b * d
  OBVIOUS
<1>5. ASSUME n <= x, x < n + b PROVE q = d
  BY <1>1, <1>2, <1>3, <1>4, <1>5
<1> QED
  BY <1>1, <1>4, <1>5

\* A block of a power of two.
LEMMA BlockFacts ==
  ASSUME SlurmAssumption, NEW len \in 0 .. AddrBits
  PROVE  /\ Block(len) \in Nat \ {0}
         /\ \E k \in Nat : Pow2[AddrBits] = k * Block(len)
<1>1. AddrBits - len \in Nat /\ len \in Nat /\ (AddrBits - len) + len = AddrBits
  BY DEF SlurmAssumption
<1>2. PICK k \in Nat : Pow2[(AddrBits - len) + len] = k * Pow2[AddrBits - len]
  BY <1>1, Pow2Divides, Zenon
<1>3. Pow2[AddrBits] = k * Block(len)
  BY <1>1, <1>2 DEF Block
<1>4. Block(len) \in Nat \ {0}
  BY <1>1, Pow2Positive DEF Block
<1> QED
  BY <1>3, <1>4

\* The first address of p's block.
Base(p) == Block(p.len) * (p.ip \div Block(p.len))

\* A prefix and its block lie among the addresses.
LEMMA BlockInSpace ==
  ASSUME SlurmAssumption, NEW p \in Prefixes
  PROVE  /\ p.len \in 0 .. AddrBits /\ p.ip \in Nat
         /\ Block(p.len) \in Nat \ {0}
         /\ p.ip \div Block(p.len) \in Nat
         /\ Base(p) \in Nat
         /\ Base(p) + Block(p.len) <= Pow2[AddrBits]
         /\ Pow2[AddrBits] \in Nat
<1>1. p.len \in 0 .. AddrBits /\ p.ip \in 0 .. Pow2[AddrBits] - 1
  BY DEF Prefixes
<1>2. Pow2[AddrBits] \in Nat
  BY Pow2Positive DEF SlurmAssumption
<1>3. p.ip \in Nat /\ p.ip < Pow2[AddrBits]
  BY <1>1, <1>2
<1>4. PICK b \in Nat \ {0} : b = Block(p.len)
  BY <1>1, BlockFacts
<1>5. PICK k \in Nat : Pow2[AddrBits] = k * b
  BY <1>1, <1>4, BlockFacts
<1>6. PICK q \in Nat : q = p.ip \div b /\ b * q <= p.ip
  BY <1>3, Division, Zenon
<1>7. b * q \in Nat
  OBVIOUS
<1>8. b * q + b <= k * b
  <2>1. k * b = b * k
    OBVIOUS
  <2>2. q < k => b * q + b <= b * k
    BY Multiples
  <2>3. k <= q => b * k <= b * q
    <3>1. k < q => b * k + b <= b * q
      BY Multiples
    <3> QED
      BY <3>1
  <2>4. PICK m \in Nat, n \in Nat : m = b * q /\ n = b * k
    OBVIOUS
  <2> QED
    BY <1>3, <1>5, <1>6, <2>1, <2>2, <2>3, <2>4
<1> QED
  BY <1>1, <1>2, <1>3, <1>4, <1>5, <1>6, <1>7, <1>8 DEF Base

\* An address of p is between the first and the last of its block.
LEMMA AddressesAreRange ==
  ASSUME SlurmAssumption, NEW p \in Prefixes
  PROVE  Addresses(p) = Base(p) .. Base(p) + Block(p.len) - 1
<1>1. PICK b \in Nat \ {0} : b = Block(p.len)
  BY BlockInSpace
<1>2. PICK q \in Nat : q = p.ip \div b
  BY <1>1, BlockInSpace
<1>3. PICK m \in Nat : m = b * q
  OBVIOUS
<1>4. PICK s \in Nat : s = Pow2[AddrBits] /\ m + b <= s
  BY <1>1, <1>2, <1>3, BlockInSpace DEF Base
<1>5. \A x \in Nat : x \div b = q <=> m <= x /\ x < m + b
  BY <1>3, Quotient
<1>6. Addresses(p) = {x \in 0 .. s - 1 : x \div b = q}
  BY <1>1, <1>2, <1>4, Zenon DEF Addresses
<1>7. \A x : x \in 0 .. s - 1 /\ x \div b = q <=> x \in m .. m + b - 1
  <2>1. ASSUME NEW x \in 0 .. s - 1, x \div b = q PROVE x \in m .. m + b - 1
    <3>1. x \in Nat
      OBVIOUS
    <3>2. m <= x /\ x < m + b
      BY <1>5, <2>1, <3>1, Zenon
    <3> QED
      BY <3>1, <3>2
  <2>2. ASSUME NEW x \in m .. m + b - 1 PROVE x \in 0 .. s - 1 /\ x \div b = q
    <3>1. x \in Nat /\ m <= x /\ x < m + b
      OBVIOUS
    <3>2. x \div b = q
      BY <1>5, <3>1, Zenon
    <3>3. x \in 0 .. s - 1
      BY <1>4, <3>1
    <3> QED
      BY <3>2, <3>3
  <2> QED
    BY <2>1, <2>2, Zenon
<1>8. Base(p) = m
  BY <1>1, <1>2, <1>3 DEF Base
<1> QED
  BY <1>1, <1>6, <1>7, <1>8, Zenon

\* GetPrefix keeps the family, the length and the addresses, and makes the
\* address the first of them.
LEMMA Cleared ==
  ASSUME SlurmAssumption, None \notin Prefixes, NEW v, v.prefix \in Prefixes
  PROVE  /\ GetPrefix(v) # None
         /\ GetPrefix(v).fam = v.prefix.fam
         /\ GetPrefix(v).len = v.prefix.len
         /\ GetPrefix(v).ip = Base(v.prefix)
         /\ Addresses(GetPrefix(v)) = Addresses(v.prefix)
<1>1. PICK p \in Prefixes : p = v.prefix
  OBVIOUS
<1>2. PICK b \in Nat \ {0} : b = Block(p.len)
  BY BlockInSpace
<1>3. PICK q \in Nat : q = p.ip \div b
  BY <1>2, BlockInSpace
<1>4. p.ip \in Nat /\ p.ip - (p.ip % b) = b * q
  BY <1>3, BlockInSpace, Division, Zenon
<1>5. PICK m \in Nat : m = b * q
  OBVIOUS
<1>6. Base(p) = m /\ m + b <= Pow2[AddrBits] /\ Pow2[AddrBits] \in Nat
  <2>1. Base(p) = m
    BY <1>2, <1>3, <1>5 DEF Base
  <2> QED
    BY <1>2, <2>1, BlockInSpace
<1>7. GetPrefix(v) = [p EXCEPT !.ip = m]
  <2>1. v.prefix # None
    OBVIOUS
  <2>2. GetPrefix(v) = [p EXCEPT !.ip = p.ip - (p.ip % b)]
    BY <1>1, <1>2, <2>1, Zenon DEF GetPrefix
  <2> QED
    BY <1>4, <1>5, <2>2
<1>8. PICK g : g = [p EXCEPT !.ip = m]
  BY Zenon
<1>9. g \in Prefixes /\ g.fam = p.fam /\ g.len = p.len /\ g.ip = m
  <2>1. m \in 0 .. Pow2[AddrBits] - 1
    BY <1>6
  <2> QED
    BY <1>8, <2>1 DEF Prefixes
<1>10. m \div b = q
  BY <1>5, Quotient
<1>11. Addresses(g) = Addresses(p)
  BY <1>2, <1>3, <1>9, <1>10 DEF Addresses
<1> QED
  BY <1>1, <1>6, <1>7, <1>8, <1>9, <1>11

\* IPNet.Contains is membership in the addresses of the filter's prefix.
LEMMA ContainsIsMembership ==
  ASSUME SlurmAssumption, None \notin Prefixes, NEW f, f.prefix \in Prefixes,
         NEW fam, NEW ip \in Nat
  PROVE  Contains(GetPrefix(f), fam, ip) <=>
           fam = f.prefix.fam /\ ip \in Addresses(f.prefix)
<1>1. PICK p \in Prefixes : p = f.prefix
  OBVIOUS
<1>2. PICK b \in Nat \ {0} : b = Block(p.len)
  BY BlockInSpace
<1>3. PICK q \in Nat : q = p.ip \div b
  BY <1>2, BlockInSpace
<1>4. PICK m \in Nat : m = b * q
  OBVIOUS
<1>5. Base(p) = m
  BY <1>2, <1>3, <1>4 DEF Base
<1>6. Addresses(p) = m .. m + b - 1
  BY <1>2, <1>5, AddressesAreRange
<1>7. Contains(GetPrefix(f), fam, ip) <=> fam = p.fam /\ ip - (ip % b) = m
  BY <1>1, <1>2, <1>5, Cleared, Zenon DEF Contains
<1>8. ip - (ip % b) = m <=> m <= ip /\ ip < m + b
  <2>1. PICK d \in Nat : d = ip \div b /\ ip - (ip % b) = b * d /\ b * d <= ip /\ ip < b * d + b
    BY Division, Zenon
  <2>2. d = q <=> m <= ip /\ ip < m + b
    BY <1>4, <2>1, Quotient
  <2>3. b * d = m => m <= ip /\ ip < m + b
    BY <2>1
  <2>4. d = q => b * d = m
    BY <1>4
  <2> QED
    BY <2>1, <2>2, <2>3, <2>4
<1>9. ip - (ip % b) = m <=> ip \in m .. m + b - 1
  BY <1>8
<1> QED
  BY <1>1, <1>6, <1>7, <1>9, Zenon

\* FilterOnVRPs looks whether the first and the last address of a VRP's prefix
\* are inside the filter's.  For any address length that is so exactly where all
\* of its addresses are, host bits in the files or not.
THEOREM InsideIsSubset ==
  ASSUME SlurmAssumption, None \notin Prefixes,
         NEW v, v.prefix \in Prefixes, NEW f, f.prefix \in Prefixes
  PROVE  Inside(GetPrefix(v), GetPrefix(f)) <=>
           /\ f.prefix.fam = v.prefix.fam
           /\ Addresses(v.prefix) \subseteq Addresses(f.prefix)
<1>1. PICK m \in Nat, b \in Nat \ {0} : m = Base(v.prefix) /\ b = Block(v.prefix.len)
  BY BlockInSpace
<1>2. PICK n \in Nat, c \in Nat \ {0} : n = Base(f.prefix) /\ c = Block(f.prefix.len)
  BY BlockInSpace
<1>3. Addresses(v.prefix) = m .. m + b - 1 /\ Addresses(f.prefix) = n .. n + c - 1
  BY <1>1, <1>2, AddressesAreRange
<1>4. GetPrefix(v).ip = m /\ GetPrefix(v).fam = v.prefix.fam /\ GetPrefix(v).len = v.prefix.len
  BY <1>1, Cleared, Zenon
<1>5. GetIPBroadcast(GetPrefix(v)) = m + b - 1 /\ m + b - 1 \in Nat
  BY <1>1, <1>4 DEF GetIPBroadcast
<1>6. PICK l \in Nat : l = m + b - 1
  BY <1>5
<1>7. Inside(GetPrefix(v), GetPrefix(f)) <=>
        f.prefix.fam = v.prefix.fam /\ m \in Addresses(f.prefix) /\ l \in Addresses(f.prefix)
  BY <1>4, <1>5, <1>6, ContainsIsMembership, Zenon DEF Inside
<1>8. m .. l \subseteq n .. n + c - 1 <=> m \in n .. n + c - 1 /\ l \in n .. n + c - 1
  <2>1. m \in m .. l /\ l \in m .. l
    BY <1>6
  <2>2. ASSUME m \in n .. n + c - 1, l \in n .. n + c - 1, NEW x \in m .. l
        PROVE  x \in n .. n + c - 1
    BY <2>2
  <2> QED
    BY <2>1, <2>2, Zenon
<1> QED
  BY <1>3, <1>6, <1>7, <1>8, Zenon

-----------------------------------------------------------------------------
(* From the entries of the files to the VRPs. *)

\* The conversion of an AS number that fits is the identity.
LEMMA Uint32Fits ==
  ASSUME SlurmAssumption, NEW asn \in AsNumbers
  PROVE  Uint32(asn) = asn
<1>1. PICK b \in Nat \ {0} : b = Pow2[AsnBits]
  BY Pow2Positive DEF SlurmAssumption
<1>2. PICK x \in Nat : x = asn /\ x < b
  BY <1>1 DEF AsNumbers
<1>3. x \div b = 0
  <2>1. b * 0 = 0 /\ 0 <= x /\ x < 0 + b /\ 0 \in Nat
    BY <1>2
  <2> QED
    BY <2>1, Quotient
<1>4. x - (x % b) = b * (x \div b) /\ x % b \in 0 .. b - 1
  BY Division
<1>5. PICK r \in Nat : r = x % b
  BY <1>4
<1>6. x - r = b * 0
  BY <1>3, <1>4, <1>5
<1>7. r = x
  BY <1>6
<1> QED
  BY <1>1, <1>2, <1>5, <1>7 DEF Uint32

\* For an entry that is served, a filter matches where it covers the entry, if
\* their AS numbers fit.
LEMMA MatchIsCovered ==
  ASSUME SlurmAssumption, None \notin Prefixes,
         NEW v \in VRPJson, WellFormed(v), v.asn \in AsNumbers \cup {None},
         NEW f \in SlurmPrefixFilter, f.asn \in AsNumbers \cup {None}
  PROVE  Match(v, f) <=> Covered(v, f)
<1>1. v.prefix \in Prefixes /\ v.asn # None
  BY DEF VRPJson, WellFormed
<1>2. GetASN(v) = v.asn /\ (f.asn # None => Uint32(f.asn) = f.asn)
  BY <1>1, Uint32Fits, Zenon DEF GetASN
<1>3. GetPrefix(v) # None
  BY <1>1, Cleared, Zenon
<1>4. CASE f.prefix = None
  <2>1. GetPrefix(f) = None
    BY <1>4, Zenon DEF GetPrefix
  <2> QED
    BY <1>2, <1>4, <2>1, Zenon DEF Match, Covered
<1>5. CASE f.prefix # None
  <2>1. f.prefix \in Prefixes
    BY <1>5 DEF SlurmPrefixFilter
  <2>2. GetPrefix(f) # None
    BY <2>1, Cleared, Zenon
  <2>3. Inside(GetPrefix(v), GetPrefix(f)) <=>
           /\ f.prefix.fam = v.prefix.fam
           /\ Addresses(v.prefix) \subseteq Addresses(f.prefix)
    BY <1>1, <2>1, InsideIsSubset, Zenon
  <2> QED
    BY <1>2, <1>3, <1>5, <2>2, <2>3, Zenon DEF Match, Covered
<1> QED
  BY <1>4, <1>5

\* An entry in the form of Meaning and Expected.
Told(v) == <<v.prefix.fam, Addresses(v.prefix), v.asn, v.max>>

\* processData serves the well-formed entries.
LEMMA ProcessedAreWellFormed ==
  ASSUME SlurmAssumption, None \notin Prefixes,
         NEW S, \A v \in S : /\ v.prefix \in Prefixes \cup {None} /\ v.max \in Int
                           /\ v.asn \in AsNumbers \cup {None}
  PROVE  Meaning(processData(S)) = {Told(v) : v \in {w \in S : WellFormed(w)}}
<1> DEFINE V(w) == w.prefix # None /\ w.asn # None /\ isValidPrefixLength(w.prefix, w.max)
           h(v) == [prefix |-> GetPrefix(v), asn |-> GetASN(v), max |-> v.max]
<1>1. ASSUME NEW w \in S PROVE V(w) <=> WellFormed(w)
  <2>1. CASE w.prefix = None
    BY <2>1, Zenon DEF WellFormed
  <2>2. CASE w.prefix # None
    <3>1. w.prefix \in Prefixes
      BY <2>2
    <3>2. w.prefix.len \in 0 .. AddrBits
      BY <3>1, Zenon DEF Prefixes
    <3>3. PICK l \in Nat : l = w.prefix.len
      BY <3>2
    <3>4. PICK x \in Int : x = w.max
      OBVIOUS
    <3>5. isValidPrefixLength(w.prefix, w.max) <=> l \in 1 .. x /\ x <= AddrBits
      BY <3>3, <3>4 DEF isValidPrefixLength
    <3> QED
      BY <3>3, <3>4, <3>5, Zenon DEF WellFormed
  <2> QED
    BY <2>1, <2>2
<1>2. ASSUME NEW w \in S, WellFormed(w) PROVE Told(h(w)) = Told(w)
  <2>1. w.prefix \in Prefixes
    BY <1>2, Zenon DEF WellFormed
  <2>2. GetPrefix(w).fam = w.prefix.fam /\ Addresses(GetPrefix(w)) = Addresses(w.prefix)
    BY <2>1, Cleared, Zenon
  <2>3. h(w).prefix = GetPrefix(w) /\ h(w).asn = GetASN(w) /\ h(w).max = w.max
    OBVIOUS
  <2>4. GetASN(w) = w.asn
    BY <1>2, Uint32Fits, Zenon DEF GetASN, WellFormed
  <2> QED
    BY <2>2, <2>3, <2>4, Zenon DEF Told
<1>3. processData(S) = {h(v) : v \in {w \in S : V(w)}}
  BY Zenon DEF processData
<1>4. Meaning(processData(S)) = {Told(u) : u \in processData(S)}
  BY Zenon DEF Meaning, Told
<1> HIDE DEF V, h
<1>5. ASSUME NEW t
      PROVE  t \in Meaning(processData(S)) <=> t \in {Told(v) : v \in {w \in S : WellFormed(w)}}
  <2>1. ASSUME t \in Meaning(processData(S))
        PROVE  t \in {Told(v) : v \in {w \in S : WellFormed(w)}}
    <3>1. PICK u \in processData(S) : t = Told(u)
      BY <1>4, <2>1, Zenon
    <3>2. PICK v \in S : V(v) /\ u = h(v)
      BY <1>3, <3>1, Zenon
    <3>3. WellFormed(v) /\ t = Told(v)
      BY <1>1, <1>2, <3>1, <3>2, Zenon
    <3> QED
      BY <3>3, Zenon
  <2>2. ASSUME t \in {Told(v) : v \in {w \in S : WellFormed(w)}}
        PROVE  t \in Meaning(processData(S))
    <3>1. PICK v \in S : WellFormed(v) /\ t = Told(v)
      BY <2>2, Zenon
    <3>2. V(v) /\ t = Told(h(v))
      BY <1>1, <1>2, <3>1, Zenon
    <3>3. h(v) \in processData(S)
      BY <1>3, <3>2, Zenon
    <3> QED
      BY <1>4, <3>2, <3>3, Zenon
  <2> QED
    BY <2>1, <2>2, Zenon
<1> QED
  BY <1>5, Zenon

\* An assertion as the operator means it.
Meant(a) == [a EXCEPT !.max = IF @ < a.prefix.len THEN a.prefix.len ELSE @]

\* AssertVRPs adds the assertions that are meant, where uint8() is the identity.
LEMMA AssertedIsMeant ==
  ASSUME SlurmAssumption, None \notin Prefixes,
         NEW S, S \subseteq SlurmPrefixAssertion, \A a \in S : a.max <= 255,
         NEW v, WellFormed(v)
  PROVE  v \in AssertVRPs(S) <=> v \in {Meant(a) : a \in S}
<1> DEFINE g(a) == [prefix |-> a.prefix, asn |-> a.asn,
                    max |-> IF a.max <= a.prefix.len THEN a.prefix.len ELSE a.max % 256]
<1>1. AssertVRPs(S) = {g(a) : a \in {b \in S : b.prefix # None}}
  BY Zenon DEF AssertVRPs
<1>2. ASSUME NEW a \in S, a.prefix # None PROVE g(a) = Meant(a)
  <2>1. a \in SlurmPrefixAssertion
    OBVIOUS
  <2>2. a = [prefix |-> a.prefix, asn |-> a.asn, max |-> a.max] /\ a.max \in Int
    BY <2>1 DEF SlurmPrefixAssertion
  <2>3. a.prefix \in Prefixes
    BY <1>2, <2>1 DEF SlurmPrefixAssertion
  <2>4. a.prefix.len \in 0 .. AddrBits
    BY <2>3, Zenon DEF Prefixes
  <2>5. PICK l \in Nat : l = a.prefix.len
    BY <2>4
  <2>6. PICK x \in Int : x = a.max /\ x <= 255
    BY <2>2
  <2>7. (IF x <= l THEN l ELSE x % 256) = (IF x < l THEN l ELSE x)
    BY <2>5, <2>6
  <2>8. Meant(a) = [prefix |-> a.prefix, asn |-> a.asn, max |-> IF x < l THEN l ELSE x]
    BY <2>2, <2>5, <2>6 DEF Meant
  <2> QED
    BY <2>5, <2>6, <2>7, <2>8
<1>3. ASSUME NEW a \in S PROVE Meant(a).prefix = a.prefix
  <2>1. a \in SlurmPrefixAssertion
    OBVIOUS
  <2>2. a = [prefix |-> a.prefix, asn |-> a.asn, max |-> a.max]
    BY <2>1 DEF SlurmPrefixAssertion
  <2> QED
    BY <2>2 DEF Meant
<1>4. v.prefix # None
  BY Zenon DEF WellFormed
<1> HIDE DEF g
<1>5. ASSUME v \in AssertVRPs(S) PROVE v \in {Meant(a) : a \in S}
  <2>1. PICK a \in S : a.prefix # None /\ v = g(a)
    BY <1>1, <1>5, Zenon
  <2> QED
    BY <1>2, <2>1, Zenon
<1>6. ASSUME v \in {Meant(a) : a \in S} PROVE v \in AssertVRPs(S)
  <2>1. PICK a \in S : v = Meant(a)
    BY <1>6, Zenon
  <2>2. a.prefix # None
    BY <1>3, <1>4, <2>1, Zenon
  <2> QED
    BY <1>1, <1>2, <2>1, <2>2, Zenon
<1> QED
  BY <1>5, <1>6

\* The conversions of AS numbers and of maximum lengths cut nothing.
EntriesFit(vrps) == \A v \in vrps : v.asn \in AsNumbers \cup {None}
SlurmFits(s) ==
  /\ \A f \in s.filters : f.asn \in AsNumbers \cup {None}
  /\ \A a \in s.assertions : a.max <= 255

\* FilterOnVRPs, AssertVRPs and processData: the VRPs are the expected ones,
\* whatever the entries, the filters and the assertions, as long as AS numbers
\* fit in a uint32 and the maximum lengths of assertions in a uint8.
THEOREM ServedIsExpected ==
  ASSUME SlurmAssumption, None \notin Prefixes,
         NEW vrps, vrps \subseteq VRPJson, EntriesFit(vrps),
         NEW s, s = None \/ (s \in SlurmConfig /\ SlurmFits(s))
  PROVE  Meaning(processData(SlurmApplied(s, vrps))) = Expected(s, vrps)
<1> DEFINE filters == IF s = None THEN {} ELSE s.filters
           added == IF s = None THEN {} ELSE {Meant(a) : a \in s.assertions}
           kept == {v \in vrps : WellFormed(v) => ~\E f \in filters : Covered(v, f)}
           all == SlurmApplied(s, vrps)
<1>1. Expected(s, vrps) = {Told(v) : v \in {w \in kept \cup added : WellFormed(w)}}
  BY Zenon DEF Expected, Told, Meant
<1>2. ASSUME NEW v, WellFormed(v)
      PROVE  v \in all <=> v \in kept \cup added
  <2>1. CASE s = None
    BY <1>2, <2>1, Zenon DEF SlurmApplied
  <2>2. CASE s # None
    <3>1. /\ s \in SlurmConfig /\ \A a \in s.assertions : a.max <= 255
          /\ \A f \in s.filters : f.asn \in AsNumbers \cup {None}
      BY <2>2, Zenon DEF SlurmFits
    <3>2. s.filters \subseteq SlurmPrefixFilter /\ s.assertions \subseteq SlurmPrefixAssertion
      BY <3>1 DEF SlurmConfig
    <3>3. v \in all <=> v \in FilterOnVRPs(s.filters, vrps) \/ v \in AssertVRPs(s.assertions)
      BY <2>2, Zenon DEF SlurmApplied
    <3>4. v \in AssertVRPs(s.assertions) <=> v \in added
      BY <1>2, <2>2, <3>1, <3>2, AssertedIsMeant, Zenon
    <3>5. v \in FilterOnVRPs(s.filters, vrps) <=> v \in kept
      <4>1. v \in vrps => \A f \in s.filters : Match(v, f) <=> Covered(v, f)
        BY <1>2, <3>1, <3>2, MatchIsCovered, Zenon DEF EntriesFit
      <4> QED
        BY <1>2, <2>2, <4>1, Zenon DEF FilterOnVRPs
    <3> QED
      BY <3>3, <3>4, <3>5, Zenon
  <2> QED
    BY <2>1, <2>2
<1>3. ASSUME NEW v \in all
      PROVE  /\ v.prefix \in Prefixes \cup {None} /\ v.max \in Int
             /\ v.asn \in AsNumbers \cup {None}
  <2>1. CASE v \in vrps
    BY <2>1 DEF VRPJson, EntriesFit
  <2>2. CASE v \notin vrps
    <3>1. s # None /\ v \in AssertVRPs(s.assertions)
      BY <1>3, <2>2, Zenon DEF SlurmApplied, FilterOnVRPs
    <3>2. s.assertions \subseteq SlurmPrefixAssertion
      BY <3>1 DEF SlurmConfig
    <3>3. PICK a \in s.assertions :
            /\ a.prefix # None
            /\ v = [prefix |-> a.prefix, asn |-> a.asn,
                    max |-> IF a.max <= a.prefix.len THEN a.prefix.len ELSE a.max % 256]
      BY <3>1, Zenon DEF AssertVRPs
    <3>4. a.prefix \in Prefixes /\ a.max \in Int /\ a.asn \in AsNumbers
      BY <3>2, <3>3 DEF SlurmPrefixAssertion
    <3>5. a.prefix.len \in 0 .. AddrBits
      BY <3>4, Zenon DEF Prefixes
    <3>6. a.prefix.len \in Int /\ a.max % 256 \in Int
      BY <3>4, <3>5
    <3> QED
      BY <3>3, <3>4, <3>6
  <2> QED
    BY <2>1, <2>2
<1> HIDE DEF all, kept, added
<1>4. Meaning(processData(all)) = {Told(v) : v \in {w \in all : WellFormed(w)}}
  BY <1>3, ProcessedAreWellFormed, Zenon
<1>5. {w \in all : WellFormed(w)} = {w \in kept \cup added : WellFormed(w)}
  BY <1>2, Zenon
<1> QED
  BY <1>1, <1>4, <1>5 DEF all

-----------------------------------------------------------------------------
(* What is served. *)

\* The store holds what updateFromNewState computes from the entries and the
\* SLURM configuration at hand, unless it would return before it computes.
UpToDate ==
  lastdata.vrps # NoRoas /\ InTime =>
    served = processData(SlurmApplied(slurm, lastdata.vrps))

\* What the files, the entries and the SLURM configuration may be.
ContentsOK ==
  /\ now \in Nat
  /\ DOMAIN src = Files
  /\ src.cache.content \in CacheContents /\ src.cache.built \in Int
  /\ src.slurm.content \in SlurmContents
  /\ lastdata.vrps \in {NoRoas} \cup (CacheContents \ {Undecodable})
  /\ lastdata.built \in Int
  /\ slurm \in {None} \cup (SlurmContents \ {Undecodable})

\* ServedExact is not inductive: it says nothing of the time when the updater is
\* at work.  While it fetches, the store may be behind only if changed says so,
\* or at the start; from AddVRPs on it is not behind.
ServedInv ==
  /\ ContentsOK
  /\ pc \in {"notify", "export", "sleep"} => UpToDate
  /\ pc \in {"slurm", "file"} /\ ~starting /\ ~changed => UpToDate

\* Nothing is decoded at first.
LEMMA ServedInit == StayInit => ServedInv
<1> SUFFICES ASSUME StayInit PROVE ServedInv
  OBVIOUS
<1>1. PICK c \in CacheContents, s \in SlurmContents :
        src = [cache |-> [version |-> 1, content |-> c, built |-> 0],
               slurm |-> [version |-> 1, content |-> s, built |-> 0]]
  BY Zenon DEF StayInit
<1>2. ContentsOK
  BY <1>1 DEF StayInit, ContentsOK, Files, BadTime
<1> QED
  BY <1>2 DEF StayInit, ServedInv

\* The store is up to date after a step that touches neither it nor what it is
\* computed from.
LEMMA UpToDateKept ==
  ASSUME UpToDate, UNCHANGED <<now, lastdata, slurm, served>>
  PROVE  UpToDate'
  BY DEF UpToDate, InTime

\* A new file changes nothing yet, and a file that was too old does not get
\* younger.
LEMMA ServedEnvironment ==
  ASSUME ServedInv,
         \/ \E built \in {now, BadTime}, c \in CacheContents : Publish("cache", c, built)
         \/ \E s \in SlurmContents : Publish("slurm", s, now)
         \/ Day
  PROVE  ServedInv'
<1>1. ASSUME NEW built \in {now, BadTime}, NEW c \in CacheContents, Publish("cache", c, built)
      PROVE  ServedInv'
  <2>1. UNCHANGED <<now, pc, starting, changed, lastdata, slurm, served>>
    BY <1>1 DEF Publish, dataVars, outVars
  <2>2. ContentsOK'
    BY <1>1, <2>1 DEF Publish, ServedInv, ContentsOK, Files, BadTime
  <2> QED
    BY <2>1, <2>2, UpToDateKept DEF ServedInv
<1>2. ASSUME NEW s \in SlurmContents, Publish("slurm", s, now)
      PROVE  ServedInv'
  <2>1. UNCHANGED <<now, pc, starting, changed, lastdata, slurm, served>>
    BY <1>2 DEF Publish, dataVars, outVars
  <2>2. ContentsOK'
    BY <1>2, <2>1 DEF Publish, ServedInv, ContentsOK, Files
  <2> QED
    BY <2>1, <2>2, UpToDateKept DEF ServedInv
<1>3. CASE Day
  <2>1. UNCHANGED <<src, pc, starting, changed, lastdata, slurm, served>> /\ now' = now + 1
    BY <1>3 DEF Day, dataVars, outVars
  <2>2. ContentsOK'
    BY <2>1 DEF ServedInv, ContentsOK
  <2>3. InTime' => InTime
    BY <2>1 DEF ServedInv, ContentsOK, InTime
  <2>4. UpToDate => UpToDate'
    BY <2>1, <2>3 DEF UpToDate
  <2> QED
    BY <2>1, <2>2, <2>4 DEF ServedInv
<1> QED
  BY <1>1, <1>2, <1>3

\* A fetch that brings nothing leaves the store where it was; one that brings
\* something leads to updateFromNewState, which brings the store up to date or
\* finds nothing it may use.
LEMMA ServedUpdater ==
  ASSUME ServedInv, UpdaterStep
  PROVE  ServedInv'
<1> USE DEF Goto, dataVars, outVars, srcVars
<1>1. CASE Wake
  <2>1. UNCHANGED <<src, now, lastdata, slurm, served>> /\ pc = "sleep"
    BY <1>1 DEF Wake
  <2>2. UpToDate'
    BY <2>1, UpToDateKept DEF ServedInv
  <2> QED
    BY <2>1, <2>2 DEF ServedInv, ContentsOK
<1>2. CASE updateFileKeeps
  <2>1. /\ UNCHANGED <<src, now, starting, changed, lastdata, slurm, served>> /\ pc = "file"
        /\ pc' = IF starting THEN "slurm" ELSE IF changed THEN "process" ELSE "sleep"
    BY <1>2 DEF updateFileKeeps, AfterFile
  <2>2. ~starting /\ ~changed => UpToDate'
    BY <2>1, UpToDateKept DEF ServedInv
  <2> QED
    BY <2>1, <2>2 DEF ServedInv, ContentsOK
<1>3. CASE updateFile
  <2>1. /\ UNCHANGED <<src, now, starting, slurm, served>>
        /\ pc' = IF starting THEN "slurm" ELSE "process"
        /\ src.cache.content # Undecodable
        /\ lastdata' = [vrps |-> src.cache.content, built |-> src.cache.built]
    BY <1>3 DEF updateFile, AfterFile
  <2>2. ContentsOK'
    BY <2>1 DEF ServedInv, ContentsOK
  <2> QED
    BY <2>1, <2>2 DEF ServedInv
<1>4. CASE updateSlurmKeeps
  <2>1. /\ UNCHANGED <<src, now, starting, changed, lastdata, slurm, served>> /\ pc = "slurm"
        /\ pc' = IF starting THEN "process" ELSE "file"
    BY <1>4 DEF updateSlurmKeeps, AfterSlurm
  <2>2. ~starting /\ ~changed => UpToDate'
    BY <2>1, UpToDateKept DEF ServedInv
  <2> QED
    BY <2>1, <2>2 DEF ServedInv, ContentsOK
<1>5. CASE updateSlurm
  <2>1. /\ UNCHANGED <<src, now, starting, lastdata, served>>
        /\ pc' = IF starting THEN "process" ELSE "file"
        /\ changed' = TRUE
        /\ src.slurm.content # Undecodable
        /\ slurm' = src.slurm.content
    BY <1>5 DEF updateSlurm, AfterSlurm, SlurmUpdated
  <2>2. ContentsOK'
    BY <2>1 DEF ServedInv, ContentsOK
  <2> QED
    BY <2>1, <2>2 DEF ServedInv
<1>6. CASE Rejected
  <2>1. /\ UNCHANGED <<src, now, lastdata, slurm, served>> /\ pc' = "sleep"
        /\ lastdata.vrps = NoRoas \/ ~InTime
    BY <1>6 DEF Rejected
  <2>2. UpToDate'
    BY <2>1 DEF UpToDate, InTime
  <2> QED
    BY <2>1, <2>2 DEF ServedInv, ContentsOK
<1>7. CASE updateFromNewState
  <2>1. /\ UNCHANGED <<src, now, lastdata, slurm>> /\ pc' = "notify"
        /\ served' = processData(SlurmApplied(slurm, lastdata.vrps))
    BY <1>7 DEF updateFromNewState
  <2>2. UpToDate'
    BY <2>1 DEF UpToDate
  <2> QED
    BY <2>1, <2>2 DEF ServedInv, ContentsOK
<1>8. CASE NotifyClientsLatest \/ Export
  <2>1. /\ UNCHANGED <<src, now, lastdata, slurm, served>>
        /\ pc \in {"notify", "export"} /\ pc' \in {"export", "sleep"}
    BY <1>8 DEF NotifyClientsLatest, Export
  <2>2. UpToDate'
    BY <2>1, UpToDateKept DEF ServedInv
  <2> QED
    BY <2>1, <2>2 DEF ServedInv, ContentsOK
<1> QED
  BY <1>1, <1>2, <1>3, <1>4, <1>5, <1>6, <1>7, <1>8 DEF UpdaterStep

\* So every step keeps it.
LEMMA ServedStep == ServedInv /\ [StayNext]_stayVars => ServedInv'
<1> SUFFICES ASSUME ServedInv, [StayNext]_stayVars
             PROVE  ServedInv'
  OBVIOUS
<1>1. CASE StayNext
  BY <1>1, ServedEnvironment, ServedUpdater DEF StayNext
<1>2. CASE UNCHANGED stayVars
  <2>1. UNCHANGED <<src, now, pc, starting, changed, lastdata, slurm, served>>
    BY <1>2 DEF stayVars, srcVars, dataVars, outVars
  <2> QED
    BY <2>1, UpToDateKept DEF ServedInv, ContentsOK
<1> QED
  BY <1>1, <1>2

\* No conversion of a number in the files cuts it.
NumbersFit ==
  /\ \A c \in CacheContents \ {NoRoas, Undecodable} : EntriesFit(c)
  /\ \A s \in SlurmContents \ {Undecodable} : SlurmFits(s)

\* updateFromNewState, FilterOnVRPs, AssertVRPs and processData: for any number
\* of address bits and any files whose AS numbers fit in a uint32 and whose
\* assertions have maximum lengths that fit in a uint8, whatever fetches failed
\* and however the files changed, between refreshes the store holds the
\* well-formed entries outside every filter, as sets of addresses, and the
\* well-formed assertions.
THEOREM ServedIsExact == NumbersFit => (StaySpec => []ServedExact)
<1> SUFFICES ASSUME NumbersFit PROVE StaySpec => []ServedExact
  OBVIOUS
<1>1. ServedInv => ServedExact
  <2> SUFFICES ASSUME ServedInv, pc = "sleep", lastdata.vrps # NoRoas, InTime
               PROVE  Meaning(served) = Expected(slurm, lastdata.vrps)
    BY DEF ServedExact
  <2>1. served = processData(SlurmApplied(slurm, lastdata.vrps))
    BY DEF ServedInv, UpToDate
  <2>2. lastdata.vrps \subseteq VRPJson /\ None \notin Prefixes /\ EntriesFit(lastdata.vrps)
    BY StayRtrAssumption, Zenon DEF ServedInv, ContentsOK, NumbersFit
  <2>3. slurm = None \/ (slurm \in SlurmConfig /\ SlurmFits(slurm))
    BY StayRtrAssumption, Zenon DEF ServedInv, ContentsOK, NumbersFit
  <2> QED
    BY <2>1, <2>2, <2>3, SlurmAssumption, ServedIsExpected, Zenon
<1> QED
  BY ServedInit, ServedStep, <1>1, PTL DEF StaySpec

-----------------------------------------------------------------------------
(* What is exported. *)

\* ExportExact is not inductive: it says nothing of the time between AddVRPs
\* and the export, when the store is ahead.  Until then neither the entries nor
\* the SLURM configuration change.
ExportInv ==
  IF pc \in {"notify", "export"}
  THEN served = processData(SlurmApplied(slurm, lastdata.vrps))
  ELSE processData(exported) = served

\* Nothing is exported and nothing served at first.
LEMMA ExportInit == StayInit => ExportInv
  BY DEF StayInit, ExportInv, processData

\* A step of the files or of the clock touches nothing the export depends on.
LEMMA ExportEnvironment ==
  ASSUME ExportInv,
         \/ \E built \in {now, BadTime}, c \in CacheContents : Publish("cache", c, built)
         \/ \E s \in SlurmContents : Publish("slurm", s, now)
         \/ Day
  PROVE  ExportInv'
  BY DEF ExportInv, Publish, Day, dataVars, outVars

\* The updater's goroutine keeps export and store together: fetches leave both
\* alone, AddVRPs and the export see the same entries.
LEMMA ExportUpdater ==
  ASSUME ExportInv, UpdaterStep
  PROVE  ExportInv'
  <1> USE DEF ExportInv, Goto, dataVars, outVars
  <1>1. CASE Wake
    BY <1>1 DEF Wake
  <1>2. CASE updateFileKeeps
    BY <1>2 DEF updateFileKeeps, AfterFile
  <1>3. CASE updateFile
    BY <1>3 DEF updateFile, AfterFile
  <1>4. CASE updateSlurmKeeps
    BY <1>4 DEF updateSlurmKeeps, AfterSlurm
  <1>5. CASE updateSlurm
    BY <1>5 DEF updateSlurm, AfterSlurm
  <1>6. CASE Rejected
    BY <1>6 DEF Rejected
  <1>7. CASE updateFromNewState
    BY <1>7 DEF updateFromNewState
  <1>8. CASE NotifyClientsLatest
    BY <1>8 DEF NotifyClientsLatest
  <1>9. CASE Export
    BY <1>9 DEF Export, Exported
  <1> QED
    BY <1>1, <1>2, <1>3, <1>4, <1>5, <1>6, <1>7, <1>8, <1>9 DEF UpdaterStep

\* updateFromNewState and exporter: whatever the files hold, whatever fetches
\* failed and however often the files changed, between refreshes another
\* StayRTR that takes the export as its file serves the same VRPs.
THEOREM ExportServesTheSame == StaySpec => []ExportExact
  <1>1. ExportInv /\ [StayNext]_stayVars => ExportInv'
    <2> SUFFICES ASSUME ExportInv, [StayNext]_stayVars
                 PROVE  ExportInv'
      OBVIOUS
    <2>1. CASE StayNext
      BY <2>1, ExportEnvironment, ExportUpdater DEF StayNext
    <2>2. CASE UNCHANGED stayVars
      BY <2>2 DEF ExportInv, stayVars, dataVars, outVars
    <2> QED
      BY <2>1, <2>2
  <1>2. ExportInv => ExportExact
    BY DEF ExportInv, ExportExact
  <1> QED
    BY ExportInit, <1>1, <1>2, PTL DEF StaySpec

-----------------------------------------------------------------------------
(* Conditional requests. *)

\* The validators that are stored are those of a version the file has had.
ValidatorsOK(f) ==
  /\ src[f].version \in Nat \ {0}
  /\ etags[f] \in 0 .. src[f].version
  /\ lastModified[f] \in 0 .. src[f].version

\* Where they are those of the current version, its content is at hand.
Honest(f) ==
  /\ f \notin Local \cup lost
  /\ etags[f] = src[f].version \/ lastModified[f] = src[f].version
  /\ src[f].content # Undecodable
  => AtHand(f)

\* lasthash stands for the bytes that lastdata was decoded from.
HashOK ==
  /\ lasthash # None => lasthash = <<lastdata.vrps, lastdata.built>>
  /\ lastdata = [vrps |-> lastdata.vrps, built |-> lastdata.built]

\* NothingHidden is not inductive: it does not say that the stored version is
\* at most the file's, nor what a file with the last hash decodes to.
HiddenInv ==
  /\ ContentsOK
  /\ DOMAIN etags = Files /\ DOMAIN lastModified = Files
  /\ \A f \in Files : ValidatorsOK(f) /\ Honest(f)
  /\ HashOK

\* Nothing is stored at first.
LEMMA HiddenInit == StayInit /\ ContentsOK => HiddenInv
<1> SUFFICES ASSUME StayInit, ContentsOK PROVE HiddenInv
  OBVIOUS
<1>1. PICK c \in CacheContents, s \in SlurmContents :
        src = [cache |-> [version |-> 1, content |-> c, built |-> 0],
               slurm |-> [version |-> 1, content |-> s, built |-> 0]]
  BY Zenon DEF StayInit
<1>2. DOMAIN etags = Files /\ DOMAIN lastModified = Files
  BY <1>1 DEF StayInit, Files
<1>3. \A f \in Files : src[f].version = 1 /\ etags[f] = 0 /\ lastModified[f] = 0
  BY <1>1 DEF StayInit, Files
<1>4. \A f \in Files : ValidatorsOK(f) /\ Honest(f)
  BY <1>3 DEF ValidatorsOK, Honest
<1>5. HashOK
  BY <1>1 DEF StayInit, HashOK
<1> QED
  BY <1>2, <1>4, <1>5 DEF HiddenInv

\* Other steps leave the files, the validators and what was decoded alone.
LEMMA HiddenSame ==
  ASSUME HiddenInv, ContentsOK', UNCHANGED <<src, fetchVars, lasthash, lastdata, slurm>>
  PROVE  HiddenInv'
<1>1. \A f \in Files : ValidatorsOK(f)' /\ Honest(f)'
  BY DEF HiddenInv, ValidatorsOK, Honest, AtHand, fetchVars
<1>2. HashOK'
  BY DEF HiddenInv, HashOK
<1> QED
  BY <1>1, <1>2 DEF HiddenInv, fetchVars

\* A new version is ahead of the validators that are stored.
LEMMA HiddenPublish ==
  ASSUME HiddenInv, ContentsOK', NEW f \in Files, NEW c, NEW built, Publish(f, c, built)
  PROVE  HiddenInv'
<1>1. /\ UNCHANGED <<etags, lastModified, lost, lasthash, lastdata, slurm>>
      /\ src' = [src EXCEPT ![f] = [version |-> src[f].version + 1, content |-> c, built |-> built]]
  BY DEF Publish, fetchVars, dataVars
<1>2. \A g \in Files \ {f} : src'[g] = src[g]
  BY <1>1 DEF HiddenInv, ContentsOK
<1>3. src'[f] = [version |-> src[f].version + 1, content |-> c, built |-> built]
  BY <1>1 DEF HiddenInv, ContentsOK
<1>4. \A g \in Files \ {f} : ValidatorsOK(g)' /\ Honest(g)'
  <2> TAKE g \in Files \ {f}
  <2>1. ValidatorsOK(g) /\ Honest(g)
    BY DEF HiddenInv
  <2>2. ValidatorsOK(g)'
    BY <1>1, <1>2, <2>1 DEF ValidatorsOK
  <2>3. AtHand(g) => AtHand(g)'
    BY <1>1, <1>2 DEF AtHand, Files
  <2> QED
    BY <1>1, <1>2, <2>1, <2>2, <2>3 DEF Honest
<1>5. ValidatorsOK(f)' /\ Honest(f)'
  <2>1. ValidatorsOK(f)
    BY DEF HiddenInv
  <2>2. src'[f].version = src[f].version + 1
    BY <1>3
  <2> QED
    BY <1>1, <2>1, <2>2 DEF ValidatorsOK, Honest
<1>6. HashOK'
  BY <1>1 DEF HiddenInv, HashOK
<1> QED
  BY <1>1, <1>2, <1>4, <1>5, <1>6 DEF HiddenInv

\* FetchFile stores nothing that is not the version's it has just been told.
LEMMA HiddenFetch ==
  ASSUME HiddenInv, ContentsOK', NEW f \in Files, UNCHANGED src, HashOK',
         \A g \in Files \ {f} : AtHand(g) => AtHand(g)',
         \/ FetchError(f) /\ (AtHand(f) => AtHand(f)')
         \/ FetchBody(f) /\ (src[f].content # Undecodable => AtHand(f)')
  PROVE  HiddenInv'
<1>1. /\ DOMAIN etags' = Files /\ DOMAIN lastModified' = Files
      /\ \A g \in Files \ {f} : etags'[g] = etags[g] /\ lastModified'[g] = lastModified[g]
      /\ lost \subseteq lost' \cup {f}
  BY DEF HiddenInv, FetchError, FetchFails, FetchStatus, FetchIdentical, FetchBodyFails,
         FetchBody, StoreValidators, fetchVars
<1>2. \A g \in Files \ {f} : ValidatorsOK(g)' /\ Honest(g)'
  <2> TAKE g \in Files \ {f}
  <2>1. ValidatorsOK(g) /\ Honest(g)
    BY DEF HiddenInv
  <2> QED
    BY <1>1, <2>1 DEF ValidatorsOK, Honest
<1>3. ValidatorsOK(f) /\ Honest(f) /\ f \in DOMAIN etags /\ f \in DOMAIN lastModified
  BY DEF HiddenInv
<1>4. ValidatorsOK(f)' /\ Honest(f)'
  <2>1. CASE UNCHANGED <<etags, lastModified, lost>> /\ (AtHand(f) => AtHand(f)')
    BY <1>3, <2>1 DEF ValidatorsOK, Honest
  <2>2. CASE FetchStatus(f)
    <3>1. etags'[f] = 0 /\ lastModified'[f] = 0
      BY <1>3, <2>2 DEF FetchStatus
    <3> QED
      BY <1>3, <3>1 DEF ValidatorsOK, Honest
  <2>3. CASE StoreValidators(f) /\ (f \in Local \/ f \in lost' \/ (src[f].content # Undecodable => AtHand(f)'))
    <3>1. /\ etags'[f] \in {0, etags[f], src[f].version}
          /\ lastModified'[f] \in {0, lastModified[f], src[f].version}
      BY <1>3, <2>3 DEF StoreValidators
    <3>2. ValidatorsOK(f)'
      BY <1>3, <3>1 DEF ValidatorsOK
    <3> QED
      BY <2>3, <3>2 DEF Honest
  <2> QED
    BY <2>1, <2>2, <2>3 DEF FetchError, FetchFails, FetchIdentical, FetchBodyFails, FetchBody, fetchVars
<1> QED
  BY <1>1, <1>2, <1>4 DEF HiddenInv

\* The updater takes a file's validators and its content in one step.
LEMMA HiddenUpdater ==
  ASSUME HiddenInv, ContentsOK', UpdaterStep
  PROVE  HiddenInv'
<1> USE DEF srcVars, dataVars
<1>1. CASE updateFileKeeps
  <2>1. /\ UNCHANGED <<src, lasthash, lastdata, slurm>>
        /\ \/ FetchError("cache")
           \/ FetchBody("cache") /\ (lasthash = Bytes("cache") \/ src.cache.content = Undecodable)
    BY <1>1 DEF updateFileKeeps
  <2>2. HashOK'
    BY <2>1 DEF HiddenInv, HashOK
  <2>3. \A f \in Files : AtHand(f) => AtHand(f)'
    BY <2>1 DEF AtHand
  <2>4. ASSUME lasthash = Bytes("cache") PROVE AtHand("cache")'
    <3>1. lasthash = <<src.cache.content, src.cache.built>>
      BY <2>4 DEF Bytes
    <3>2. lasthash \in CacheContents \X Int
      BY <3>1 DEF HiddenInv, ContentsOK
    <3>3. lasthash # None
      BY <3>2, StayRtrAssumption
    <3>4. /\ lasthash = <<lastdata.vrps, lastdata.built>>
          /\ lastdata = [vrps |-> lastdata.vrps, built |-> lastdata.built]
      BY <3>3, Zenon DEF HiddenInv, HashOK
    <3>5. lastdata.vrps = src.cache.content /\ lastdata.built = src.cache.built
      BY <3>1, <3>4
    <3> QED
      BY <2>1, <3>4, <3>5 DEF AtHand
  <2>5. "cache" \in Files
    BY DEF Files
  <2>6. \/ FetchError("cache") /\ (AtHand("cache") => AtHand("cache")')
        \/ FetchBody("cache") /\ (src["cache"].content # Undecodable => AtHand("cache")')
    BY <2>1, <2>3, <2>4, <2>5, Zenon
  <2> QED
    BY <2>1, <2>2, <2>3, <2>5, <2>6, HiddenFetch, Zenon
<1>2. CASE updateFile
  <2>1. /\ UNCHANGED <<src, slurm>> /\ FetchBody("cache")
        /\ lasthash' = <<src.cache.content, src.cache.built>>
        /\ lastdata' = [vrps |-> src.cache.content, built |-> src.cache.built]
    BY <1>2 DEF updateFile, Bytes
  <2>2. HashOK'
    BY <2>1 DEF HiddenInv, HashOK
  <2>3. AtHand("cache")' /\ \A f \in Files \ {"cache"} : AtHand(f) => AtHand(f)'
    BY <2>1 DEF AtHand
  <2>4. "cache" \in Files
    BY DEF Files
  <2> QED
    BY <2>1, <2>2, <2>3, <2>4, HiddenFetch, Zenon
<1>3. CASE updateSlurmKeeps
  <2>1. /\ UNCHANGED <<src, lasthash, lastdata, slurm>>
        /\ \/ FetchError("slurm")
           \/ FetchBody("slurm") /\ src.slurm.content = Undecodable
    BY <1>3 DEF updateSlurmKeeps
  <2>2. HashOK'
    BY <2>1 DEF HiddenInv, HashOK
  <2>3. \A f \in Files : AtHand(f) => AtHand(f)'
    BY <2>1 DEF AtHand
  <2>4. "slurm" \in Files
    BY DEF Files
  <2> QED
    BY <2>1, <2>2, <2>3, <2>4, HiddenFetch, Zenon
<1>4. CASE updateSlurm
  <2>1. /\ UNCHANGED <<src, lasthash, lastdata>> /\ FetchBody("slurm")
        /\ slurm' = src.slurm.content
    BY <1>4 DEF updateSlurm
  <2>2. HashOK'
    BY <2>1 DEF HiddenInv, HashOK
  <2>3. AtHand("slurm")' /\ \A f \in Files \ {"slurm"} : AtHand(f) => AtHand(f)'
    BY <2>1 DEF AtHand, Files
  <2>4. "slurm" \in Files
    BY DEF Files
  <2> QED
    BY <2>1, <2>2, <2>3, <2>4, HiddenFetch, Zenon
<1>5. CASE Wake \/ Rejected \/ updateFromNewState \/ NotifyClientsLatest \/ Export
  <2>1. UNCHANGED <<src, fetchVars, lasthash, lastdata, slurm>>
    BY <1>5 DEF Wake, Rejected, updateFromNewState, NotifyClientsLatest, Export
  <2> QED
    BY <2>1, HiddenSame
<1> QED
  BY <1>1, <1>2, <1>3, <1>4, <1>5 DEF UpdaterStep

\* FetchFile, updateFile and updateSlurm: for any flags, servers and files, a
\* 304 or a tag that is the same hides nothing that was not decoded, unless the
\* body of a response was lost after its tag was stored.
THEOREM IdenticalHidesNothing == StaySpec => []NothingHidden
<1>1. HiddenInv /\ ServedInv' /\ [StayNext]_stayVars => HiddenInv'
  <2> SUFFICES ASSUME HiddenInv, ContentsOK', [StayNext]_stayVars
               PROVE  HiddenInv'
    BY DEF ServedInv
  <2>1. ASSUME NEW built \in {now, BadTime}, NEW c \in CacheContents, Publish("cache", c, built)
        PROVE  HiddenInv'
    BY <2>1, HiddenPublish DEF Files
  <2>2. ASSUME NEW s \in SlurmContents, Publish("slurm", s, now)
        PROVE  HiddenInv'
    BY <2>2, HiddenPublish DEF Files
  <2>3. CASE Day \/ UNCHANGED stayVars
    <3>1. UNCHANGED <<src, fetchVars, lasthash, lastdata, slurm>>
      BY <2>3 DEF Day, stayVars, srcVars, dataVars
    <3> QED
      BY <3>1, HiddenSame
  <2> QED
    BY <2>1, <2>2, <2>3, HiddenUpdater DEF StayNext
<1>2. HiddenInv => NothingHidden
  <2> SUFFICES ASSUME HiddenInv, NEW f \in Files \ (Local \cup lost),
                      NotModified(f) \/ SameEtag(f), src[f].content # Undecodable
               PROVE  AtHand(f)
    BY DEF NothingHidden
  <2>1. ValidatorsOK(f) /\ Honest(f)
    BY DEF HiddenInv
  <2>2. etags[f] = src[f].version \/ lastModified[f] = src[f].version
    BY <2>1 DEF NotModified, SameEtag, ValidatorsOK
  <2> QED
    BY <2>1, <2>2 DEF Honest
<1>3. StayInit => HiddenInv
  BY HiddenInit, ServedInit DEF ServedInv
<1> QED
  BY <1>3, ServedInit, ServedStep, <1>1, <1>2, PTL DEF StaySpec

=============================================================================
