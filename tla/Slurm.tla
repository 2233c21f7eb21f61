--------------------------------- MODULE Slurm ---------------------------------
(***************************************************************************)
(* From the entries of a JSON file to the VRPs that are served: the SLURM  *)
(* filters and assertions (prefixfile/slurm.go), and processData of        *)
(* stayrtr.                                                                *)
(*                                                                         *)
(* An address has AddrBits bits; 32 and 128 in the code.  A prefix is      *)
(* [fam, ip, len], or None where the text does not parse or is missing.    *)
(* An AS number has AsnBits bits, 32 in the code; the files may hold any   *)
(* integer, which the conversions to uint32 cut (those from float64 as on  *)
(* amd64), or None where it does not parse or is missing.  A list is the   *)
(* set of its entries: processData drops repeated ones.                    *)
(***************************************************************************)
EXTENDS Integers, FiniteSets

CONSTANTS AddrBits, AsnBits, None

ASSUME SlurmAssumption == {AddrBits, AsnBits} \subseteq Nat \ {0}

Pow2[n \in Nat] == IF n = 0 THEN 1 ELSE 2 * Pow2[n - 1]

\* How many addresses a prefix of this length has.
Block(len) == Pow2[AddrBits - len]

\* What the JSON and the SLURM file may hold.  A VRP's maximum length is a
\* uint8, that of an assertion an int; its AS number is a uint32 already.
AsNumbers == 0 .. Pow2[AsnBits] - 1
Prefixes == [fam : {4, 6}, ip : 0 .. Pow2[AddrBits] - 1, len : 0 .. AddrBits]
VRPJson == [prefix : Prefixes \cup {None}, asn : {None} \cup Int, max : 0 .. 255]
SlurmPrefixFilter == [prefix : Prefixes \cup {None}, asn : {None} \cup Int]
SlurmPrefixAssertion == [prefix : Prefixes \cup {None}, asn : AsNumbers, max : Int]
SlurmConfig ==
  [filters : SUBSET SlurmPrefixFilter, assertions : SUBSET SlurmPrefixAssertion]

\* ParseCIDR clears the bits after the prefix length.
GetPrefix(v) ==
  IF v.prefix = None
  THEN None
  ELSE [v.prefix EXCEPT !.ip = @ - (@ % Block(v.prefix.len))]

\* The conversion of an AS number.
Uint32(asn) == asn % Pow2[AsnBits]

\* GetASN: zero where GetASN2 fails.
GetASN(v) == IF v.asn = None THEN 0 ELSE Uint32(v.asn)

\* IPNet.Contains, of Go's net package.
Contains(p, fam, ip) == fam = p.fam /\ ip - (ip % Block(p.len)) = p.ip

GetIPBroadcast(p) == p.ip + Block(p.len) - 1

\* Slip: only the first address is looked at.
InsideFirst(p, f) == Contains(f, p.fam, p.ip)

Inside(p, f) ==
  Contains(f, p.fam, p.ip) /\ Contains(f, p.fam, GetIPBroadcast(p))

\* A filter that has no prefix, or one that does not parse, matches any prefix.
Match(v, filter) ==
  /\ GetPrefix(v) # None /\ GetPrefix(filter) # None =>
       Inside(GetPrefix(v), GetPrefix(filter))
  /\ filter.asn # None => GetASN(v) = Uint32(filter.asn)

FilterOnVRPs(filters, vrps) ==
  {v \in vrps : \A filter \in filters : ~Match(v, filter)}

\* The maximum length is at least the length of the prefix; uint8() truncates.
AssertVRPs(assertions) ==
  {[prefix |-> a.prefix, asn |-> a.asn,
    max |-> IF a.max <= a.prefix.len THEN a.prefix.len ELSE a.max % 256] :
     a \in {b \in assertions : b.prefix # None}}

isValidPrefixLength(p, max) == p.len # 0 /\ p.len <= max /\ max <= AddrBits

\* The VRPs that are served, by their hash keys.
processData(vrps) ==
  {[prefix |-> GetPrefix(v), asn |-> GetASN(v), max |-> v.max] :
     v \in {w \in vrps : /\ w.prefix # None /\ w.asn # None
                         /\ isValidPrefixLength(w.prefix, w.max)}}

\* updateFromNewState: the entries after SLURM.
SlurmApplied(slurm, vrps) ==
  IF slurm = None
  THEN vrps
  ELSE FilterOnVRPs(slurm.filters, vrps) \cup AssertVRPs(slurm.assertions)

-----------------------------------------------------------------------------
(* What an operator expects, stated on sets of addresses. *)

Addresses(p) ==
  {a \in 0 .. Pow2[AddrBits] - 1 : a \div Block(p.len) = p.ip \div Block(p.len)}

Covered(v, filter) ==
  /\ filter.prefix # None =>
       filter.prefix.fam = v.prefix.fam /\ Addresses(v.prefix) \subseteq Addresses(filter.prefix)
  /\ filter.asn # None => v.asn = filter.asn

WellFormed(v) ==
  /\ v.prefix # None /\ v.asn # None
  /\ v.prefix.len \in 1 .. v.max /\ v.max <= AddrBits

\* Well-formed entries outside every filter, and well-formed assertions.
Expected(slurm, vrps) ==
  LET filters == IF slurm = None THEN {} ELSE slurm.filters
      added == IF slurm = None THEN {}
               ELSE {[a EXCEPT !.max = IF @ < a.prefix.len THEN a.prefix.len ELSE @] :
                       a \in slurm.assertions}
      kept == {v \in vrps : WellFormed(v) => ~\E filter \in filters : Covered(v, filter)}
  IN  {<<v.prefix.fam, Addresses(v.prefix), v.asn, v.max>> :
         v \in {w \in kept \cup added : WellFormed(w)}}

\* A list of VRPs in the same form.
Meaning(vrps) == {<<v.prefix.fam, Addresses(v.prefix), v.asn, v.max>> : v \in vrps}

=============================================================================
