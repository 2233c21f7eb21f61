------------------------------- MODULE MCStayRtr -------------------------------
(* Instances of StayRtr for TLC: addresses of two bits. *)
EXTENDS StayRtr

P(fam, ip, len) == [fam |-> fam, ip |-> ip, len |-> len]
E(prefix, asn, max) == [prefix |-> prefix, asn |-> asn, max |-> max]

\* The upper half inside and outside a filter, a covering prefix whose first
\* address alone is inside it, the other family, and entries that are broken.
Many == {E(P(4, 2, 2), 1, 2), E(P(4, 3, 2), 2, 2), E(P(4, 2, 1), 2, 2),
         E(P(6, 2, 2), 1, 2), E(P(4, 1, 2), 1, 1), E(None, 1, 2), E(P(4, 0, 2), None, 2)}
One == {E(P(4, 1, 1), 1, 1)}

MCCacheContents == {Many, One, {}, NoRoas, Undecodable}

Filtering == [filters |-> {[prefix |-> P(4, 2, 2), asn |-> None],
                           [prefix |-> P(4, 3, 2), asn |-> 2]},
              assertions |-> {E(P(4, 0, 1), 3, 0), E(P(6, 2, 2), 1, 2)}]
ByAsn == [filters |-> {[prefix |-> None, asn |-> 1]}, assertions |-> {}]

MCSlurmContents == {Filtering, ByAsn, Undecodable}

=============================================================================
