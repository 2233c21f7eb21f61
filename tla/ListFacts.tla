------------------------------- MODULE ListFacts -------------------------------
(***************************************************************************)
(* Facts about numbers and sequences that the proofs about the other       *)
(* modules share: induction, what Append and Tail do to a channel, and     *)
(* what ClientDisconnected's loop leaves of the list of clients.           *)
(***************************************************************************)
EXTENDS ClientList, WellFoundedInduction, TLAPS

-----------------------------------------------------------------------------
(* Induction. *)

\* A set of natural numbers has a least element.
LEMMA LeastNumber ==
  ASSUME NEW A, A \subseteq Nat, A # {}
  PROVE  \E n \in A : \A m \in A : n <= m
<1> DEFINE R == OpToRel(<, Nat)
<1>1. IsWellFoundedOn(R, Nat)
  BY NatLessThanWellFounded, Zenon
<1>2. \A m, n \in Nat : m < n => <<m, n>> \in R
  BY DEF OpToRel
<1> HIDE DEF R
<1>3. PICK n \in A : \A y \in A : ~(<<y, n>> \in R)
  BY <1>1, WFMin, Zenon
<1>4. \A m \in A : m \in Nat /\ n \in Nat /\ ~(m < n)
  BY <1>2, <1>3, Zenon
<1> QED
  BY <1>4

\* A set with 0 that is closed under + 1 holds every natural number.
LEMMA Induction ==
  ASSUME NEW A, 0 \in A, \A n \in Nat : n \in A => n + 1 \in A
  PROVE  Nat \subseteq A
<1> SUFFICES ASSUME Nat \ A # {} PROVE FALSE
  OBVIOUS
<1>1. PICK n \in Nat \ A : \A m \in Nat \ A : n <= m
  BY LeastNumber, Zenon
<1>2. n # 0 /\ n - 1 \in Nat /\ n - 1 \in A
  BY <1>1
<1> QED
  BY <1>1, <1>2

-----------------------------------------------------------------------------
(* Channels. *)

IsSeq(s) == \E S : s \in Seq(S)

\* What SendRawPDU leaves in a channel.
LEMMA AppendToSeq ==
  ASSUME NEW s, IsSeq(s), NEW e
  PROVE  /\ IsSeq(Append(s, e))
         /\ Len(s) \in Nat
         /\ Len(Append(s, e)) = Len(s) + 1
         /\ \A k \in 1 .. Len(s) + 1 : Append(s, e)[k] = IF k <= Len(s) THEN s[k] ELSE e
  <1>1. PICK S : s \in Seq(S)
    BY DEF IsSeq
  <1>2. s \in Seq(S \cup {e})
    BY <1>1
  <1>3. /\ Append(s, e) \in Seq(S \cup {e})
        /\ Len(Append(s, e)) = Len(s) + 1
        /\ \A k \in 1 .. Len(s) : Append(s, e)[k] = s[k]
        /\ Append(s, e)[Len(s) + 1] = e
    BY <1>2
  <1>4. Len(s) \in Nat
    BY <1>1
  <1> QED
    BY <1>3, <1>4 DEF IsSeq

\* What sendLoop takes from a channel and what it leaves.
LEMMA TailOfSeq ==
  ASSUME NEW s, IsSeq(s), s # << >>
  PROVE  /\ IsSeq(Tail(s))
         /\ Len(s) \in Nat \ {0}
         /\ Head(s) = s[1]
         /\ Len(Tail(s)) = Len(s) - 1
         /\ \A k \in 1 .. Len(s) - 1 : Tail(s)[k] = s[k + 1]
  <1>1. PICK S : s \in Seq(S)
    BY DEF IsSeq
  <1>2. Tail(s) \in Seq(S) /\ Len(Tail(s)) = Len(s) - 1 /\ Len(s) \in Nat \ {0}
    BY <1>1
  <1>3. Head(s) = s[1] /\ \A k \in 1 .. Len(s) - 1 : Tail(s)[k] = s[k + 1]
    BY <1>1, <1>2
  <1> QED
    BY <1>2, <1>3 DEF IsSeq

-----------------------------------------------------------------------------
(* The list of clients. *)

\* The lists ClientDisconnected has after 0 .. n of the clients in s.
Kept(g, s, c, n) ==
  g = [i \in 0 .. n |->
         IF i = 0 THEN << >>
         ELSE IF s[i] = c THEN g[i - 1] ELSE Append(g[i - 1], s[i])]

\* They exist, however long s is.
LEMMA KeptExists ==
  ASSUME NEW s, NEW c, NEW k \in Nat
  PROVE  \E g : Kept(g, s, c, k)
<1> DEFINE A == {n \in Nat : \E g : Kept(g, s, c, n)}
<1>1. 0 \in A
  <2> DEFINE g == [i \in 0 .. 0 |-> << >>]
  <2>1. Kept(g, s, c, 0)
    BY DEF Kept
  <2> QED
    BY <2>1
<1>2. ASSUME NEW n \in Nat, n \in A
      PROVE  n + 1 \in A
  <2>1. PICK g : Kept(g, s, c, n)
    BY <1>2
  <2> DEFINE v == IF s[n + 1] = c THEN g[n] ELSE Append(g[n], s[n + 1])
             h == [i \in 0 .. n + 1 |-> IF i = n + 1 THEN v ELSE g[i]]
  <2>2. \A i \in 0 .. n : h[i] = g[i]
    OBVIOUS
  <2>3. h[n + 1] = IF s[n + 1] = c THEN h[n] ELSE Append(h[n], s[n + 1])
    OBVIOUS
  <2>4. \A i \in 0 .. n :
          g[i] = IF i = 0 THEN << >>
                 ELSE IF s[i] = c THEN g[i - 1] ELSE Append(g[i - 1], s[i])
    BY <2>1, Zenon DEF Kept
  <2>5. h = [i \in 0 .. n + 1 |-> h[i]]
    OBVIOUS
  <2> HIDE DEF h
  <2>6. \A i \in 0 .. n + 1 :
          h[i] = IF i = 0 THEN << >>
                 ELSE IF s[i] = c THEN h[i - 1] ELSE Append(h[i - 1], s[i])
    <3> TAKE i \in 0 .. n + 1
    <3>1. CASE i = n + 1
      BY <2>3, <3>1
    <3>2. CASE i \in 0 .. n
      <4>1. i = 0 \/ i - 1 \in 0 .. n
        BY <3>2
      <4> QED
        BY <2>2, <2>4, <3>2, <4>1
    <3> QED
      BY <3>1, <3>2
  <2>7. Kept(h, s, c, n + 1)
    BY <2>5, <2>6, Zenon DEF Kept
  <2> QED
    BY <2>7
<1>3. Nat \subseteq A
  <2> HIDE DEF A
  <2> QED
    BY <1>1, <1>2, Induction
<1> QED
  BY <1>3

\* The last of them is what ClientDisconnected stores.
LEMMA WithoutIsKept ==
  ASSUME NEW s, NEW c, Len(s) \in Nat
  PROVE  \E g : Kept(g, s, c, Len(s)) /\ Without(s, c) = g[Len(s)]
<1> DEFINE k == CHOOSE g : Kept(g, s, c, Len(s))
<1>1. Kept(k, s, c, Len(s))
  BY KeptExists
<1>2. Without(s, c) = k[Len(s)]
  BY DEF Without, Kept
<1> QED
  BY <1>1, <1>2, Zenon

Members(s) == {s[i] : i \in DOMAIN s}

Distinct(s) == \A i, j \in DOMAIN s : s[i] = s[j] => i = j

\* ClientConnected adds a client.
LEMMA MembersAppended ==
  ASSUME NEW s, NEW k \in Nat, DOMAIN s = 1 .. k, NEW e,
         NEW t, DOMAIN t = 1 .. k + 1, \A i \in 1 .. k : t[i] = s[i], t[k + 1] = e
  PROVE  /\ Members(t) = Members(s) \cup {e}
         /\ Distinct(s) /\ e \notin Members(s) => Distinct(t)
<1>1. /\ \A i \in 1 .. k + 1 : i \in 1 .. k \/ i = k + 1
      /\ \A i \in 1 .. k : i \in 1 .. k + 1 /\ i # k + 1
      /\ k + 1 \in 1 .. k + 1
  OBVIOUS
<1>2. ASSUME NEW m PROVE m \in Members(t) <=> m \in Members(s) \cup {e}
  <2>1. m \in Members(t) <=> \E i \in 1 .. k + 1 : m = t[i]
    BY Zenon DEF Members
  <2>2. m \in Members(s) <=> \E i \in 1 .. k : m = s[i]
    BY Zenon DEF Members
  <2> QED
    BY <1>1, <2>1, <2>2, Zenon
<1>3. ASSUME Distinct(s), e \notin Members(s) PROVE Distinct(t)
  <2>1. \A i \in 1 .. k : s[i] # e
    BY <1>3 DEF Members
  <2>2. \A i, j \in 1 .. k : t[i] = t[j] => i = j
    BY <1>3 DEF Distinct
  <2> QED
    BY <1>1, <2>1, <2>2 DEF Distinct
<1> QED
  BY <1>2, <1>3

\* A list t of k clients holds those among the first n of s that are not c.
Filtered(t, k, s, c, n) ==
  /\ DOMAIN t = 1 .. k
  /\ \A i \in 1 .. n : s[i] # c => \E j \in 1 .. k : t[j] = s[i]
  /\ \A j \in 1 .. k : t[j] # c /\ \E i \in 1 .. n : t[j] = s[i]
  /\ Distinct(s) =>
       /\ Distinct(t)
       /\ k = IF \E i \in 1 .. n : s[i] = c THEN n - 1 ELSE n

\* The loop drops c ...
LEMMA FilteredDrops ==
  ASSUME NEW s, NEW N \in Nat, DOMAIN s = 1 .. N, NEW t, NEW k \in Nat, NEW c,
         NEW n \in Nat, n + 1 <= N, Filtered(t, k, s, c, n), s[n + 1] = c
  PROVE  Filtered(t, k, s, c, n + 1)
<1>1. n + 1 \in DOMAIN s /\ \A i \in 1 .. n : i \in DOMAIN s /\ i # n + 1
  OBVIOUS
<1>2. Distinct(s) => ~\E i \in 1 .. n : s[i] = c
  BY <1>1 DEF Distinct
<1>3. \A i \in 1 .. n + 1 : i \in 1 .. n \/ i = n + 1
  OBVIOUS
<1>4. \A i \in 1 .. n : i \in 1 .. n + 1
  OBVIOUS
<1>5. \E i \in 1 .. n + 1 : s[i] = c
  OBVIOUS
<1>6. \A i \in 1 .. n + 1 : s[i] # c => \E j \in 1 .. k : t[j] = s[i]
  BY <1>3 DEF Filtered
<1>7. \A j \in 1 .. k : t[j] # c /\ \E i \in 1 .. n + 1 : t[j] = s[i]
  BY <1>4 DEF Filtered
<1>8. Distinct(s) => Distinct(t) /\ k = IF \E i \in 1 .. n + 1 : s[i] = c THEN (n + 1) - 1 ELSE n + 1
  BY <1>2, <1>5 DEF Filtered
<1> QED
  BY <1>6, <1>7, <1>8 DEF Filtered

\* ... and takes over every other client.
LEMMA FilteredTakes ==
  ASSUME NEW s, NEW N \in Nat, DOMAIN s = 1 .. N, NEW t, NEW k \in Nat, NEW c,
         NEW n \in Nat, n + 1 <= N, Filtered(t, k, s, c, n), s[n + 1] # c,
         NEW u, DOMAIN u = 1 .. k + 1, \A j \in 1 .. k : u[j] = t[j], u[k + 1] = s[n + 1]
  PROVE  Filtered(u, k + 1, s, c, n + 1)
<1>1. /\ \A i \in 1 .. n + 1 : i \in 1 .. n \/ i = n + 1
      /\ \A j \in 1 .. k + 1 : j \in 1 .. k \/ j = k + 1
      /\ k + 1 \in 1 .. k + 1 /\ n + 1 \in 1 .. n + 1
      /\ \A i \in 1 .. n : i \in 1 .. n + 1
      /\ \A j \in 1 .. k : j \in 1 .. k + 1
  OBVIOUS
<1>2. \A i \in 1 .. n + 1 : s[i] # c => \E j \in 1 .. k + 1 : u[j] = s[i]
  <2>1. \A i \in 1 .. n : s[i] # c => \E j \in 1 .. k : t[j] = s[i]
    BY DEF Filtered
  <2>2. \A i \in 1 .. n : s[i] # c => \E j \in 1 .. k : u[j] = s[i]
    BY <2>1
  <2> QED
    BY <1>1, <2>2, Zenon
<1>3. \A j \in 1 .. k + 1 : u[j] # c /\ \E i \in 1 .. n + 1 : u[j] = s[i]
  <2>1. \A j \in 1 .. k : t[j] # c /\ \E i \in 1 .. n : t[j] = s[i]
    BY DEF Filtered
  <2>2. \A j \in 1 .. k : u[j] # c /\ \E i \in 1 .. n + 1 : u[j] = s[i]
    BY <1>1, <2>1, Zenon
  <2> QED
    BY <1>1, <2>2, Zenon
<1>4. ASSUME Distinct(s) PROVE Distinct(u)
  <2>1. n + 1 \in DOMAIN s /\ \A i \in 1 .. n : i \in DOMAIN s /\ i # n + 1
    OBVIOUS
  <2>2. \A i \in 1 .. n : s[i] # s[n + 1]
    BY <1>4, <2>1 DEF Distinct
  <2>3. \A j \in 1 .. k : u[j] # u[k + 1]
    BY <2>2 DEF Filtered
  <2>4. \A i, j \in 1 .. k : u[i] = u[j] => i = j
    BY <1>4, Zenon DEF Filtered, Distinct
  <2> QED
    BY <1>1, <2>3, <2>4 DEF Distinct
<1>5. Distinct(s) => k + 1 = IF \E i \in 1 .. n + 1 : s[i] = c THEN (n + 1) - 1 ELSE n + 1
  <2>1. (\E i \in 1 .. n + 1 : s[i] = c) <=> (\E i \in 1 .. n : s[i] = c)
    BY <1>1
  <2> QED
    BY <2>1 DEF Filtered
<1> QED
  BY <1>2, <1>3, <1>4, <1>5 DEF Filtered

\* ClientDisconnected removes the client and nobody else, and the list gets
\* shorter by one if no client was in it twice.
LEMMA WithoutFacts ==
  ASSUME NEW S, NEW s \in Seq(S), NEW c
  PROVE  /\ Without(s, c) \in Seq(S)
         /\ Members(Without(s, c)) = Members(s) \ {c}
         /\ Distinct(s) => /\ Distinct(Without(s, c))
                           /\ c \in Members(s) => Len(Without(s, c)) = Len(s) - 1
<1>1. Len(s) \in Nat /\ DOMAIN s = 1 .. Len(s) /\ \A i \in 1 .. Len(s) : s[i] \in S
  OBVIOUS
<1>2. PICK N \in Nat : N = Len(s)
  BY <1>1, Zenon
<1>3. PICK g : Kept(g, s, c, N) /\ Without(s, c) = g[N]
  BY <1>2, WithoutIsKept
<1>4. \A i \in 0 .. N : g[i] = IF i = 0 THEN << >>
                               ELSE IF s[i] = c THEN g[i - 1] ELSE Append(g[i - 1], s[i])
  BY <1>3, Zenon DEF Kept
<1> DEFINE A == {n \in Nat : n <= N => g[n] \in Seq(S) /\ Filtered(g[n], Len(g[n]), s, c, n)}
<1>5. 0 \in A
  <2>1. g[0] = << >>
    BY <1>4
  <2>2. g[0] \in Seq(S) /\ Len(g[0]) = 0
    BY <2>1
  <2>3. DOMAIN g[0] = 1 .. 0
    BY <2>2
  <2>4. Filtered(g[0], 0, s, c, 0)
    BY <2>3 DEF Filtered, Distinct
  <2> QED
    BY <2>2, <2>4
<1>6. ASSUME NEW n \in Nat, n \in A PROVE n + 1 \in A
  <2> SUFFICES ASSUME n + 1 <= N
               PROVE  g[n + 1] \in Seq(S) /\ Filtered(g[n + 1], Len(g[n + 1]), s, c, n + 1)
    OBVIOUS
  <2>1. PICK t, k : t = g[n] /\ k = Len(t)
    BY Zenon
  <2>2. t \in Seq(S) /\ Filtered(t, k, s, c, n)
    BY <1>6, <2>1
  <2>3. g[n + 1] = IF s[n + 1] = c THEN t ELSE Append(t, s[n + 1])
    <3>1. n + 1 \in 0 .. N /\ n + 1 # 0 /\ (n + 1) - 1 = n
      OBVIOUS
    <3> QED
      BY <1>4, <2>1, <3>1
  <2>4. k \in Nat /\ n + 1 \in 1 .. N /\ s[n + 1] \in S /\ DOMAIN s = 1 .. N
    BY <1>1, <1>2, <2>1, <2>2
  <2>5. CASE s[n + 1] = c
    <3>1. Filtered(t, k, s, c, n + 1)
      BY <2>2, <2>4, <2>5, FilteredDrops, Zenon
    <3> QED
      BY <2>1, <2>2, <2>3, <2>5, <3>1
  <2>6. CASE s[n + 1] # c
    <3>1. PICK u : u = Append(t, s[n + 1])
      BY Zenon
    <3>2. /\ u \in Seq(S) /\ Len(u) = k + 1
          /\ \A j \in 1 .. k : u[j] = t[j]
          /\ u[k + 1] = s[n + 1]
      BY <2>1, <2>2, <2>4, <3>1
    <3>3. DOMAIN u = 1 .. k + 1
      BY <3>2
    <3>4. Filtered(u, k + 1, s, c, n + 1)
      BY <2>2, <2>4, <2>6, <3>2, <3>3, FilteredTakes, Zenon
    <3> QED
      BY <2>3, <2>6, <3>1, <3>2, <3>4
  <2> QED
    BY <2>5, <2>6
<1>7. PICK t, k : t = Without(s, c) /\ k = Len(t)
  OBVIOUS
<1>8. t \in Seq(S) /\ Filtered(t, k, s, c, N)
  <2>1. Nat \subseteq A
    <3> HIDE DEF A
    <3> QED
      BY <1>5, <1>6, Induction
  <2> QED
    BY <1>3, <1>7, <2>1
<1>9. Members(t) = Members(s) \ {c}
  <2>1. DOMAIN s = 1 .. N /\ DOMAIN t = 1 .. k
    BY <1>1, <1>2, <1>8 DEF Filtered
  <2>2. \A i \in DOMAIN s : s[i] # c => \E j \in DOMAIN t : t[j] = s[i]
    BY <1>8, <2>1, SMTT(30) DEF Filtered
  <2>3. \A j \in DOMAIN t : t[j] # c /\ \E i \in DOMAIN s : t[j] = s[i]
    BY <1>8, <2>1 DEF Filtered
  <2>4. ASSUME NEW e PROVE e \in Members(t) <=> e \in Members(s) \ {c}
    <3>1. e \in Members(t) <=> \E j \in DOMAIN t : e = t[j]
      BY Zenon DEF Members
    <3>2. e \in Members(s) <=> \E i \in DOMAIN s : e = s[i]
      BY Zenon DEF Members
    <3> QED
      BY <2>2, <2>3, <3>1, <3>2, Zenon
  <2> QED
    BY <2>4, Zenon
<1>10. Distinct(s) => Distinct(t) /\ (c \in Members(s) => k = N - 1)
  BY <1>1, <1>2, <1>8 DEF Members, Filtered
<1> QED
  BY <1>2, <1>7, <1>8, <1>9, <1>10

=============================================================================
