----------------------------- MODULE RtrMonProofs -----------------------------
(***************************************************************************)
(* rtrmon's comparison catches up, and what it says of the past of a VRP   *)
(* is right, for any VRPs, sources, times and bounds.                      *)
(***************************************************************************)
EXTENDS RtrMon, ListFacts

\* The fields this argument is about exist.
Shape ==
  /\ DOMAIN client = Clients
  /\ \A i \in Clients : {"pc", "vrps"} \subseteq DOMAIN client[i]
  /\ {"pc", "vrps"} \subseteq DOMAIN cmp
  /\ DOMAIN cmp.vrps = Clients

\* v is what client i holds, unless the client still has to report a change.
Fresh(v, i) == client[i].pc = "send" \/ v = client[i].vrps

Differences(v, w) == [i \in Clients |-> IF i = 1 THEN Diff(v, w) ELSE Diff(w, v)]

\* DiffCurrent is not inductive: it says nothing of a comparison that is under
\* way, nor of the maps.  What the Comparator has read, or has published, was read from maps
\* that are current except where a report waits to be received; a comparison
\* that has not read a map yet needs nothing of it.
CompareInv ==
  /\ Shape
  /\ cmp.pc \in {"wait", "primary", "secondary", "publish"}
  /\ cmp.pc \in {"secondary", "publish"} => Fresh(cmp.vrps[1], 1)
  /\ cmp.pc = "publish" => Fresh(cmp.vrps[2], 2)
  /\ cmp.pc = "wait" =>
       \E v, w : Fresh(v, 1) /\ Fresh(w, 2) /\ onlyIn = Differences(v, w)

\* Nothing is held and nothing published at first.
LEMMA CompareInit == MonInit => CompareInv
  <1> SUFFICES ASSUME MonInit PROVE CompareInv
    OBVIOUS
  <1>1. Shape
    BY DEF MonInit, Shape, NewClient
  <1>2. Fresh(NoVrps, 1) /\ Fresh(NoVrps, 2)
    BY DEF MonInit, Fresh, Clients, NewClient
  <1>3. onlyIn = Differences(NoVrps, NoVrps)
    <2>1. Diff(NoVrps, NoVrps) = NoVrps
      BY DEF Diff, NoVrps, Restrict
    <2> QED
      BY <2>1 DEF MonInit, Differences
  <1>4. cmp.pc = "wait"
    BY DEF MonInit
  <1> QED
    BY <1>1, <1>2, <1>3, <1>4 DEF CompareInv

\* A client changes its map only in a step that leaves it with a report to
\* send, and withdraws no report itself.
LEMMA CompareClient ==
  ASSUME CompareInv, UNCHANGED <<cmp, onlyIn>>, Shape',
         \A i \in Clients : client'[i].pc = "send"
                            \/ (client'[i].vrps = client[i].vrps /\ client[i].pc # "send")
                            \/ client'[i] = client[i]
  PROVE  CompareInv'
  <1>1. ASSUME NEW v, NEW i \in Clients, Fresh(v, i)
        PROVE  Fresh(v, i)'
    BY <1>1 DEF Fresh
  <1> QED
    BY <1>1 DEF CompareInv, Clients, Differences

\* A fetch stores a new map and leaves a report to send; a new RTR session
\* stores nothing yet.
LEMMA CompareFetch ==
  ASSUME CompareInv, NEW i \in Clients, NEW keys \in SUBSET Keys,
         FetchJson(i, keys) \/ ClientConnected(i, keys)
  PROVE  CompareInv'
  <1>1. UNCHANGED <<cmp, onlyIn>>
    BY DEF FetchJson, ClientConnected
  <1>2. Shape'
    BY DEF CompareInv, Shape, FetchJson, ClientConnected
  <1>3. \A j \in Clients : client'[j].pc = "send"
                           \/ (client'[j].vrps = client[j].vrps /\ client[j].pc # "send")
                           \/ client'[j] = client[j]
    BY DEF CompareInv, Shape, FetchJson, ClientConnected, Begin
  <1> QED
    BY <1>1, <1>2, <1>3, CompareClient

\* During a response a prefix changes what is received, not what is held.
LEMMA ComparePrefix ==
  ASSUME CompareInv, NEW i \in Clients, NEW k \in Keys, HandlePrefix(i, k)
  PROVE  CompareInv'
  <1>1. UNCHANGED <<cmp, onlyIn>> /\ client[i].pc = "receive"
    BY Zenon DEF HandlePrefix
  <1>2. PICK received :
          client' = [client EXCEPT ![i].todo = @ \ {k}, ![i].vrpsRtr = received]
    BY Zenon DEF HandlePrefix
  <1>3. Shape'
    BY <1>1, <1>2 DEF CompareInv, Shape
  <1>4. \A j \in Clients : client'[j].pc = "send"
                           \/ (client'[j].vrps = client[j].vrps /\ client[j].pc # "send")
                           \/ client'[j] = client[j]
    BY <1>1, <1>2 DEF CompareInv, Shape
  <1> QED
    BY <1>1, <1>3, <1>4, CompareClient, Zenon

\* The end of a response stores a new map and leaves a report to send.
LEMMA CompareEndOfData ==
  ASSUME CompareInv, NEW i \in Clients, HandleEndOfData(i)
  PROVE  CompareInv'
  <1>1. UNCHANGED <<cmp, onlyIn>>
    BY DEF HandleEndOfData
  <1>2. Shape'
    BY DEF CompareInv, Shape, HandleEndOfData
  <1>3. \A j \in Clients : client'[j].pc = "send" \/ client'[j] = client[j]
    BY DEF CompareInv, Shape, HandleEndOfData
  <1> QED
    BY <1>1, <1>2, <1>3, CompareClient

\* A session that ends early leaves the map as it is.
LEMMA CompareError ==
  ASSUME CompareInv, NEW i \in Clients, HandleError(i)
  PROVE  CompareInv'
  <1>1. UNCHANGED <<cmp, onlyIn>>
    BY DEF HandleError
  <1>2. Shape'
    BY DEF CompareInv, Shape, HandleError
  <1>3. \A j \in Clients : (client'[j].vrps = client[j].vrps /\ client[j].pc # "send")
                           \/ client'[j] = client[j]
    BY DEF CompareInv, Shape, HandleError
  <1> QED
    BY <1>1, <1>2, <1>3, CompareClient

\* A report that is received starts a comparison, which has read nothing yet.
LEMMA CompareReport ==
  ASSUME CompareInv, NEW i \in Clients, CompareReceive(i)
  PROVE  CompareInv'
  BY DEF CompareInv, Shape, CompareReceive

\* The primary's map is read as it is held.
LEMMA CompareReadPrimary ==
  ASSUME CompareInv, GetDataPrimary
  PROVE  CompareInv'
  <1>1. cmp' = [cmp EXCEPT !.pc = "secondary", !.vrps[1] = client[1].vrps]
    BY DEF GetDataPrimary
  <1>2. Shape' /\ cmp'.pc = "secondary" /\ cmp'.vrps[1] = client[1].vrps
    BY <1>1 DEF CompareInv, Shape, GetDataPrimary, Clients
  <1> QED
    BY <1>2 DEF CompareInv, Fresh, GetDataPrimary

\* So is the secondary's; the primary's may have changed since, but then a
\* report waits.
LEMMA CompareReadSecondary ==
  ASSUME CompareInv, GetDataSecondary
  PROVE  CompareInv'
  <1>1. cmp' = [cmp EXCEPT !.pc = "publish", !.vrps[2] = client[2].vrps]
    BY DEF GetDataSecondary
  <1>2. /\ Shape' /\ cmp'.pc = "publish"
        /\ cmp'.vrps[1] = cmp.vrps[1] /\ cmp'.vrps[2] = client[2].vrps
    BY <1>1 DEF CompareInv, Shape, GetDataSecondary, Clients
  <1> QED
    BY <1>2 DEF CompareInv, Fresh, GetDataSecondary

\* What is published was computed from the two maps that were read.
LEMMA ComparePublish ==
  ASSUME CompareInv, Publish
  PROVE  CompareInv'
  <1>1. PICK v, w : v = cmp.vrps[1] /\ w = cmp.vrps[2]
    OBVIOUS
  <1>2. Fresh(v, 1)' /\ Fresh(w, 2)'
    BY <1>1 DEF CompareInv, Publish, Fresh
  <1>3. onlyIn' = Differences(v, w)
    BY <1>1 DEF Publish, Differences, Other, Clients
  <1>4. Shape' /\ cmp'.pc = "wait"
    BY DEF CompareInv, Shape, Publish
  <1> QED
    BY <1>2, <1>3, <1>4 DEF CompareInv, Differences

LEMMA CompareNext == CompareInv /\ [MonNext]_monVars => CompareInv'
  <1> SUFFICES ASSUME CompareInv, [MonNext]_monVars
               PROVE  CompareInv'
    OBVIOUS
  <1>1. CASE Tick
    BY <1>1 DEF Tick, CompareInv, Shape, Fresh
  <1>2. CASE UNCHANGED monVars
    BY <1>2 DEF monVars, CompareInv, Shape, Fresh
  <1> QED
    BY <1>1, <1>2, CompareFetch, ComparePrefix, CompareEndOfData, CompareError, CompareReport,
       CompareReadPrimary, CompareReadSecondary, ComparePublish DEF MonNext

\* The maps of a client whose source answered a last and ever sent h: what is
\* compared has the last answer, and nothing that was never sent; what comes in
\* over RTR is kept.
HeldOK(r, a, h) ==
  /\ {"pc", "answer", "todo", "vrpsRtr", "vrps"} \subseteq DOMAIN r
  /\ a \subseteq DOMAIN r.vrps /\ DOMAIN r.vrps \subseteq h
  /\ DOMAIN r.vrpsRtr \subseteq h
  /\ r.answer \ r.todo \subseteq DOMAIN r.vrpsRtr

HeldInv ==
  /\ DOMAIN client = Clients
  /\ answered = [i \in Clients |-> answered[i]] /\ heard = [i \in Clients |-> heard[i]]
  /\ \A i \in Clients : HeldOK(client[i], answered[i], heard[i])

LEMMA HeldInit == MonInit => HeldInv
  <1> SUFFICES ASSUME MonInit, NEW i \in Clients
               PROVE  HeldOK(client[i], answered[i], heard[i])
    BY DEF MonInit, HeldInv
  <1>1. client[i] = NewClient /\ answered[i] = {} /\ heard[i] = {}
    BY DEF MonInit
  <1>2. DOMAIN NoVrps = {}
    BY DEF NoVrps
  <1> QED
    BY <1>1, <1>2 DEF HeldOK, NewClient

\* A step of client i.
LEMMA HeldOne ==
  ASSUME HeldInv, NEW i \in Clients, NEW r, NEW a, NEW h,
         client' = [client EXCEPT ![i] = r], answered' = [answered EXCEPT ![i] = a],
         heard' = [heard EXCEPT ![i] = h], HeldOK(r, a, h)
  PROVE  HeldInv'
  BY Zenon DEF HeldInv

LEMMA HeldStep ==
  ASSUME HeldInv, NEW i \in Clients, NEW keys, NEW k,
         \/ FetchJson(i, keys) \/ ClientConnected(i, keys) \/ HandlePrefix(i, k)
         \/ HandleEndOfData(i) \/ HandleError(i) \/ CompareReceive(i)
  PROVE  HeldInv'
  <1>1. PICK r, a, h : r = client[i] /\ a = answered[i] /\ h = heard[i]
    OBVIOUS
  <1>2. /\ HeldOK(r, a, h) /\ DOMAIN client = Clients
        /\ answered = [answered EXCEPT ![i] = a] /\ heard = [heard EXCEPT ![i] = h]
    BY <1>1 DEF HeldInv
  <1>3. {"pc", "answer", "todo", "vrpsRtr", "vrps"} \subseteq DOMAIN r
    BY <1>2 DEF HeldOK
  <1>4. CASE FetchJson(i, keys)
    <2>1. PICK w : w = BuildNewVrpMap(r.vrps, keys)
      BY Zenon
    <2>2. DOMAIN w \subseteq keys \cup DOMAIN r.vrps /\ keys \subseteq DOMAIN w
      BY <2>1, Zenon DEF BuildNewVrpMap
    <2>3. PICK r2 : r2 = [r EXCEPT !.fetches = @ + 1, !.vrps = w, !.pc = "send"]
      OBVIOUS
    <2>4. client' = [client EXCEPT ![i] = r2]
      BY <1>1, <1>2, <1>4, <2>1, <2>3 DEF FetchJson
    <2>5. HeldOK(r2, keys, h \cup keys)
      BY <1>2, <1>3, <2>2, <2>3 DEF HeldOK
    <2>6. answered' = [answered EXCEPT ![i] = keys] /\ heard' = [heard EXCEPT ![i] = h \cup keys]
      BY <1>1, <1>4, Zenon DEF FetchJson
    <2> QED
      BY <2>4, <2>5, <2>6, HeldOne, Zenon
  <1>5. CASE ClientConnected(i, keys)
    <2>1. PICK r2 : r2 = [r EXCEPT !.fetches = @ + 1, !.pc = "receive", !.answer = keys,
                                   !.todo = keys]
      OBVIOUS
    <2>2. client' = [client EXCEPT ![i] = r2] /\ answered' = answered /\ heard' = heard
      BY <1>1, <1>2, <1>5, <2>1 DEF ClientConnected, history
    <2>3. HeldOK(r2, a, h)
      BY <1>2, <1>3, <2>1 DEF HeldOK
    <2> QED
      BY <1>2, <2>2, <2>3, HeldOne, Zenon
  <1>6. CASE HandlePrefix(i, k)
    <2>1. PICK w : w = [j \in DOMAIN r.vrpsRtr \cup {k} |->
                          IF j = k THEN [first |-> now, last |-> 0] ELSE r.vrpsRtr[j]]
      BY Zenon
    <2>2. DOMAIN w = DOMAIN r.vrpsRtr \cup {k}
      BY <2>1
    <2>3. PICK r2 : r2 = [r EXCEPT !.todo = @ \ {k}, !.vrpsRtr = w]
      OBVIOUS
    <2>4. client' = [client EXCEPT ![i] = r2] /\ answered' = answered
      BY <1>1, <1>2, <1>6, <2>1, <2>3 DEF HandlePrefix
    <2>5. heard' = [heard EXCEPT ![i] = h \cup {k}]
      BY <1>1, <1>6, Zenon DEF HandlePrefix
    <2>6. HeldOK(r2, a, h \cup {k})
      BY <1>2, <1>3, <2>2, <2>3 DEF HeldOK
    <2> QED
      BY <1>2, <2>4, <2>5, <2>6, HeldOne, Zenon
  <1>7. CASE HandleEndOfData(i)
    <2>1. PICK r2 : r2 = [r EXCEPT !.vrps = r.vrpsRtr, !.pc = "send", !.answer = {}]
      OBVIOUS
    <2>2. /\ client' = [client EXCEPT ![i] = r2] /\ heard' = heard /\ r.todo = {}
          /\ answered' = [answered EXCEPT ![i] = r.answer]
      BY <1>1, <1>2, <1>7, <2>1 DEF HandleEndOfData
    <2>3. HeldOK(r2, r.answer, h)
      BY <1>2, <1>3, <2>1, <2>2 DEF HeldOK
    <2> QED
      BY <1>2, <2>2, <2>3, HeldOne, Zenon
  <1>8. CASE HandleError(i) \/ CompareReceive(i)
    <2>1. PICK r2 : /\ client' = [client EXCEPT ![i] = r2]
                    /\ \/ r2 = [r EXCEPT !.answer = {}, !.todo = {}, !.pc = "fetch"]
                       \/ r2 = [r EXCEPT !.pc = "fetch"]
      BY <1>1, <1>2, <1>8 DEF HandleError, CompareReceive
    <2>2. answered' = answered /\ heard' = heard
      BY <1>8 DEF HandleError, CompareReceive, history
    <2>3. HeldOK(r2, a, h)
      BY <1>2, <1>3, <2>1 DEF HeldOK
    <2> QED
      BY <1>2, <2>1, <2>2, <2>3, HeldOne, Zenon
  <1> QED
    BY <1>4, <1>5, <1>6, <1>7, <1>8

LEMMA HeldNext == HeldInv /\ [MonNext]_monVars => HeldInv'
  <1> SUFFICES ASSUME HeldInv, [MonNext]_monVars PROVE HeldInv'
    OBVIOUS
  <1>1. CASE Tick \/ GetDataPrimary \/ GetDataSecondary \/ Publish \/ UNCHANGED monVars
    <2>1. UNCHANGED <<client, answered, heard>>
      BY <1>1 DEF Tick, GetDataPrimary, GetDataSecondary, Publish, monVars, history
    <2> QED
      BY <2>1 DEF HeldInv
  <1> QED
    BY <1>1, HeldStep DEF MonNext

\* Client.Start, HandlePDU and Compare: in whatever order the two clients store
\* new maps, report them and are read, once every report is received and the
\* comparison is over the published differences follow from the last answers of
\* the sources.
THEOREM DifferencesCatchUp == MonSpec => []DiffCurrent
  <1>1. ASSUME CompareInv, HeldInv, Quiet, NEW i \in Clients
        PROVE  /\ answered[i] \ heard[Other(i)] \subseteq DOMAIN onlyIn[i]
               /\ DOMAIN onlyIn[i] \subseteq heard[i] \ answered[Other(i)]
    <2>1. Other(i) \in Clients
      BY DEF Other, Clients
    <2>2. onlyIn[i] = Diff(client[i].vrps, client[Other(i)].vrps)
      BY <1>1 DEF CompareInv, Quiet, Fresh, Differences, Other, Clients
    <2>3. DOMAIN onlyIn[i] = DOMAIN client[i].vrps \ DOMAIN client[Other(i)].vrps
      BY <2>2 DEF Diff, Restrict
    <2>4. /\ answered[i] \subseteq DOMAIN client[i].vrps
          /\ DOMAIN client[i].vrps \subseteq heard[i]
          /\ answered[Other(i)] \subseteq DOMAIN client[Other(i)].vrps
          /\ DOMAIN client[Other(i)].vrps \subseteq heard[Other(i)]
      BY <1>1, <2>1 DEF HeldInv, HeldOK
    <2> QED
      BY <2>3, <2>4
  <1>2. CompareInv /\ HeldInv => DiffCurrent
    BY <1>1 DEF DiffCurrent
  <1> QED
    BY CompareInit, CompareNext, HeldInit, HeldNext, <1>2, PTL DEF MonSpec

-----------------------------------------------------------------------------
(* First and last sightings.  The definitions of RtrMon, for any answers l, *)
(* the last of which is the L-th.                                           *)

Sight(l, k) == {n \in DOMAIN l : k \in l[n].keys}

Holds(l, k, n, m) ==
  \A p \in n .. m : \E q \in Sight(l, k) \cap n .. p : l[q].at >= l[p].at - GracePeriod

Runs(l, L, k) == {n \in Sight(l, k) : Holds(l, k, n, L)}

EntryOK(l, R, e) ==
  /\ \E n \in R : e.first = l[n].at /\ \A m \in R : n <= m
  /\ \E n \in R : e.last = l[n].at /\ \A m \in R : m <= n

MapOK(l, L, v) ==
  /\ DOMAIN v = {k \in Keys : Runs(l, L, k) # {}}
  /\ \A k \in DOMAIN v : EntryOK(l, Runs(l, L, k), v[k])

\* Answers come at times that do not decrease, up to the time t.
Logged(l, L, t) ==
  /\ L \in Nat /\ DOMAIN l = 1 .. L
  /\ \A n \in 1 .. L : l[n].at \in Nat /\ l[n].at <= t
  /\ \A m, n \in 1 .. L : m <= n => l[m].at <= l[n].at

\* l2 has one more answer, at the time t with the VRPs in new.
OneMore(l, L, l2, t, new) ==
  /\ DOMAIN l2 = 1 .. L + 1
  /\ \A n \in 1 .. L : l2[n] = l[n]
  /\ l2[L + 1].at = t /\ l2[L + 1].keys = new

\* Another answer adds a sighting or not.
LEMMA SightAfter ==
  ASSUME NEW l, NEW L, NEW t \in Nat, Logged(l, L, t), NEW l2, NEW new,
         OneMore(l, L, l2, t, new), NEW k
  PROVE  /\ Sight(l, k) \subseteq 1 .. L
         /\ Sight(l2, k) = IF k \in new THEN Sight(l, k) \cup {L + 1} ELSE Sight(l, k)
  <1>1. L \in Nat /\ DOMAIN l = 1 .. L /\ DOMAIN l2 = 1 .. L + 1
    BY DEF Logged, OneMore
  <1>2. /\ \A n \in 1 .. L : n \in 1 .. L + 1 /\ n # L + 1
        /\ \A n \in 1 .. L + 1 : n \in 1 .. L \/ n = L + 1
        /\ L + 1 \in 1 .. L + 1
    BY <1>1
  <1>3. \A n \in 1 .. L : l2[n].keys = l[n].keys
    BY DEF OneMore
  <1>4. l2[L + 1].keys = new
    BY DEF OneMore
  <1>5. Sight(l, k) \subseteq 1 .. L
    BY <1>1 DEF Sight
  <1>6. CASE k \in new
    <2>1. ASSUME NEW n PROVE n \in Sight(l2, k) <=> n \in Sight(l, k) \cup {L + 1}
      <3>1. /\ n \in Sight(l2, k) <=> n \in 1 .. L + 1 /\ k \in l2[n].keys
            /\ n \in Sight(l, k) <=> n \in 1 .. L /\ k \in l[n].keys
        BY <1>1 DEF Sight
      <3>2. CASE n = L + 1
        BY <1>2, <1>4, <1>6, <3>1, <3>2
      <3>3. CASE n # L + 1
        BY <1>2, <1>3, <3>1, <3>3
      <3> QED
        BY <3>2, <3>3
    <2>2. Sight(l2, k) = Sight(l, k) \cup {L + 1}
      BY <2>1, Zenon
    <2> QED
      BY <1>5, <1>6, <2>2
  <1>7. CASE k \notin new
    BY <1>1, <1>2, <1>3, <1>4, <1>7, Zenon DEF Sight
  <1> QED
    BY <1>5, <1>6, <1>7

\* The times of the earlier answers stay.
LEMMA TimesAfter ==
  ASSUME NEW l, NEW L, NEW t \in Nat, Logged(l, L, t), NEW l2, NEW new,
         OneMore(l, L, l2, t, new)
  PROVE  /\ Logged(l2, L + 1, t)
         /\ \A n \in 1 .. L : l2[n].at = l[n].at
  <1>1. /\ L \in Nat /\ DOMAIN l2 = 1 .. L + 1
        /\ \A n \in 1 .. L : l[n].at \in Nat /\ l[n].at <= t
        /\ \A m, n \in 1 .. L : m <= n => l[m].at <= l[n].at
        /\ l2[L + 1].at = t
    BY DEF Logged, OneMore
  <1>2. \A n \in 1 .. L : l2[n].at = l[n].at
    BY DEF OneMore
  <1>3. \A n \in 1 .. L + 1 : n \in 1 .. L \/ n = L + 1
    BY <1>1
  <1>4. \A n \in 1 .. L + 1 : l2[n].at \in Nat /\ l2[n].at <= t
    BY <1>1, <1>2, <1>3
  <1>5. \A m, n \in 1 .. L + 1 : m <= n => l2[m].at <= l2[n].at
    <2> TAKE m, n \in 1 .. L + 1
    <2> HAVE m <= n
    <2>1. CASE n = L + 1
      BY <1>1, <1>4, <2>1
    <2>2. CASE n \in 1 .. L
      <3>1. m \in 1 .. L
        BY <1>1, <2>2
      <3> QED
        BY <1>1, <1>2, <2>2, <3>1
    <2> QED
      BY <1>3, <2>1, <2>2
  <1> QED
    BY <1>1, <1>2, <1>4, <1>5 DEF Logged

\* A run that began before another answer goes on if that answer held the VRP or
\* came in time.
LEMMA HoldsAfter ==
  ASSUME NEW l, NEW L, NEW t \in Nat, Logged(l, L, t), NEW l2, NEW new,
         OneMore(l, L, l2, t, new), NEW k, NEW n \in Sight(l, k)
  PROVE  Holds(l2, k, n, L + 1) <=>
           /\ Holds(l, k, n, L)
           /\ k \in new \/ \E q \in Sight(l, k) \cap n .. L : l[q].at >= t - GracePeriod
  <1>1. L \in Nat /\ n \in 1 .. L /\ Sight(l, k) \subseteq 1 .. L
    BY SightAfter DEF Logged
  <1>2. /\ \A p \in n .. L + 1 : p \in n .. L \/ p = L + 1
        /\ \A p \in n .. L : p \in n .. L + 1 /\ p \in 1 .. L /\ L + 1 \notin n .. p
        /\ L + 1 \in n .. L + 1
        /\ \A q \in 1 .. L : q \in n .. L + 1 <=> q \in n .. L
    BY <1>1
  <1>3. \A p \in n .. L : Sight(l2, k) \cap n .. p = Sight(l, k) \cap n .. p
    BY <1>2, SightAfter
  <1>4. \A p \in 1 .. L : l2[p].at = l[p].at
    BY TimesAfter
  <1>5. ASSUME NEW p \in n .. L
        PROVE  (\E q \in Sight(l2, k) \cap n .. p : l2[q].at >= l2[p].at - GracePeriod)
               <=> (\E q \in Sight(l, k) \cap n .. p : l[q].at >= l[p].at - GracePeriod)
    <2>1. l2[p].at = l[p].at
      BY <1>2, <1>4
    <2>2. \A q \in Sight(l, k) : l2[q].at = l[q].at
      BY <1>1, <1>4
    <2> QED
      BY <1>3, <2>1, <2>2
  <1>6. l2[L + 1].at = t
    BY DEF OneMore
  <1>7. (\E q \in Sight(l2, k) \cap n .. L + 1 : l2[q].at >= t - GracePeriod)
        <=> (k \in new \/ \E q \in Sight(l, k) \cap n .. L : l[q].at >= t - GracePeriod)
    <2>1. \A q \in Sight(l, k) : l2[q].at = l[q].at /\ (q \in n .. L + 1 <=> q \in n .. L)
      BY <1>1, <1>2, <1>4
    <2>2. t >= t - GracePeriod
      BY MonAssumption
    <2>3. CASE k \in new
      BY <1>2, <1>6, <2>2, <2>3, SightAfter
    <2>4. CASE k \notin new
      <3>1. Sight(l2, k) = Sight(l, k)
        BY <2>4, SightAfter
      <3> QED
        BY <2>1, <2>4, <3>1
    <2> QED
      BY <2>3, <2>4
  <1>8. Holds(l2, k, n, L + 1) <=>
          /\ \A p \in n .. L : \E q \in Sight(l2, k) \cap n .. p : l2[q].at >= l2[p].at - GracePeriod
          /\ \E q \in Sight(l2, k) \cap n .. L + 1 : l2[q].at >= t - GracePeriod
    BY <1>2, <1>6 DEF Holds
  <1> QED
    BY <1>5, <1>7, <1>8 DEF Holds

\* The runs after another answer.
LEMMA RunsAfter ==
  ASSUME NEW l, NEW L, NEW t \in Nat, Logged(l, L, t), NEW l2, NEW new,
         OneMore(l, L, l2, t, new), NEW k
  PROVE  /\ k \in new => Runs(l2, L + 1, k) = Runs(l, L, k) \cup {L + 1}
         /\ k \notin new =>
              Runs(l2, L + 1, k) =
                {n \in Runs(l, L, k) :
                   \E q \in Sight(l, k) \cap n .. L : l[q].at >= t - GracePeriod}
  <1>1. \A n \in Sight(l, k) : Holds(l2, k, n, L + 1) <=>
           /\ Holds(l, k, n, L)
           /\ k \in new \/ \E q \in Sight(l, k) \cap n .. L : l[q].at >= t - GracePeriod
    BY HoldsAfter
  <1>2. CASE k \notin new
    <2>1. Sight(l2, k) = Sight(l, k)
      BY <1>2, SightAfter
    <2> QED
      BY <1>1, <1>2, <2>1 DEF Runs
  <1>3. CASE k \in new
    <2>1. Sight(l2, k) = Sight(l, k) \cup {L + 1}
      BY <1>3, SightAfter
    <2>2. Holds(l2, k, L + 1, L + 1)
      <3>1. L \in Nat /\ l2[L + 1].at \in Nat
        BY DEF Logged, OneMore
      <3>2. l2[L + 1].at >= l2[L + 1].at - GracePeriod
        BY <3>1, MonAssumption
      <3> SUFFICES ASSUME NEW p \in L + 1 .. L + 1
                   PROVE  \E q \in Sight(l2, k) \cap L + 1 .. p :
                            l2[q].at >= l2[p].at - GracePeriod
        BY DEF Holds
      <3>3. p = L + 1 /\ L + 1 \in L + 1 .. p
        BY <3>1
      <3>4. L + 1 \in Sight(l2, k)
        BY <2>1
      <3> QED
        BY <3>2, <3>3, <3>4
    <2> QED
      BY <1>1, <1>3, <2>1, <2>2 DEF Runs
  <1> QED
    BY <1>2, <1>3

\* A sighting within a run begins a run.
LEMMA RunFrom ==
  ASSUME NEW l, NEW L, NEW t \in Nat, Logged(l, L, t), NEW k,
         NEW n \in Runs(l, L, k), NEW q \in Sight(l, k), n <= q
  PROVE  q \in Runs(l, L, k)
  <1> SUFFICES ASSUME NEW p \in q .. L
               PROVE  \E r \in Sight(l, k) \cap q .. p : l[r].at >= l[p].at - GracePeriod
    BY DEF Runs, Holds
  <1>1. L \in Nat /\ n \in 1 .. L /\ q \in 1 .. L /\ Sight(l, k) \subseteq 1 .. L
    BY DEF Runs, Sight, Logged
  <1>2. p \in n .. L /\ p \in 1 .. L /\ q \in q .. p
    BY <1>1
  <1>3. PICK r \in Sight(l, k) \cap n .. p : l[r].at >= l[p].at - GracePeriod
    BY <1>2 DEF Runs, Holds
  <1>4. r \in 1 .. L
    BY <1>1, <1>3
  <1>5. CASE r >= q
    <2>1. r \in q .. p
      BY <1>1, <1>2, <1>3, <1>4, <1>5
    <2> QED
      BY <1>3, <2>1
  <1>6. CASE r < q
    <2>1. l[r].at <= l[q].at /\ l[r].at \in Nat /\ l[q].at \in Nat /\ l[p].at \in Nat
      BY <1>1, <1>2, <1>4, <1>6 DEF Logged
    <2>2. l[q].at >= l[p].at - GracePeriod
      BY <1>3, <2>1, MonAssumption
    <2> QED
      BY <1>2, <2>2
  <1> QED
    BY <1>1, <1>4, <1>5, <1>6

\* BuildNewVrpMap's test of LastSeen decides whether a run goes on.
LEMMA GraceDecides ==
  ASSUME NEW l, NEW L, NEW t \in Nat, Logged(l, L, t), NEW k,
         NEW e, EntryOK(l, Runs(l, L, k), e)
  PROVE  LET go == {n \in Runs(l, L, k) :
                      \E q \in Sight(l, k) \cap n .. L : l[q].at >= t - GracePeriod}
         IN  IF e.last >= t - GracePeriod THEN go = Runs(l, L, k) ELSE go = {}
  <1>1. PICK m \in Runs(l, L, k) : e.last = l[m].at /\ \A n \in Runs(l, L, k) : n <= m
    BY DEF EntryOK
  <1>2. /\ L \in Nat /\ Sight(l, k) \subseteq 1 .. L /\ Runs(l, L, k) \subseteq Sight(l, k)
        /\ m \in 1 .. L /\ l[m].at \in Nat
    BY DEF Runs, Sight, Logged
  <1>3. CASE e.last >= t - GracePeriod
    <2>1. \A n \in Runs(l, L, k) : m \in Sight(l, k) \cap n .. L
      BY <1>1, <1>2
    <2> QED
      BY <1>1, <1>3, <2>1
  <1>4. CASE ~(e.last >= t - GracePeriod)
    <2> SUFFICES ASSUME NEW n \in Runs(l, L, k), NEW q \in Sight(l, k) \cap n .. L,
                        l[q].at >= t - GracePeriod
                 PROVE  FALSE
      BY <1>4
    <2>1. n \in 1 .. L /\ q \in 1 .. L /\ n <= q
      BY <1>2
    <2>2. q \in Runs(l, L, k)
      BY <2>1, RunFrom
    <2>3. q <= m
      BY <1>1, <2>2
    <2>4. l[q].at <= l[m].at /\ l[q].at \in Nat
      BY <1>2, <2>1, <2>3 DEF Logged
    <2> QED
      BY <1>1, <1>2, <1>4, <2>4, MonAssumption
  <1> QED
    BY <1>3, <1>4

\* What BuildNewVrpMap leaves is what the answers say, the new one included.
LEMMA MapAfter ==
  ASSUME NEW l, NEW L, NEW t \in Nat, Logged(l, L, t), NEW l2,
         NEW new \in SUBSET Keys, OneMore(l, L, l2, t, new), NEW v, MapOK(l, L, v),
         NEW w,
         DOMAIN w = new \cup {k \in DOMAIN v \ new : v[k].last >= t - GracePeriod},
         \A k \in new : /\ w[k].first = IF k \in DOMAIN v THEN v[k].first ELSE t
                        /\ w[k].last = t,
         \A k \in DOMAIN w \ new : w[k] = v[k]
  PROVE  MapOK(l2, L + 1, w)
  <1>1. L \in Nat /\ \A k : Runs(l, L, k) \subseteq 1 .. L
    BY DEF Logged, Runs, Sight
  <1>2. /\ l2[L + 1].at = t
        /\ \A n \in 1 .. L : l2[n].at = l[n].at
    BY TimesAfter DEF OneMore
  <1>3. \A k \in Keys : k \in DOMAIN v <=> Runs(l, L, k) # {}
    BY DEF MapOK
  <1>4. DOMAIN v \subseteq Keys
    BY DEF MapOK
  <1>5. ASSUME NEW k \in new
        PROVE  Runs(l2, L + 1, k) # {} /\ EntryOK(l2, Runs(l2, L + 1, k), w[k])
    <2>1. PICK R : R = Runs(l, L, k)
      OBVIOUS
    <2>2. Runs(l2, L + 1, k) = R \cup {L + 1} /\ R \subseteq 1 .. L
      BY <1>1, <1>5, <2>1, RunsAfter
    <2>3. \A n \in R : n \in 1 .. L /\ n <= L + 1 /\ l2[n].at = l[n].at
      BY <1>1, <1>2, <2>2
    <2>4. \E n \in R \cup {L + 1} : w[k].last = l2[n].at /\ \A m \in R \cup {L + 1} : m <= n
      BY <1>1, <1>2, <2>3
    <2>5. \E n \in R \cup {L + 1} : w[k].first = l2[n].at /\ \A m \in R \cup {L + 1} : n <= m
      <3>1. CASE k \in DOMAIN v
        <4>1. PICK n \in R : v[k].first = l[n].at /\ \A m \in R : n <= m
          BY <2>1, <3>1 DEF MapOK, EntryOK
        <4>2. w[k].first = l2[n].at
          BY <2>3, <3>1, <4>1
        <4> QED
          BY <2>3, <4>1, <4>2
      <3>2. CASE k \notin DOMAIN v
        <4>1. R = {}
          BY <1>3, <2>1, <3>2
        <4> QED
          BY <1>1, <1>2, <3>2, <4>1
      <3> QED
        BY <3>1, <3>2
    <2> QED
      BY <2>2, <2>4, <2>5, Zenon DEF EntryOK
  <1>6. ASSUME NEW k \in Keys \ new
        PROVE  /\ k \in DOMAIN w <=> Runs(l2, L + 1, k) # {}
               /\ k \in DOMAIN w => EntryOK(l2, Runs(l2, L + 1, k), w[k])
    <2>1. PICK R : R = Runs(l, L, k)
      OBVIOUS
    <2>2. PICK S : S = {n \in R : \E q \in Sight(l, k) \cap n .. L : l[q].at >= t - GracePeriod}
      BY Zenon
    <2>3. Runs(l2, L + 1, k) = S
      BY <1>6, <2>1, <2>2, RunsAfter
    <2>4. CASE k \notin DOMAIN v
      <3>1. S = {}
        BY <1>3, <2>1, <2>2, <2>4
      <3> QED
        BY <2>3, <2>4, <3>1
    <2>5. CASE k \in DOMAIN v
      <3>1. EntryOK(l, R, v[k]) /\ R # {}
        BY <1>3, <2>1, <2>5 DEF MapOK
      <3>2. IF v[k].last >= t - GracePeriod THEN S = R ELSE S = {}
        BY <2>1, <2>2, <3>1, GraceDecides
      <3>3. k \in DOMAIN w <=> v[k].last >= t - GracePeriod
        BY <1>6, <2>5
      <3>4. k \in DOMAIN w => EntryOK(l2, S, w[k])
        <4> HAVE k \in DOMAIN w
        <4>1. S = R /\ w[k] = v[k]
          BY <3>2, <3>3
        <4>2. \A n \in R : l2[n].at = l[n].at
          BY <1>1, <1>2, <2>1
        <4> QED
          BY <3>1, <4>1, <4>2 DEF EntryOK
      <3> QED
        BY <2>3, <3>1, <3>2, <3>3, <3>4
    <2> QED
      BY <2>4, <2>5
  <1>7. DOMAIN w = {k \in Keys : Runs(l2, L + 1, k) # {}}
    <2>1. DOMAIN w \subseteq Keys /\ new \subseteq DOMAIN w
      BY <1>4
    <2> QED
      BY <1>5, <1>6, <2>1
  <1>8. ASSUME NEW k \in DOMAIN w PROVE EntryOK(l2, Runs(l2, L + 1, k), w[k])
    <2>1. k \in Keys
      BY <1>7
    <2> QED
      BY <1>5, <1>6, <2>1
  <1> QED
    BY <1>7, <1>8 DEF MapOK

\* Every FirstSeen in v is the time of a sighting.
Seen(l, v) == \A k \in DOMAIN v : \E n \in Sight(l, k) : v[k].first = l[n].at

\* HistoryExact with what it rests on, and what the Comparator has read of the
\* maps.  Only FetchJson changes the map of a JSON client.
HistoryInv ==
  /\ Shape
  /\ now \in Nat /\ DOMAIN log = Clients
  /\ \A i \in JsonClients :
       /\ client[i].pc \in {"fetch", "send"}
       /\ IsSeq(log[i]) /\ Logged(log[i], Len(log[i]), now)
       /\ MapOK(log[i], Len(log[i]), client[i].vrps)
       /\ Seen(log[i], cmp.vrps[i])

\* No VRP has been seen at first.
LEMMA HistoryInit == MonInit => HistoryInv
  <1> SUFFICES ASSUME MonInit PROVE HistoryInv
    OBVIOUS
  <1>1. Shape /\ now \in Nat /\ DOMAIN log = Clients
    BY CompareInit DEF MonInit, CompareInv
  <1>2. ASSUME NEW i \in JsonClients
        PROVE  /\ client[i].pc = "fetch" /\ client[i].vrps = NoVrps /\ log[i] = << >>
               /\ cmp.vrps[i] = NoVrps
    <2>1. i \in Clients
      BY MonAssumption
    <2> QED
      BY <2>1 DEF MonInit, NewClient
  <1>3. IsSeq(<< >>) /\ Len(<< >>) = 0 /\ DOMAIN << >> = {}
    <2>1. << >> \in Seq({}) /\ Len(<< >>) = 0
      OBVIOUS
    <2>2. DOMAIN << >> = {}
      BY <2>1
    <2> QED
      BY <2>1, <2>2 DEF IsSeq
  <1>4. PICK l : l = << >>
    OBVIOUS
  <1>5. DOMAIN l = {} /\ Len(l) = 0 /\ DOMAIN l = 1 .. 0
    BY <1>3, <1>4
  <1>6. Logged(l, 0, now)
    BY <1>5 DEF Logged
  <1>7. \A k : Runs(l, 0, k) = {}
    BY <1>5 DEF Runs, Sight
  <1>8. DOMAIN NoVrps = {}
    BY DEF NoVrps
  <1>9. MapOK(l, 0, NoVrps) /\ Seen(l, NoVrps)
    BY <1>7, <1>8 DEF MapOK, Seen
  <1> QED
    BY <1>1, <1>2, <1>3, <1>4, <1>5, <1>6, <1>9 DEF HistoryInv

\* A step that leaves the logs and the maps of the JSON clients alone.
LEMMA HistorySame ==
  ASSUME HistoryInv, Shape', log' = log, now' \in Nat, now' >= now,
         \A i \in JsonClients : /\ client'[i].vrps = client[i].vrps
                                /\ client'[i].pc \in {"fetch", "send"}
                                /\ cmp'.vrps[i] \in {cmp.vrps[i], client[i].vrps, NoVrps}
  PROVE  HistoryInv'
  <1>1. now \in Nat /\ DOMAIN log = Clients
    BY DEF HistoryInv
  <1>2. ASSUME NEW i \in JsonClients
        PROVE  /\ client'[i].pc \in {"fetch", "send"}
               /\ IsSeq(log'[i]) /\ Logged(log'[i], Len(log'[i]), now')
               /\ MapOK(log'[i], Len(log'[i]), client'[i].vrps)
               /\ Seen(log'[i], cmp'.vrps[i])
    <2>1. PICK l, L, v, w : /\ l = log[i] /\ L = Len(log[i])
                            /\ v = client[i].vrps /\ w = cmp'.vrps[i]
      BY Zenon
    <2>2. IsSeq(l) /\ Logged(l, L, now) /\ MapOK(l, L, v) /\ Seen(l, cmp.vrps[i])
      BY <2>1 DEF HistoryInv
    <2>3. Logged(l, L, now')
      BY <1>1, <2>2 DEF Logged
    <2>4. Seen(l, v)
      BY <2>2 DEF MapOK, EntryOK, Runs, Seen
    <2>5. Seen(l, NoVrps)
      BY DEF Seen, NoVrps
    <2>6. Seen(l, w)
      BY <1>2, <2>1, <2>2, <2>4, <2>5, SMTT(30)
    <2> QED
      BY <1>2, <2>1, <2>2, <2>3, <2>6
  <1> QED
    BY <1>1, <1>2 DEF HistoryInv

\* BuildNewVrpMap keeps the history of the JSON client that fetched.
LEMMA HistoryFetch ==
  ASSUME HistoryInv, NEW i \in Clients, NEW keys \in SUBSET Keys, FetchJson(i, keys)
  PROVE  HistoryInv'
  <1>1. /\ Shape /\ now \in Nat /\ DOMAIN log = Clients /\ i \in JsonClients
        /\ UNCHANGED <<now, cmp>>
    BY DEF HistoryInv, FetchJson
  <1>2. PICK l, l2, L, v, w : /\ l = log[i] /\ l2 = log'[i] /\ L = Len(l)
                              /\ v = client[i].vrps /\ w = BuildNewVrpMap(v, keys)
    BY Zenon
  <1>3. IsSeq(l) /\ Logged(l, L, now) /\ MapOK(l, L, v) /\ Seen(l, cmp.vrps[i])
    BY <1>1, <1>2 DEF HistoryInv
  <1>4. /\ l2 = Append(l, [at |-> now, keys |-> keys])
        /\ DOMAIN log' = Clients /\ \A j \in Clients \ {i} : log'[j] = log[j]
    BY <1>1, <1>2 DEF FetchJson
  <1>5. /\ DOMAIN client' = Clients
        /\ client'[i].vrps = w /\ client'[i].pc = "send"
        /\ \A j \in Clients \ {i} : client'[j] = client[j]
        /\ {"pc", "vrps"} \subseteq DOMAIN client'[i]
    <2>1. client' = [client EXCEPT ![i].fetches = @ + 1, ![i].vrps = w, ![i].pc = "send"]
      BY <1>2 DEF FetchJson
    <2> QED
      BY <1>1, <2>1 DEF Shape
  <1>6. Shape'
    BY <1>1, <1>5 DEF Shape
  <1>7. /\ IsSeq(l2) /\ Len(l2) = L + 1 /\ L \in Nat
        /\ \A n \in 1 .. L : l2[n] = l[n]
        /\ l2[L + 1] = [at |-> now, keys |-> keys]
        /\ DOMAIN l2 = 1 .. L + 1
    <2>1. PICK e : e = [at |-> now, keys |-> keys]
      BY Zenon
    <2>2. /\ IsSeq(l2) /\ L \in Nat /\ Len(l2) = L + 1
          /\ \A k \in 1 .. L + 1 : l2[k] = IF k <= L THEN l[k] ELSE e
      BY <1>2, <1>3, <1>4, <2>1, AppendToSeq, SMTT(30)
    <2>3. DOMAIN l2 = 1 .. L + 1
      BY <2>2 DEF IsSeq
    <2> QED
      BY <2>1, <2>2, <2>3
  <1>8. OneMore(l, L, l2, now, keys)
    BY <1>7 DEF OneMore
  <1>9. /\ DOMAIN w = keys \cup {k \in DOMAIN v \ keys : v[k].last >= now - GracePeriod}
        /\ \A k \in keys : /\ w[k].first = IF k \in DOMAIN v THEN v[k].first ELSE now
                           /\ w[k].last = now
        /\ \A k \in DOMAIN w \ keys : w[k] = v[k]
    BY <1>2, Zenon DEF BuildNewVrpMap, InGracePeriod, FirstSeen
  <1>10. MapOK(l2, L + 1, w) /\ Logged(l2, L + 1, now)
    BY <1>1, <1>3, <1>8, <1>9, MapAfter, TimesAfter, SMTT(30)
  <1>11. Seen(l2, cmp.vrps[i])
    <2>1. \A k : \A n \in Sight(l, k) : n \in Sight(l2, k) /\ l2[n] = l[n]
      BY <1>3, <1>7 DEF Sight, Logged
    <2> QED
      BY <1>3, <2>1 DEF Seen
  <1>12. ASSUME NEW j \in JsonClients, j # i
         PROVE  /\ client'[j] = client[j] /\ log'[j] = log[j] /\ cmp' = cmp /\ now' = now
    BY <1>1, <1>4, <1>5, <1>12, MonAssumption
  <1>13. ASSUME NEW j \in JsonClients
         PROVE  /\ client'[j].pc \in {"fetch", "send"}
                /\ IsSeq(log'[j]) /\ Logged(log'[j], Len(log'[j]), now')
                /\ MapOK(log'[j], Len(log'[j]), client'[j].vrps)
                /\ Seen(log'[j], cmp'.vrps[j])
    <2>1. CASE j = i
      BY <1>1, <1>2, <1>5, <1>7, <1>10, <1>11, <2>1, SMTT(30)
    <2>2. CASE j # i
      <3>1. client'[j] = client[j] /\ log'[j] = log[j] /\ cmp' = cmp /\ now' = now
        BY <1>12, <2>2
      <3> QED
        BY <3>1 DEF HistoryInv
    <2> QED
      BY <2>1, <2>2, SMTT(30)
  <1> QED
    BY <1>1, <1>4, <1>6, <1>13 DEF HistoryInv

\* The other steps of a client are not those of a JSON client, or hand over its
\* id and leave its map.
LEMMA HistoryClient ==
  ASSUME HistoryInv, NEW i \in Clients, NEW keys, NEW k,
         ClientConnected(i, keys) \/ HandleEndOfData(i) \/ HandlePrefix(i, k)
           \/ HandleError(i) \/ CompareReceive(i)
  PROVE  HistoryInv'
  <1>1. Shape /\ now \in Nat /\ UNCHANGED <<log, now>> /\ cmp'.vrps = cmp.vrps
    BY Zenon DEF HistoryInv, Shape, ClientConnected, HandleEndOfData, HandlePrefix,
           HandleError, CompareReceive, history
  <1>2. {"pc", "vrps"} \subseteq DOMAIN cmp'
    BY Zenon DEF HistoryInv, Shape, ClientConnected, HandleEndOfData, HandlePrefix,
           HandleError, CompareReceive, history
  <1>3. /\ DOMAIN client' = Clients
        /\ \A j \in Clients \ {i} : client'[j] = client[j]
        /\ {"pc", "vrps"} \subseteq DOMAIN client'[i]
    BY <1>1, Zenon DEF Shape, ClientConnected, HandleEndOfData, HandlePrefix, HandleError,
                        CompareReceive
  <1>4. Shape'
    BY <1>1, <1>2, <1>3 DEF Shape
  <1>5. ASSUME i \in JsonClients
        PROVE  client'[i].vrps = client[i].vrps /\ client'[i].pc = "fetch"
    <2>1. client[i].pc \in {"fetch", "send"}
      BY <1>5 DEF HistoryInv
    <2>2. CompareReceive(i)
      BY <1>5, <2>1, Zenon DEF ClientConnected, HandleEndOfData, HandlePrefix,
                             HandleError
    <2> QED
      BY <1>1, <2>2 DEF Shape, CompareReceive
  <1>6. ASSUME NEW j \in JsonClients
        PROVE  /\ client'[j].vrps = client[j].vrps /\ client'[j].pc \in {"fetch", "send"}
               /\ cmp'.vrps[j] = cmp.vrps[j]
    <2>1. CASE j = i
      BY <1>1, <1>5, <2>1
    <2>2. CASE j # i
      <3>1. client'[j] = client[j]
        BY <1>3, <2>2, MonAssumption
      <3> QED
        BY <1>1, <3>1 DEF HistoryInv
    <2> QED
      BY <2>1, <2>2
  <1> QED
    BY <1>1, <1>4, <1>6, HistorySame

\* The Comparator reads maps and drops what it read; time passes.
LEMMA HistoryCompare ==
  ASSUME HistoryInv,
         Tick \/ GetDataPrimary \/ GetDataSecondary \/ Publish \/ UNCHANGED monVars
  PROVE  HistoryInv'
  <1>1. /\ Shape /\ now \in Nat /\ UNCHANGED <<log, client>>
        /\ now' \in Nat /\ now' >= now
    BY DEF HistoryInv, Tick, GetDataPrimary, GetDataSecondary, Publish, monVars, history
  <1>2. /\ {"pc", "vrps"} \subseteq DOMAIN cmp' /\ DOMAIN cmp'.vrps = Clients
        /\ \A j \in Clients : cmp'.vrps[j] \in {cmp.vrps[j], client[j].vrps, NoVrps}
    <2>1. CASE Tick \/ UNCHANGED monVars
      BY <1>1, <2>1 DEF Shape, Tick, monVars
    <2>2. CASE GetDataPrimary
      BY <1>1, <2>2 DEF Shape, GetDataPrimary, Clients
    <2>3. CASE GetDataSecondary
      BY <1>1, <2>3 DEF Shape, GetDataSecondary, Clients
    <2>4. CASE Publish
      BY <1>1, <2>4 DEF Shape, Publish
    <2> QED
      BY <2>1, <2>2, <2>3, <2>4
  <1>3. Shape'
    BY <1>1, <1>2 DEF Shape
  <1>4. ASSUME NEW j \in JsonClients
        PROVE  /\ client'[j].vrps = client[j].vrps /\ client'[j].pc \in {"fetch", "send"}
               /\ cmp'.vrps[j] \in {cmp.vrps[j], client[j].vrps, NoVrps}
    BY <1>1, <1>2, MonAssumption DEF HistoryInv
  <1> QED
    BY <1>1, <1>3, <1>4, HistorySame

\* HistoryInv is inductive.
LEMMA HistoryNext == HistoryInv /\ [MonNext]_monVars => HistoryInv'
  <1> SUFFICES ASSUME HistoryInv, [MonNext]_monVars PROVE HistoryInv'
    OBVIOUS
  <1>1. CASE \E i \in Clients : \E keys \in SUBSET Keys : FetchJson(i, keys)
    BY <1>1, HistoryFetch
  <1>2. CASE \E i \in Clients : \E keys, k :
               ClientConnected(i, keys) \/ HandleEndOfData(i) \/ HandlePrefix(i, k)
                 \/ HandleError(i) \/ CompareReceive(i)
    BY <1>2, HistoryClient
  <1>3. CASE Tick \/ GetDataPrimary \/ GetDataSecondary \/ Publish \/ UNCHANGED monVars
    BY <1>3, HistoryCompare
  <1> QED
    BY <1>1, <1>2, <1>3 DEF MonNext

\* BuildNewVrpMap: the map of a JSON client has an entry for exactly the VRPs
\* whose present run of sightings is unbroken, from its first to its last.
THEOREM HistoryIsExact == MonSpec => []HistoryExact
  <1>1. HistoryInv => HistoryExact
    BY Zenon DEF HistoryInv, MapOK, EntryOK, Runs, Sight, Holds, HistoryExact, Sightings,
           Unbroken
  <1> QED
    BY HistoryInit, HistoryNext, <1>1, PTL DEF MonSpec

\* countFirstSeenOnOrBefore: what vrp_diff counts for a JSON client was in an
\* answer it got at least visibility_seconds ago, also where the map has
\* changed since the Comparator read it.
THEOREM CountedWasSeen == MonSpec => []VisibleSound
  <1>1. ASSUME HistoryInv, NEW i \in JsonClients, NEW k \in Visibles(i)
        PROVE  \E n \in Sightings(i, k) : log[i][n].at <= now - Visible
    <2>1. PICK v, d : v = cmp.vrps[i] /\ d = Diff(v, cmp.vrps[Other(i)])
      OBVIOUS
    <2>2. k \in DOMAIN d /\ d[k].first <= now - Visible
      BY <2>1, <1>1 DEF Visibles, countFirstSeenOnOrBefore
    <2>3. k \in DOMAIN v /\ d[k] = v[k]
      BY <2>1, <2>2 DEF Diff, Restrict
    <2>4. Seen(log[i], v)
      BY <1>1, <2>1 DEF HistoryInv
    <2> QED
      BY <2>2, <2>3, <2>4 DEF Seen, Sight, Sightings
  <1>2. HistoryInv => VisibleSound
    BY <1>1 DEF VisibleSound
  <1> QED
    BY HistoryInit, HistoryNext, <1>2, PTL DEF MonSpec

=============================================================================
