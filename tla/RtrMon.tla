-------------------------------- MODULE RtrMon --------------------------------
(***************************************************************************)
(* The comparison of two sources by rtrmon (cmd/rtrmon/rtrmon.go): the     *)
(* goroutines of the two clients, each over JSON or over RTR with          *)
(* rtr.break (a session per refresh; RtrSession has the lasting ones), and *)
(* the Comparator.                                                         *)
(*                                                                         *)
(* A client stores a new map under compLock, then hands its id over an     *)
(* unbuffered channel; the Comparator reads the two maps in two lock       *)
(* sections and publishes their differences under diffLock.                *)
(*                                                                         *)
(* Time is Unix time since the start.  Entries that do not parse are left  *)
(* out, and an entry is its key.  A source may hold anything when it is    *)
(* asked.                                                                  *)
(***************************************************************************)
EXTENDS Integers, Sequences, Functions

CONSTANTS
  Keys,           \* the VRPs, by their keys
  JsonClients,    \* the clients whose Path is not an RTR server
  GracePeriod,
  Visible,        \* one of the visibilityThresholds
  TimeMax,        \* bound on the time
  FetchMax        \* bounds on the requests of the two clients

Clients == {1, 2}     \* the primary and the secondary

ASSUME MonAssumption ==
  /\ JsonClients \subseteq Clients
  /\ {GracePeriod, Visible, TimeMax} \subseteq Nat
  /\ FetchMax \in [Clients -> Nat]

VARIABLES
  now,
  client,      \* per client: its goroutine, see NewClient
  cmp,         \* the Comparator's goroutine: where it is and what it has read
  onlyIn,      \* per client: the entries the other lacks, as published
  log,         \* history: per JSON client the answers [at, keys]
  answered,    \* history: per client the VRPs of the last complete answer
  heard        \* history: per client every VRP its source ever sent

history == <<log, answered, heard>>
monVars == <<now, client, cmp, onlyIn, history>>

NoVrps == [k \in {} |-> 0]

NewClient == [pc      |-> "fetch",
              fetches |-> 0,         \* how often it has asked
              answer  |-> {},        \* the VRPs of the response that comes in
              todo    |-> {},        \* those still to come
              vrpsRtr |-> NoVrps,
              vrps    |-> NoVrps]

MonInit ==
  /\ now = 0
  /\ client = [i \in Clients |-> NewClient]
  /\ cmp = [pc |-> "wait", vrps |-> [i \in Clients |-> NoVrps]]
  /\ onlyIn = [i \in Clients |-> NoVrps]
  /\ log = [i \in Clients |-> << >>]
  /\ answered = [i \in Clients |-> {}]
  /\ heard = [i \in Clients |-> {}]

-----------------------------------------------------------------------------
Tick ==
  /\ now < TimeMax
  /\ now' = now + 1
  /\ UNCHANGED <<client, cmp, onlyIn, history>>

-----------------------------------------------------------------------------
(* The clients. *)

Begin(i) ==
  /\ client[i].pc = "fetch"
  /\ client[i].fetches < FetchMax[i]

FirstSeen(current, k) == IF k \in DOMAIN current THEN current[k].first ELSE now

\* Slip: the period ends one second early.
InGracePeriodStrict(entry) == entry.last > now - GracePeriod

InGracePeriod(entry) == entry.last >= now - GracePeriod

BuildNewVrpMap(current, new) ==
  LET kept == {k \in DOMAIN current \ new : InGracePeriod(current[k])}
  IN  [k \in new \cup kept |->
         IF k \in new THEN [first |-> FirstSeen(current, k), last |-> now] ELSE current[k]]

\* The file is fetched, the new map built and stored.  Where FetchFile returns
\* an error, "not modified" among them, the client sleeps on.
FetchJson(i, keys) ==
  /\ i \in JsonClients
  /\ Begin(i)
  /\ log' = [log EXCEPT ![i] = Append(@, [at |-> now, keys |-> keys])]
  /\ answered' = [answered EXCEPT ![i] = keys]
  /\ heard' = [heard EXCEPT ![i] = @ \cup keys]
  /\ client' = [client EXCEPT ![i].fetches = @ + 1,
                              ![i].vrps = BuildNewVrpMap(@, keys),
                              ![i].pc = "send"]
  /\ UNCHANGED <<now, cmp, onlyIn>>

\* A new session: the Reset Query is answered with every VRP of the source.
\* What an earlier session left in vrpsRtr stays.
ClientConnected(i, keys) ==
  /\ i \notin JsonClients
  /\ Begin(i)
  /\ client' = [client EXCEPT ![i].fetches = @ + 1,
                              ![i].pc = "receive",
                              ![i].answer = keys,
                              ![i].todo = keys]
  /\ UNCHANGED <<now, cmp, onlyIn, history>>

\* HandlePDU on a prefix PDU that announces.
HandlePrefix(i, k) ==
  /\ client[i].pc = "receive"
  /\ k \in client[i].todo
  /\ client' = [client EXCEPT
                  ![i].todo = @ \ {k},
                  ![i].vrpsRtr = [j \in DOMAIN @ \cup {k} |->
                                    IF j = k THEN [first |-> now, last |-> 0] ELSE @[j]]]
  /\ heard' = [heard EXCEPT ![i] = @ \cup {k}]
  /\ UNCHANGED <<now, cmp, onlyIn, log, answered>>

\* HandlePDU on the End of Data: a copy of vrpsRtr is stored.
HandleEndOfData(i) ==
  /\ client[i].pc = "receive"
  /\ client[i].todo = {}
  /\ client' = [client EXCEPT ![i].vrps = client[i].vrpsRtr, ![i].pc = "send",
                              ![i].answer = {}]
  /\ answered' = [answered EXCEPT ![i] = client[i].answer]
  /\ UNCHANGED <<now, cmp, onlyIn, log, heard>>

\* HandlePDU on an Error Report: the session ends, and nothing is reported.
HandleError(i) ==
  /\ client[i].pc = "receive"
  /\ client' = [client EXCEPT ![i].answer = {}, ![i].todo = {}, ![i].pc = "fetch"]
  /\ UNCHANGED <<now, cmp, onlyIn, history>>

-----------------------------------------------------------------------------
(* The Comparator. *)

\* Slip: a report is dropped while the Comparator is busy.
CompareReceiveOrDrop(i) ==
  /\ client[i].pc = "send"
  /\ client' = [client EXCEPT ![i].pc = "fetch"]
  /\ cmp' = IF cmp.pc = "wait" THEN [cmp EXCEPT !.pc = "primary"] ELSE cmp
  /\ UNCHANGED <<now, onlyIn, history>>

\* The id is handed over; the client sleeps, over RTR after Disconnect.
CompareReceive(i) ==
  /\ cmp.pc = "wait"
  /\ client[i].pc = "send"
  /\ client' = [client EXCEPT ![i].pc = "fetch"]
  /\ cmp' = [cmp EXCEPT !.pc = "primary"]
  /\ UNCHANGED <<now, onlyIn, history>>

\* GetData, twice.
GetDataPrimary ==
  /\ cmp.pc = "primary"
  /\ cmp' = [cmp EXCEPT !.pc = "secondary", !.vrps[1] = client[1].vrps]
  /\ UNCHANGED <<now, client, onlyIn, history>>

GetDataSecondary ==
  /\ cmp.pc = "secondary"
  /\ cmp' = [cmp EXCEPT !.pc = "publish", !.vrps[2] = client[2].vrps]
  /\ UNCHANGED <<now, client, onlyIn, history>>

Diff(a, b) == Restrict(a, DOMAIN a \ DOMAIN b)

Other(i) == 3 - i

\* Slip: the comparison is turned around.
countFirstSeenAfter(vrps, threshold) == {k \in DOMAIN vrps : vrps[k].first >= threshold}

\* The entries that are counted.
countFirstSeenOnOrBefore(vrps, threshold) ==
  {k \in DOMAIN vrps : vrps[k].first <= threshold}

\* What the gauge VRPDifferenceForDuration counts for client i, which is only
\* set once the process has run for as long.
Visibles(i) ==
  IF now - Visible >= 0
  THEN countFirstSeenOnOrBefore(Diff(cmp.vrps[i], cmp.vrps[Other(i)]), now - Visible)
  ELSE {}

\* The differences are set, and the gauges, which nothing reads.
Publish ==
  /\ cmp.pc = "publish"
  /\ onlyIn' = [i \in Clients |-> Diff(cmp.vrps[i], cmp.vrps[Other(i)])]
  /\ cmp' = [pc |-> "wait", vrps |-> [i \in Clients |-> NoVrps]]
  /\ UNCHANGED <<now, client, history>>

-----------------------------------------------------------------------------
MonNext ==
  \/ Tick
  \/ \E i \in Clients :
       \/ \E keys \in SUBSET Keys : FetchJson(i, keys) \/ ClientConnected(i, keys)
       \/ HandleEndOfData(i) \/ HandleError(i)
       \/ \E k \in Keys : HandlePrefix(i, k)
       \/ CompareReceive(i)
  \/ GetDataPrimary \/ GetDataSecondary \/ Publish

MonSpec == MonInit /\ [][MonNext]_monVars

-----------------------------------------------------------------------------
(* Properties. *)

\* The Comparator waits, and no client has anything to hand over.
Quiet == cmp.pc = "wait" /\ \A i \in Clients : client[i].pc # "send"

\* Whenever things are quiet, the published differences follow from what the
\* sources answered last: no VRP that both had is in either list, every VRP
\* that one had and the other never sent is in its list, and a list has
\* nothing its source never sent.  No answer is left out of the comparison, in
\* whatever order the two clients store, report and are read.
DiffCurrent ==
  Quiet =>
    \A i \in Clients :
      /\ answered[i] \ heard[Other(i)] \subseteq DOMAIN onlyIn[i]
      /\ DOMAIN onlyIn[i] \subseteq heard[i] \ answered[Other(i)]

\* README.md:279-280 calls both lists objects in their source: at least one of
\* the two has only VRPs that its source had when it answered last.
OneListExact ==
  Quiet => \E i \in Clients : DOMAIN onlyIn[i] \subseteq answered[i]

\* The positions of the answers to client i that held k.
Sightings(i, k) == {n \in DOMAIN log[i] : k \in log[i][n].keys}

\* The entry for k survived every answer from the n-th to the m-th: each
\* one held k, or came at most GracePeriod after one before it that did.
Unbroken(i, k, n, m) ==
  \A p \in n .. m :
    \E q \in Sightings(i, k) \cap n .. p : log[i][q].at >= log[i][p].at - GracePeriod

\* The map of a JSON client is what the answers it got say: it has an entry
\* for exactly the VRPs seen at most GracePeriod before the last of them,
\* FirstSeen is when the present run of sightings began, LastSeen is the last
\* sighting.
HistoryExact ==
  \A i \in JsonClients :
    LET last == Len(log[i])
        runs(k) == {n \in Sightings(i, k) : Unbroken(i, k, n, last)}
    IN  /\ DOMAIN client[i].vrps = {k \in Keys : runs(k) # {}}
        /\ \A k \in DOMAIN client[i].vrps :
             LET entry == client[i].vrps[k]
             IN  /\ \E n \in runs(k) : /\ entry.first = log[i][n].at
                                       /\ \A m \in runs(k) : n <= m
                 /\ \E n \in runs(k) : /\ entry.last = log[i][n].at
                                       /\ \A m \in runs(k) : m <= n

\* A VRP that vrp_diff counts was seen in the source of its JSON client at
\* least visibility_seconds before the comparison.
VisibleSound ==
  cmp.pc = "publish" =>
    \A i \in JsonClients : \A k \in Visibles(i) :
      \E n \in Sightings(i, k) : log[i][n].at <= now - Visible

=============================================================================
