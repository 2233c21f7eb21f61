# A TLA+ model of StayRTR

StayRTR serves validated ROA payloads (VRPs) to routers over the RPKI-to-Router
protocol (RTR). This directory models the programs in `src/`: TLA+ modules
translated from the Go code, TLC configurations that check them on small
instances, and TLAPS proofs that hold for every instance. `PROJECT.json` maps
each definition to the lines it models and lists runs, hazards, findings and
theorems.

## The system

| part | source | state | runs in | module |
|---|---|---|---|---|
| VRP differences | `lib/server.go` | none (pure) | the updater | `VrpDiff` |
| VRP store | `lib/server.go` | current list, serial, window of differences and its map, under `vrplock` | the updater writes, every client's goroutine reads | `VrpStore` |
| requests, notifications | `lib/server.go` | per client queue | a goroutine per client, the updater | `RtrSession` |
| connections | `lib/server.go` | client list, counter, per client version, flags and channels | accept loops, a reader and a sender per client | `ServerConns` |
| PDUs | `lib/structs.go` | none (codec) | both sides | `Pdu` |
| client session | `lib/client.go` | connection, queue, version | rtrmon, rtrdump | `RtrSession`, `RtrDump` |
| update pipeline | `cmd/stayrtr/stayrtr.go` | last file, hash, SLURM, export | the updater (one goroutine) | `StayRtr` |
| conditional fetch | `utils/utils.go` | entity tags, modification times | the updater, rtrmon | `StayRtr` |
| SLURM, JSON lists | `prefixfile/` | none (pure) | the updater | `Slurm` |
| rtrmon | `cmd/rtrmon/rtrmon.go` | two clients, their VRPs and serials, the comparison | a session or a poller per client, the Comparator | `RtrSession`, `RtrMon` |
| rtrdump | `cmd/rtrdump/rtrdump.go` | one list | one session | `RtrDump` |

The updater fetches a file, filters it, calls `AddVRPs` and then
`NotifyClientsLatest`. A router answers a notification, or its own timer, with a
Serial Query for the serial it holds; it gets the difference from that serial,
or a Cache Reset when the serial has left the window, after which it should ask
for everything with a Reset Query.

## Modules

* `VrpDiff`: `ComputeDiff` and `ApplyDiff`. A list without repeated keys
  (`processData` removes duplicates) is a function from hash key to flag or
  `Absent`. `Receive` is what a client does with the prefix PDUs of a response.
* `VrpStore`: the fields under `vrplock`, and `AddVRPs` in its three lock
  sections (`AddVRPs`, `AddVRPsDiffApply`, `AddVRPsDiffStore`), each an action of
  its own; the locals that live between sections are variables. `SetSerial` is
  used as its comment demands. Positions are 1-based. The history variable
  `published` records what each serial was stored with.
* `VersionedCache`: what the store promises. An update is asked for and takes
  effect in one step, under the next serial; exactly the current serial and the
  `Keep` before it can be answered. `VrpStore!ImplementsCache` is the refinement.
* `RtrSession`: the store composed with the updater's notifications, a server
  goroutine per client and the polling client of rtrmon (flag `rtr.break` off).
  A request is three actions: serial read, data read, response sent. A response
  is one message here; `RtrDump` has its PDUs. Both ends keep a version. A
  notification that is stamped before the first query is read has version 0 and
  takes rtrmon's session down to it (`Incoming`); the server then refuses the next
  poll (`SendWrongVersionError`) and closes. rtrmon dials again if the error
  report arrives first (`HandleError`), else its program ends (`ConnectionLost`).
* `ServerConns`: the life of a connection in the server. `Refuse`, `Accept` and
  the SSH counter (`SshRead`, `SshWrite`, the two halves of an unlocked `++` or
  `--`), for connections that start no client too (`SshNoClient`); `Start`
  registers the client; the reader goes through `ReadQuery` or `ReadRejected`, and
  `HandlePDU` and `Answer`, or `IgnorePDU` for a PDU that is no query; `Disconnect`,
  `ClientDisconnected` and `Close` are the three parts of the function `Disconnect`; `SendCheck` to `Write` are `sendLoop`,
  with the moment before its `select` as a state of its own, since the
  non-blocking `quit` is lost there; `NotifyClients`, `NotifyStamp` and
  `NotifyQueue` are the updater. Of PDUs only kind, version and query are kept.
* `ClientList`: the removal of a client from the server's list, in
  `ClientDisconnected`.
* `Slurm`: filters, assertions and `processData` on addresses of `AddrBits`
  bits, next to `Expected`, which says the same with sets of addresses. A prefix is
  kept as it is in the file, host bits included; `GetPrefix` clears them. AS
  numbers have `AsnBits` bits; a file may hold any integer, which `Uint32` cuts.
* `StayRtr`: the updater of stayrtr, for a program started with a SLURM file
  that it refreshes. Every outcome of `FetchFile` is an action: request or status
  errors, not modified, a body that breaks off, a body. Files change, age, fail to
  decode or decode to nothing. The store is what `VersionedCache` promises:
  `AddVRPs` makes exactly the given VRPs current.
* `RtrMon`: rtrmon's two clients, over JSON with `BuildNewVrpMap` or over RTR with
  `rtr.break`, the unbuffered channel on which they report, and the Comparator
  with its two read sections. The histories `log`, `answered` and `heard` have the
  answers a client got, the last of them, and every VRP it was ever sent.
* `Pdu`, `RtrDump`: `Write` and `Decode` on octets, and a run of rtrdump on a
  connection that delivers the octets in any portions.
* `VrpStoreProofs`, `RtrSessionFacts`, `RtrSessionProofs`, `ServerConnsProofs`,
  `StayRtrProofs`, `RtrMonProofs`, `RtrDumpProofs`: the theorems. `ListFacts`: facts
  about numbers and lists that they share.
* `MC...`: instances for TLC.

Operators commented "slip" are wrong variants of the definition below them; they
show that a property notices that mistake and no specification uses them.

Abstractions. A VRP is its hash key, except in `Slurm` and `RtrDump`; the order of
VRPs in a list is left out, except in `RtrDump`. A file's bytes stand for their own
hash. In `RtrSession`, `transmits` stands for the channel and the TCP stream behind
it, what is sent on a connection that either end has closed is lost (the answer to
a refused query, which the server still computes, among it), and a client dials
again only after the server has removed its old connection. In `ServerConns` and
`RtrSession` a query arrives in one `Read`; `RtrDump` has the other case. In
`ServerConns` a connection is used once. In `Slurm`, AS numbers are integers,
conversions from `float64` are those of amd64, and numbers of a SLURM file fit in
an `int64`. Routers, the network, HTTP servers, the clock and the
authors of files are external: they do anything their interface allows.

## Runs

| run | instance | states | shows |
|---|---|---|---|
| `store_keep3` | 2 VRPs, window 3, serials 0..4 | 25,540 | store invariant, exact window, no VRP missed, no unknown withdrawal, exact for routers at most two updates behind, window kept, refinement of `VersionedCache` |
| `store_keep3_exact` | the same | | violated (finding 1): `DeltaExact` |
| `session_safety` | 1 VRP, 1 client, server version 1, window 2, updates up to serial 3, 1 query in flight, channel of 1, fair | 347,344 | no lasting VRP is missed, no update goes unannounced, serials only advance, a client in the window ends up to date or exits |
| `session_overlap` | channel of 2, 2 queries in flight | | violated (finding 2): `SyncedExact` |
| `session_stuck` | as `session_safety` | | violated (finding 3): `EventuallySynced` |
| `conns` | a TCP and an SSH connection, limit 2, server version 0, channels of 1, answers of up to 2 PDUs, a query of version 1 or 2, 1 round of notifications, fair | 335,277 | counter exact unless raced, answers in the negotiated version, routers that left are unregistered |
| `conns_stall` | a TCP connection, server version 1, 2 queries, routers that read | | violated (finding 4): `NotifyEnds` |
| `pipeline` | both files over HTTP, one with tags, times sent or not, 2 versions of each, 2 days, 1 failure | 617,237 | the last good files are what is served and exported, a 304 hides nothing that was not decoded, and every good version is taken over unless its body was lost |
| `pipeline_etag` | SLURM from disk, 1 version | | violated (finding 5): `Refreshed` |
| `rtrmon` | a JSON and an RTR source, 1 VRP, times 0..3, 4 and 2 fetches | 1,441,622 | the published lists follow from the last answers, first and last sightings and the grace period are right, counts by visibility are sound |
| `rtrmon_lists` | 2 VRPs, 2 fetches each, no time passes | | violated (findings 6 and 7): `OneListExact` |
| `dump` | an IPv4 and an IPv6 VRP, server version 0, 1 notification | 13,217 | octets decode to the PDUs written, the file is the answer, rtrdump ends |

Bounds, and why they are enough.

* Store: serials 0..4 wrap several times with a full window, so trimming, shifting
  and the wrap all happen. Keys do not interact in `ComputeDiff` and `ApplyDiff`, so
  two show everything about one key next to an unrelated one. They are symmetric,
  and the run has no liveness property, so symmetry is sound.
* Sessions: `LastSerial` stops updates before the serial wraps, because a client
  that sleeps through 2^32 updates is of no interest. With window 2 and serials
  0..3 a client can leave the window. `InFlight` bounds the queries the server has
  not read: with 1, a poll is still sent while the query before it is handled or
  its answer is on its way. `ChanSize` 1 makes senders block. `CHECK_DEADLOCK
  FALSE`: once a client has exited and updates have ended nothing has to happen.
* Connections: an answer of 2 PDUs and a notification exceed a channel of 1, so
  the reader and the updater block on a sender. Versions 1 and 2 of a server of
  version 0 give a downgrade and a rejection. The SSH and the TCP connection race
  on the counter. One query per connection keeps the run small; that a query is
  refused after another was accepted is covered by the proof. `CHECK_DEADLOCK FALSE`: once routers have left and bounds are
  used up nothing has to happen.
* Pipeline: contents in `MCStayRtr` hold prefixes inside, outside and across a
  filter, both families, host bits, broken entries, an empty list, a missing list
  and undecodable bytes. With 2-bit addresses filter and prefix meet in every way
  that first and last address can tell apart. One failure can hit any fetch.
* rtrmon: a map treats its keys one by one, so one VRP that comes and goes shows
  all of `BuildNewVrpMap`. Times 0..3 with a grace period of 1 let an entry
  expire, and one return within the period and after it.
* Dump: session, serial, AS number and addresses have octets that differ, so a
  swapped or dropped octet shows. The End of Data has intervals in version 1 only.

Fairness. Goroutines that can run do run, and timers fire again and again: weak
fairness on the updater, the goroutines of server and clients, poll and dial
(`FairSessionSpec`, `FairConnsSpec`, `StaySpec`, `DumpSpec`). None on new updates,
new files, new connections, notifications, failures or hang-ups. In `conns` a
write to an open connection may wait for its router for ever; `conns_stall`
(`ReadingConnsSpec`) adds that routers read and that the updater runs, so that
the stall it finds is no router's fault. `DumpSpec` has fair delivery, as TCP
gives it until the connection breaks.

## What the findings say

1. `ApplyDiff` turns withdraw-announce into an announcement, so that
   withdraw-announce-withdraw composes to nothing. With the three differences
   stayrtr keeps, a router three serials behind keeps a withdrawn VRP. Two updates
   behind this cannot happen (`DeltaExactNear`, also proved).
2. rtrmon polls with the serial it holds even when an answer is on its way. The
   answer to that poll starts from an older serial than the one the client has
   reached by then, and lacks the withdrawal of a VRP that the answer before it
   announced.
3. rtrmon only logs a Cache Reset, and asks again from the same serial for ever.
4. `NotifyClients` reads the client list once and then queues to each client. One
   that disconnects in between, with a full channel that nobody drains any more,
   blocks the updater for ever.
5. `FetchFile` stores the entity tag before it reads the body. When the body breaks
   off, later requests are answered with 304 and that version is never served.
6. rtrmon begins every session of an RTR source with a Reset Query and does not
   empty `vrpsRtr`. With `rtr.break`, what an earlier session announced and the
   source no longer has stays in the published list, which the repository's README
   describes as objects in the source.
7. The flag `grace.period` promises that removed objects "are not considered for
   the diff" while it lasts. They stay in the map, and `Diff` reports them.

Findings 6 and 7 share a run: `OneListExact` asks that one of the two lists be
right, so that the counterexample needs both mistakes at once.

`StableVrpsHeld` says how far the races of sessions can go: whatever the
interleaving, a client lacks no VRP that was valid in every version since the
serial it holds. A client at the current serial can hold too much, never too
little. This depends on the quirk of finding 1: if an announcement cancelled an
earlier withdrawal, overlapping polls would lose VRPs (`ApplyDiffCancelsBoth`
breaks the property).

Some properties are what is left of those of the findings when a case is taken
out. `SyncedUnlessLeftBehind` excepts clients whose serial has left the window
(finding 3) and clients whose program has ended: rtrmon exits through `log.Fatal`
when a refused session is closed before the error report is read. No document says
that it should not, so this is an exception and no finding. It shows that
sessions that are refused, for whatever reason, and begun again still lead to the
current serial. `NothingHidden` and `RefreshedUnlessLost` except files whose body
was lost after the tag was stored (finding 5). `DiffCurrent` is what the published
lists are right about in spite of findings 6 and 7: they have every VRP that
one source answered last and the other never sent, and none that the other
answered last or that their source never sent. `CounterExact` excepts behaviours in
which two unlocked updates of `connected` overwrote each other. `DumpExact` is about
files written after an End of Data: rtrdump disconnects on a Serial Notify, and one
that comes before the End of Data leaves an incomplete file and no error.

## Proofs

Assumptions are those on the constants, as named in the modules:
`StoreAssumption` (a window of at least one, smaller than the serial space),
`SessionAssumption` (updates end before the serial wraps, channels that hold
something, server version 0 or 1), `ConnsAssumption` (base version 0 or 1, channels that hold something),
`MonAssumption`, `SlurmAssumption` and `StayRtrAssumption` (addresses and AS numbers
of at least one bit, and the types of what the files decode to, as the Go types have them),
`DumpAssumption` (each VRP has an
address of 4 or 16 octets). The sets of VRPs, clients and connections are any sets,
and the bounds of the modules (`QueryMax`, `NotifyMax`, `LastSerial` and so on) any
numbers. The theorems about
`VrpStore!Spec` also assume `~ManualSerial`: with manual serials, which no program
uses, differences are filed under the wrong serial.

* `VrpStoreProofs`, differences. `ApplyComputedDiff`: applying a computed difference gives
  exactly the new list. `ComposedDelta`: the relation `Delta(d, B, C)`, which
  says that `d` announces only members of `C`, withdraws only members of `B`
  outside `C`, and announces all of `C` outside `B`, is kept when a computed
  difference is composed onto `d`. Exactness is not kept (finding 1), so it
  cannot be the invariant. `DeltaReceived`: what a receiver then holds.
  `TwoDiffsExact`: composing two computed differences is still exact.
* `VrpStoreProofs`, the store. The properties are not inductive: they say nothing of the
  positions in the map or of the locals of a running `AddVRPs`. `StoreInv` adds
  that serials in the window are consecutive and end with the current one, that
  the serial `n` back maps to position `Len - n + 1`, that the difference there
  satisfies `Delta` from that serial's VRPs to the current ones, and that the
  locals still describe the store. `StoreConsistent` proves it inductive, one
  lemma per action, with `AddVRPsDiffStore` split by field. `WindowIsExact`,
  `RoutersMissNothing`, `WithdrawalsAreKnown` and `WindowIsKept` follow from it,
  and so does `StoreImplementsCache`: `AddVRPs` maps to `Ask`, the write section
  to `Publish`, the second read section to a stutter. `NearRoutersExact` needs
  `NearExact` besides: the newest difference is a computed one, so that one more
  update composes it exactly.
* `RtrSessionFacts` has the invariant and the lemmas about one client,
  `RtrSessionProofs` the steps and the theorems. `SessionInv` carries `SessionsTyped`, `NoStableVrpLost` and
  `SerialNeverBack`. To `StoreInv` it adds `UpdaterInv` (updates and
  notifications take turns), `SteadyInv` and, for each client, `Local`.
  `SteadyInv` is needed because `Delta` lets a VRP be neither announced nor
  withdrawn although it was away for a while: a current VRP that a difference does
  not announce was valid in every version since the serial it starts from. `Local`
  says of a client's queries, request and PDUs on their way that serials only
  grow along that path (`QueriesOK`, `TransmitsOK`, `RequestOK`), and that each
  response leaves the client with all VRPs that were valid since its serial,
  whatever else it receives before (`HoldsOK`, `Leads`); the first response ever
  answers a Reset Query, so that the client starts from a complete list. Versions
  need no invariant: when the server closes, the client may still read what is on
  its way (`LocalOff`), when the client leaves, it is lost (`LocalClosed`), and the
  next session starts from a Reset Query.
  `NoUpdateUntold` needs `ToldInv`: a registered client that was told anything was
  told the current serial, or is owed a notification (`Owed`), and a request that
  read an older serial belongs to such a client (`Telling`).
* `ServerConnsProofs`. `AnswersKeepVersion` is about the PDU that `sendLoop` is
  writing. `AnswerInv` asks the same of every PDU in a channel, and of the reader:
  a query that was rejected is handled only once the connection is closed (the
  code goes on to handle it), and while an accepted one is answered the client's
  version is the negotiated one. Connections do not touch one another (`OneConn`),
  and most steps touch neither channel nor sender (`IdleKeeps`). `CounterIsExact`
  compares a counter with the length of a list. Its invariant, `CountInv`, says that
  the list has each client once, and that a client is in it exactly when it is up or
  `Disconnect` has still to unregister it, which decides whether
  `ClientDisconnected` finds the client it is to remove. `ListFacts` has what the
  removal does to the members and the length of such a list.
* `StayRtrProofs`. `ServedIsExact` has two halves. The first is about the updater:
  `ServedInv` says that the store is what `processData` makes of the entries and the
  SLURM configuration at hand whenever the updater sleeps, has called `AddVRPs`, or
  is fetching with nothing changed so far. It needs that time does not go back: a
  file that was rejected as too old stays rejected. The second, `ServedIsExpected`,
  is about the operators. `InsideIsSubset` is the heart of it: a block is a power of
  two and so divides the number of addresses (`Pow2Divides`), so that a prefix is the
  range from its first to its last address (`AddressesAreRange`) and no block sticks
  out at the end. `Pow2` is a recursive function because the provers know nothing of
  `2 ^ n`; `Pow2Steps` shows that a function of that definition exists.
  `ServedIsExact` has the hypothesis `NumbersFit`: `AssertVRPs` converts the
  maximum length of an assertion to a `uint8`, so that 280 is served as 24 and not
  dropped, and the AS numbers of entries and filters are cut to 32 bits. The
  instance of the run satisfies it.
  `ExportServesTheSame`: between `AddVRPs` and the export nothing changes the SLURM
  configuration or the entries, so that both are made of the same list; `ExportInv`
  says so of every point in between. `IdenticalHidesNothing` needs `HiddenInv`: a
  stored tag or time is that of a version the file has had, one of the current
  version means that its content was decoded or lost (`Honest`), and a file with the
  last hash is the one `lastdata` was decoded from.
* `RtrMonProofs`. `DifferencesCatchUp`: a comparison may mix an old map with a new
  one, but then a report is still to be received. `CompareInv` says of each map
  that was read, and of the two that were published, that it is the one held or
  that its client has yet to report (`Fresh`). `HeldInv` says what a map that is
  held has to do with the source: it has the last answer, and nothing that was
  never sent; an unfinished or failed session only adds to `vrpsRtr`. Together they
  give `DiffCurrent`. `HistoryIsExact` relates the map of a
  JSON client to the log of its answers: `BuildNewVrpMap` makes from the map that is
  right for the answers so far the one that is right with the next answer added.
  `CountedWasSeen` needs in addition that every first sighting in the maps that the
  Comparator has read is in that log (`Seen`).
* `RtrDumpProofs`. `DecodesWhatIsWritten`: `Decode` reads from the octets of a PDU
  that the programs write (`Writable`) that PDU, type by type. The octets are
  compared by position (`Holds`), so that the same facts speak of a PDU in the
  middle of a stream. `DumpInv` has three parts. `Framing`: the stream can be cut
  at offsets (`Layout`) so that the octets between two of them are those of one PDU,
  and the client has read up to one of the offsets. Hence a complete header and
  payload at the front of what arrived is the next PDU, and `FramingIsExact`
  follows. `AnswerFor`: up to the first notification, what was written is the
  beginning of one answer, and what is still to be written its rest. `DataFor`:
  while the loop of the client runs, it has an entry for each PDU after the Cache
  Response. An End of Data that is handled was therefore preceded by all VRPs:
  `DumpIsExact`.
* `ListFacts` also has an induction principle for numbers, derived from the
  well-foundedness of `<`; the recursion that removes from a list needs it.

Only model-checked: liveness (`SyncedUnlessLeftBehind`, `GoneUnregistered`,
`RefreshedUnlessLost`, `DumpEnds`), since the prover does not handle fairness. Every
other property of a run that passes is also a theorem.

## Not modelled, and why

* `SetMaxConnections`, `SetVersionEnforced`, `SetBaseVersion`, `Server.SendPDU` and
  manual serials: no program calls them. `keepDiff` 0 (keep every difference) is
  excluded by `StoreAssumption`; stayrtr always configures 3.
* Restarts and session ids: the server ignores the session id of a query, but
  rtrmon begins every connection with a Reset Query and rtrdump runs once, so the
  repository has no client that resumes a session.
* The SSH handshake inside the accept loop, several channels on one SSH
  connection, TLS, keys and passwords: the libraries' and configuration.
* `Write` of the Router Key PDU, which no program sends; `String` methods.
* rtrmon's metadata (serial, session id, times), which is only displayed.
* Metrics, flags, HTTP endpoints, logging: no protocol state.
