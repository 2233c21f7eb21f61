-------------------------------- MODULE StayRtr --------------------------------
(***************************************************************************)
(* The update pipeline of stayrtr: FetchFile with its conditional requests *)
(* (utils/utils.go), updateFile, updateSlurm, updateFromNewState, the      *)
(* export and routineUpdate (cmd/stayrtr/stayrtr.go), for a program that   *)
(* is started with a SLURM file and refreshes it.                          *)
(*                                                                         *)
(* The files change under the updater's feet, and any fetch may fail.  A   *)
(* file's bytes are its contents and its build time, and stand for their   *)
(* own hash.  The store is what its abstract specification says: AddVRPs   *)
(* makes exactly the given VRPs current (VersionedCache).                  *)
(***************************************************************************)
EXTENDS Slurm, Sequences

CONSTANTS
  CacheContents,        \* what the JSON file may hold: sets of entries,
                        \* NoRoas or Undecodable
  SlurmContents,        \* what the SLURM file may hold, or Undecodable
  NoRoas,               \* JSON that decodes to a list that is nil
  Undecodable,
  Local,                \* the files that are read from disk, not over HTTP
  Etagged,              \* the files whose server sends an ETag
  EnableEtags,          \* the flags etag, last.modified and checktime
  EnableLastModified,
  CheckTime,
  VersionMax,           \* bound on the versions of each file
  DayMax,               \* bound on the time, counted in days
  FailMax               \* bound on the fetches that fail

Files == {"cache", "slurm"}
BadTime == -1

ASSUME StayRtrAssumption ==
  /\ Local \subseteq Files /\ Etagged \subseteq Files
  /\ {EnableEtags, EnableLastModified, CheckTime} \subseteq BOOLEAN
  /\ {VersionMax, DayMax, FailMax} \subseteq Nat
  /\ None \notin Prefixes /\ None \notin CacheContents \X Int
  /\ \A c \in CacheContents \ {NoRoas, Undecodable} : c \subseteq VRPJson
  /\ SlurmContents \ {Undecodable} \subseteq SlurmConfig

VARIABLES
  src,            \* the files: version, content, and the day they were built
  now,            \* the day
  etags,          \* FetchConfig: per file the version of the tag, 0 for none
  lastModified,   \* FetchConfig: per file the version of the time, 0 for none
  pc,             \* where the updater is
  starting,       \* it has not reached routineUpdate
  changed,        \* cacheUpdated || slurmNotPresentOrUpdated
  lasthash,       \* the bytes of the last file that decoded
  lastdata,       \* the entries and the build time of that file
  slurm,          \* the SLURM configuration
  served,         \* the VRPs in the store
  exported,       \* the entries of the JSON export
  fails,          \* how many fetches have failed
  lost            \* history: files whose body was not read under a stored tag

srcVars == <<src, now>>
fetchVars == <<etags, lastModified, fails, lost>>
dataVars == <<lasthash, lastdata, slurm>>
outVars == <<served, exported>>
stayVars == <<srcVars, fetchVars, pc, starting, changed, dataVars, outVars>>

StayInit ==
  /\ \E c \in CacheContents, s \in SlurmContents :
       src = [cache |-> [version |-> 1, content |-> c, built |-> 0],
              slurm |-> [version |-> 1, content |-> s, built |-> 0]]
  /\ now = 0
  /\ etags = [f \in Files |-> 0] /\ lastModified = [f \in Files |-> 0]
  /\ pc = "file" /\ starting = TRUE /\ changed = FALSE
  /\ lasthash = None
  /\ lastdata = [vrps |-> NoRoas, built |-> BadTime]
  /\ slurm = None
  /\ served = {} /\ exported = {}
  /\ fails = 0 /\ lost = {}

-----------------------------------------------------------------------------
(* The environment (external): validators write new files, time passes. *)

Publish(f, content, built) ==
  /\ src[f].version < VersionMax
  /\ src' = [src EXCEPT ![f] = [version |-> @.version + 1, content |-> content,
                                built |-> built]]
  /\ UNCHANGED <<now, fetchVars, pc, starting, changed, dataVars, outVars>>

Day ==
  /\ now < DayMax
  /\ now' = now + 1
  /\ UNCHANGED <<src, fetchVars, pc, starting, changed, dataVars, outVars>>

-----------------------------------------------------------------------------
(* FetchFile: its outcomes. *)

\* The server says 304 to a tag that is current, or, without a tag, to a time
\* that is not before the file's.
NotModified(f) ==
  IF EnableEtags /\ f \in Etagged /\ etags[f] # 0
  THEN etags[f] = src[f].version
  ELSE EnableLastModified /\ lastModified[f] >= src[f].version

\* The request fails, or the file cannot be opened.
FetchFails(f) ==
  /\ fails < FailMax
  /\ fails' = fails + 1
  /\ UNCHANGED <<etags, lastModified, lost>>

\* A status other than 200 and 304: the validators are dropped.
FetchStatus(f) ==
  /\ f \notin Local
  /\ fails < FailMax
  /\ fails' = fails + 1
  /\ etags' = [etags EXCEPT ![f] = 0]
  /\ lastModified' = [lastModified EXCEPT ![f] = 0]
  /\ lost' = lost \ {f}

\* Slip: any stored tag counts as the same.
SameEtagAny(f) == EnableEtags /\ f \in Etagged /\ etags[f] # 0

\* A 200 with the tag that is stored: IdenticalEtag.
SameEtag(f) == EnableEtags /\ f \in Etagged /\ etags[f] = src[f].version

\* HttpNotModified or IdenticalEtag.
FetchIdentical(f) ==
  /\ f \notin Local
  /\ NotModified(f) \/ SameEtag(f)
  /\ UNCHANGED fetchVars

\* The validators of a response are stored before its body is read; a time
\* that is missing or does not parse removes the one that is stored.
StoreValidators(f) ==
  IF f \in Local
  THEN UNCHANGED <<etags, lastModified>>
  ELSE /\ etags' = [etags EXCEPT ![f] = IF f \in Etagged THEN src[f].version ELSE 0]
       /\ IF EnableLastModified
          THEN \E time \in {0, src[f].version} :
                 lastModified' = [lastModified EXCEPT ![f] = time]
          ELSE UNCHANGED lastModified

\* A 200, or an open file.  Servers may ignore the conditions.
Opened(f) == f \in Local \/ ~SameEtag(f)

FetchBodyFails(f) ==
  /\ Opened(f)
  /\ fails < FailMax
  /\ fails' = fails + 1
  /\ StoreValidators(f)
  /\ lost' = IF f \in Local THEN lost ELSE lost \cup {f}

FetchBody(f) ==
  /\ Opened(f)
  /\ StoreValidators(f)
  /\ lost' = lost \ {f}
  /\ UNCHANGED fails

\* FetchFile returns an error, which its callers only log.
FetchError(f) ==
  FetchFails(f) \/ FetchStatus(f) \/ FetchIdentical(f) \/ FetchBodyFails(f)

-----------------------------------------------------------------------------
(* The updater. *)

Goto(next) == pc' = next

\* The start fetches the file, then SLURM, and computes in any case; the
\* routine fetches SLURM, then the file.
AfterFile(updated) == IF starting THEN "slurm" ELSE IF updated THEN "process" ELSE "sleep"
AfterSlurm == IF starting THEN "process" ELSE "file"

\* The timer fires, or a SIGHUP arrives.
Wake ==
  /\ pc = "sleep"
  /\ Goto("slurm")
  /\ changed' = FALSE
  /\ starting' = FALSE
  /\ UNCHANGED <<srcVars, fetchVars, dataVars, outVars>>

Bytes(f) == <<src[f].content, src[f].built>>

\* updateFile returns an error: from FetchFile, IdenticalFile or decodeJSON.
updateFileKeeps ==
  /\ pc = "file"
  /\ \/ FetchError("cache")
     \/ FetchBody("cache") /\ (lasthash = Bytes("cache") \/ src.cache.content = Undecodable)
  /\ Goto(AfterFile(changed))
  /\ UNCHANGED <<srcVars, starting, changed, dataVars, outVars>>

updateFile ==
  /\ pc = "file"
  /\ FetchBody("cache")
  /\ lasthash # Bytes("cache") /\ src.cache.content # Undecodable
  /\ lasthash' = Bytes("cache")
  /\ lastdata' = [vrps |-> src.cache.content, built |-> src.cache.built]
  /\ changed' = TRUE
  /\ Goto(AfterFile(TRUE))
  /\ UNCHANGED <<srcVars, starting, slurm, outVars>>

\* updateSlurm returns an error: from FetchFile or DecodeJSONSlurm.
updateSlurmKeeps ==
  /\ pc = "slurm"
  /\ \/ FetchError("slurm")
     \/ FetchBody("slurm") /\ src.slurm.content = Undecodable
  /\ Goto(AfterSlurm)
  /\ UNCHANGED <<srcVars, starting, changed, dataVars, outVars>>

\* Slip: the new configuration waits for the next file.
SlurmUpdatedLater == changed

SlurmUpdated == TRUE

updateSlurm ==
  /\ pc = "slurm"
  /\ FetchBody("slurm")
  /\ src.slurm.content # Undecodable
  /\ slurm' = src.slurm.content
  /\ changed' = SlurmUpdated
  /\ Goto(AfterSlurm)
  /\ UNCHANGED <<srcVars, starting, lasthash, lastdata, outVars>>

\* checktime: the build time parses and is at most a day ago.
InTime == CheckTime => lastdata.built # BadTime /\ now <= lastdata.built

\* updateFromNewState returns before it changes anything.
Rejected ==
  /\ pc = "process"
  /\ lastdata.vrps = NoRoas \/ ~InTime
  /\ Goto("sleep")
  /\ UNCHANGED <<srcVars, fetchVars, starting, changed, dataVars, outVars>>

\* updateFromNewState as far as AddVRPs.
updateFromNewState ==
  /\ pc = "process"
  /\ lastdata.vrps # NoRoas /\ InTime
  /\ served' = processData(SlurmApplied(slurm, lastdata.vrps))
  /\ Goto("notify")
  /\ UNCHANGED <<srcVars, fetchVars, starting, changed, dataVars, exported>>

\* NotifyClientsLatest; it may take long (ServerConns).
NotifyClientsLatest ==
  /\ pc = "notify"
  /\ Goto("export")
  /\ UNCHANGED <<srcVars, fetchVars, starting, changed, dataVars, outVars>>

\* Slip: the entries are exported as they were fetched.
ExportedUnfiltered == lastdata.vrps

Exported == SlurmApplied(slurm, lastdata.vrps)

\* The export is set under lockJson.
Export ==
  /\ pc = "export"
  /\ exported' = Exported
  /\ Goto("sleep")
  /\ UNCHANGED <<srcVars, fetchVars, starting, changed, dataVars, served>>

-----------------------------------------------------------------------------
UpdaterStep ==
  \/ Wake \/ updateFileKeeps \/ updateFile \/ updateSlurmKeeps \/ updateSlurm
  \/ Rejected \/ updateFromNewState \/ NotifyClientsLatest \/ Export

StayNext ==
  \/ UpdaterStep
  \/ \E built \in {now, BadTime}, c \in CacheContents : Publish("cache", c, built)
  \/ \E s \in SlurmContents : Publish("slurm", s, now)
  \/ Day

\* The timer fires again and again, so the updater never stops.  Nothing is
\* said of the files and of how often fetches fail, within the bounds.
StaySpec == StayInit /\ [][StayNext]_stayVars /\ WF_stayVars(UpdaterStep)

-----------------------------------------------------------------------------
(* Properties. *)

\* Between refreshes, the VRPs in the store are the well-formed entries of the
\* last file that decoded, without those inside a filter of the last SLURM
\* file that decoded, and with its assertions: no change of either file is
\* left out, whatever fetches failed.  While the file is too old the store is
\* left alone.
ServedExact ==
  pc = "sleep" /\ lastdata.vrps # NoRoas /\ InTime =>
    Meaning(served) = Expected(slurm, lastdata.vrps)

\* Between refreshes, another StayRTR that takes the export as its file serves
\* the same VRPs.
ExportExact == pc = "sleep" => processData(exported) = served

\* What was decoded last is what the file holds.
AtHand(f) ==
  IF f = "cache"
  THEN lastdata = [vrps |-> src.cache.content, built |-> src.cache.built]
  ELSE slurm = src.slurm.content

\* A 304, or a 200 with the tag that is stored, hides no content that the
\* updater has not decoded, except where the body of a response was lost after
\* its tag was stored.
NothingHidden ==
  \A f \in Files \ (Local \cup lost) :
    (NotModified(f) \/ SameEtag(f)) /\ src[f].content # Undecodable => AtHand(f)

\* The files can be used.
Good ==
  /\ src.cache.content \notin {Undecodable, NoRoas}
  /\ CheckTime => src.cache.built # BadTime /\ now <= src.cache.built
  /\ src.slurm.content # Undecodable

Current == Meaning(served) = Expected(src.slurm.content, src.cache.content)

\* Once the files settle, what they hold is served, even after fetches failed,
\* except where the body of a response was lost after its tag was stored.
RefreshedUnlessLost == <>[](Good => Current \/ lost # {})

\* Once the files settle, what they hold is served.
Refreshed == <>[](Good => Current)

=============================================================================
