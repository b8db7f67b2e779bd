---------------------------- MODULE ConfigReload ----------------------------
(***************************************************************************)
(* Hot reload of the configuration: the config_refresh entry of the cron   *)
(* scheduler fires, reads the configuration from the file (LoadCron in     *)
(* cron.go) or from a source (loadInto in cron_source.go), and replaces    *)
(* the scheduler's entries when it changed, while the scheduler runs.      *)
(*                                                                         *)
(* The scheduler (robfig/cron) starts every job in a goroutine of its own. *)
(* Entries, Remove and AddFunc are each one request to its run goroutine,  *)
(* so each is one step here, and refresh ticks may interleave.             *)
(*                                                                         *)
(* A source is a file with a watcher (or whose watcher could not start),   *)
(* an HTTP server with or without etags, an S3 object, or a Postgres row   *)
(* with or without a version column (configsource/*.go).                   *)
(***************************************************************************)
EXTENDS Naturals, FiniteSets

CONSTANTS
    Texts,       \* the contents that the file or the source may have
    Broken,      \* the texts that do not parse
    Names,       \* schedule names
    Scheduled,   \* Scheduled[v]: the schedules of text v that have a cron spec
    Invalid,     \* the schedules whose cron spec AddFunc refuses
    Refresh,     \* stands for the static entries, heartbeat and config_refresh
    NoEtag,      \* the etag of a server that sends none
    Ticks,       \* refresh ticks: how many can be under way at once
    MaxEdits,    \* bound: changes of the text
    MaxFailures  \* bound: reads that fail

ASSUME ReloadAssumption ==
    /\ Broken \subseteq Texts
    /\ IsFiniteSet(Names)
    /\ Invalid \subseteq Names
    /\ Refresh \notin Names
    /\ Scheduled \in [Texts -> SUBSET Names]
    /\ MaxEdits \in Nat
    /\ MaxFailures \in Nat

VARIABLES
    via,       \* "LoadCron", or the kind of source that loadInto fetches from
    text,      \* what the file or the source holds
    edits,     \* how often it changed: the version that a source may keep
    dirty,     \* FileSource.dirty
    cached,    \* FileSource.cachedEtag
    notice,    \* an fsnotify event is on its way to watchLoop
    entries,   \* the scheduler's entries: pairs of a name and a load
    loads,     \* loads so far, to tell entries apart
    conf,      \* the text behind globalRuntime.conf
    lastRaw,   \* lastRawHCL, lastRawBody
    lastEtag,  \* reloadState.lastEtag
    at,        \* at[t]: where tick t is
    raw,       \* raw[t]: rawHCL, or the cachedRaw that t compares with
    parsed,    \* parsed[t]: the text behind its conf
    etag,      \* etag[t]: prev, then an etag that the source answered
    removing,  \* removing[t]: entries it has yet to remove
    adding,    \* adding[t]: schedules it has yet to add
    load,      \* load[t]: the number of its load
    alive,     \* the process has not ended in Fatal
    failures,  \* failed reads so far
    torn,      \* history: a tick's two reads of the file differed
    lost       \* history: the load at the start failed

env == <<via, text, edits, lost>>
watch == <<dirty, cached, notice>>
recent == <<conf, lastRaw, lastEtag>>
tick == <<raw, parsed, etag, removing, adding, load>>
vars == <<env, watch, entries, loads, recent, at, tick, alive, failures, torn>>

Registrable(v) == Scheduled[v] \ Invalid

Files == {"file", "unwatched"}
Servers == {"http", "plain", "hash"}
Probed == {"s3", "version"}

\* What the source names its present content by: a hash, a version, nothing.
Tag == CASE via \in Files \union {"s3", "hash"} -> text
         [] via \in {"http", "version"}         -> edits
         [] OTHER                               -> NoEtag

\* The start is over.  It loads the file; or it fetches from the source, keeps
\* what it got with its etag, and has loadInto fetch once more to register it.
\* When that fetch fails the scheduler starts all the same.  (Of a file it is a
\* read only if an event came between; the read that fails raises the flag.)
Init ==
    /\ via \in {"LoadCron"} \union Files \union Servers \union Probed
    /\ text \in {v \in Texts \ Broken : Scheduled[v] \intersect Invalid = {}}
    /\ edits = 0
    /\ lost \in {l \in BOOLEAN : l => /\ via \notin {"LoadCron", "unwatched"}
                                     /\ MaxFailures > 0}
    /\ entries = {<<n, 0>> : n \in IF lost THEN {Refresh}
                                   ELSE Scheduled[text] \union {Refresh}}
    /\ loads = 0
    /\ conf = text
    /\ lastRaw = text
    /\ lastEtag = Tag
    /\ dirty = (lost /\ via = "file")
    /\ cached = Tag
    /\ notice = FALSE
    /\ at = [t \in Ticks |-> "idle"]
    /\ raw = [t \in Ticks |-> text]
    /\ parsed = [t \in Ticks |-> text]
    /\ etag = [t \in Ticks |-> Tag]
    /\ removing = [t \in Ticks |-> {}]
    /\ adding = [t \in Ticks |-> {}]
    /\ load = [t \in Ticks |-> 0]
    /\ alive = TRUE
    /\ failures = IF lost THEN 1 ELSE 0
    /\ torn = FALSE

\* Somebody changes the configuration.
Edit(v) ==
    /\ edits < MaxEdits
    /\ v # text
    /\ text' = v
    /\ edits' = edits + 1
    /\ notice' = (notice \/ via = "file")
    /\ UNCHANGED <<via, lost, dirty, cached, entries, loads, recent, at, tick, alive,
                   failures, torn>>

\* watchLoop receives an event of the file.
watchLoop ==
    /\ notice
    /\ notice' = FALSE
    /\ dirty' = TRUE
    /\ UNCHANGED <<env, cached, entries, loads, recent, at, tick, alive,
                   failures, torn>>

At(t, place) == alive /\ at[t] = place

GoTo(t, place) == at' = [at EXCEPT ![t] = place]

\* The refresh entry fires.  loadInto first notes the etag and the bytes of
\* the last fetch.
Fire(t) ==
    /\ At(t, "idle")
    /\ \E e \in entries : e[1] = Refresh
    /\ IF via = "LoadCron"
       THEN GoTo(t, "read") /\ UNCHANGED <<raw, etag>>
       ELSE /\ GoTo(t, "fetch")
            /\ raw' = [raw EXCEPT ![t] = lastRaw]
            /\ etag' = [etag EXCEPT ![t] = lastEtag]
    /\ UNCHANGED <<env, watch, entries, loads, recent, parsed, removing, adding, load,
                   alive, failures, torn>>

\* A read or a request of t is under way.
Reading(t) ==
    \/ At(t, "read") \/ At(t, "parse") \/ At(t, "get")
    \/ At(t, "fetch") /\ via \notin Files

\* Seeded fault: a file that could not be read is not looked at again.
FailUndirtied(t) ==
    /\ Reading(t)
    /\ failures < MaxFailures
    /\ failures' = failures + 1
    /\ GoTo(t, "idle")
    /\ UNCHANGED <<env, watch, entries, loads, recent, tick, alive, torn>>

\* A read, a clone or a fetch fails, or the file is missing: the previous
\* schedules stay in place.
Fail(t) ==
    /\ Reading(t)
    /\ failures < MaxFailures
    /\ failures' = failures + 1
    /\ dirty' = (dirty \/ via \in Files)
    /\ GoTo(t, "idle")
    /\ UNCHANGED <<env, cached, notice, entries, loads, recent, tick, alive,
                   torn>>

(***************************************************************************)
(* LoadCron: the file.                                                     *)
(***************************************************************************)

ReadFile(t) ==
    /\ At(t, "read")
    /\ raw' = [raw EXCEPT ![t] = text]
    /\ GoTo(t, "parse")
    /\ UNCHANGED <<env, watch, entries, loads, recent, parsed, etag, removing, adding,
                   load, alive, failures, torn>>

\* GetConfig reads the file once more.
GetConfig(t) ==
    /\ At(t, "parse")
    /\ IF text \in Broken
       THEN GoTo(t, "idle") /\ UNCHANGED <<parsed, torn>>
       ELSE /\ parsed' = [parsed EXCEPT ![t] = text]
            /\ GoTo(t, "compare")
            /\ torn' = (torn \/ text # raw[t])
    /\ UNCHANGED <<env, watch, entries, loads, recent, raw, etag, removing, adding,
                   load, alive, failures>>

\* hclEquals.
Compare(t) ==
    /\ At(t, "compare")
    /\ GoTo(t, IF raw[t] = lastRaw THEN "store" ELSE "entries")
    /\ UNCHANGED <<env, watch, entries, loads, recent, tick, alive, failures, torn>>

(***************************************************************************)
(* The sources, and fetchAndParse.                                         *)
(***************************************************************************)

\* The source has nothing new: the tick is over.
NotChanged(t) ==
    /\ GoTo(t, "idle")
    /\ UNCHANGED <<lastEtag, parsed, etag>>

\* The source answers with its text and the etag e.  Bytes that are the same
\* and a parse error end the tick; only the first of these is remembered.
Changed(t, e) ==
    LET same == raw[t] = text IN
    /\ lastEtag' = IF same THEN e ELSE lastEtag
    /\ IF same \/ text \in Broken
       THEN GoTo(t, "idle") /\ UNCHANGED <<parsed, etag>>
       ELSE /\ GoTo(t, "accept")
            /\ parsed' = [parsed EXCEPT ![t] = text]
            /\ etag' = [etag EXCEPT ![t] = e]

\* What a fetch leaves alone.
Elsewhere == <<env, notice, entries, loads, conf, lastRaw, raw, removing, adding,
               load, alive, failures, torn>>

\* One request or one query answers both questions.
FetchOnce(t) ==
    /\ At(t, "fetch")
    /\ via \in Servers
    /\ IF Tag # NoEtag /\ Tag = etag[t] THEN NotChanged(t) ELSE Changed(t, Tag)
    /\ UNCHANGED <<Elsewhere, dirty, cached>>

\* The HEAD request, the query of the version column.
Probe(t) ==
    /\ At(t, "fetch")
    /\ via \in Probed
    /\ IF Tag = etag[t]
       THEN NotChanged(t)
       ELSE /\ GoTo(t, "get")
            /\ etag' = [etag EXCEPT ![t] = Tag]
            /\ UNCHANGED <<lastEtag, parsed>>
    /\ UNCHANGED <<Elsewhere, dirty, cached>>

\* The GET request, which has its own etag, or the query of the value.
Get(t) ==
    /\ At(t, "get")
    /\ via \in Probed
    /\ Changed(t, IF via = "s3" THEN Tag ELSE etag[t])
    /\ UNCHANGED <<Elsewhere, dirty, cached>>

\* FileSource.Fetch takes the dirty flag down before it reads.  Without a
\* watcher nobody raises it again.
TakeDirty(t) ==
    /\ At(t, "fetch")
    /\ via \in Files
    /\ dirty' = FALSE
    /\ IF ~dirty /\ etag[t] = cached
       THEN NotChanged(t)
       ELSE GoTo(t, "get") /\ UNCHANGED <<lastEtag, parsed, etag>>
    /\ UNCHANGED <<Elsewhere, cached>>

\* Then it reads the file, and keeps the hash.
FetchFile(t) ==
    /\ At(t, "get")
    /\ via \in Files
    /\ cached' = Tag
    /\ IF Tag = etag[t] THEN NotChanged(t) ELSE Changed(t, Tag)
    /\ UNCHANGED <<Elsewhere, dirty>>

\* The new text is on record before its schedules are registered.
Accept(t) ==
    /\ At(t, "accept")
    /\ lastEtag' = etag[t]
    /\ lastRaw' = parsed[t]
    /\ GoTo(t, "entries")
    /\ UNCHANGED <<env, watch, entries, loads, conf, tick, alive, failures, torn>>

(***************************************************************************)
(* Replacing the entries: the same in both.                                *)
(***************************************************************************)

\* The entries that a load replaces.
Dynamic == {e \in entries : e[1] # Refresh}

\* Seeded fault: only the schedules that are gone are removed.
EntriesKept(t) ==
    /\ At(t, "entries")
    /\ removing' = [removing EXCEPT ![t] =
                      {e \in Dynamic : e[1] \notin Scheduled[parsed[t]]}]
    /\ adding' = [adding EXCEPT ![t] = Scheduled[parsed[t]]]
    /\ loads' = loads + 1
    /\ load' = [load EXCEPT ![t] = loads']
    /\ GoTo(t, "replace")
    /\ UNCHANGED <<env, watch, entries, recent, raw, parsed, etag, alive, failures,
                   torn>>

\* c.Entries: the tick takes a copy of the list.
Entries(t) ==
    /\ At(t, "entries")
    /\ removing' = [removing EXCEPT ![t] = Dynamic]
    /\ adding' = [adding EXCEPT ![t] = Scheduled[parsed[t]]]
    /\ loads' = loads + 1
    /\ load' = [load EXCEPT ![t] = loads']
    /\ GoTo(t, "replace")
    /\ UNCHANGED <<env, watch, entries, recent, raw, parsed, etag, alive, failures,
                   torn>>

\* c.Remove; an entry that is gone already is no error.
RemoveEntry(t, e) ==
    /\ At(t, "replace")
    /\ e \in removing[t]
    /\ removing' = [removing EXCEPT ![t] = @ \ {e}]
    /\ entries' = entries \ {e}
    /\ UNCHANGED <<env, watch, loads, recent, at, raw, parsed, etag, adding, load,
                   alive, failures, torn>>

\* c.AddFunc.  A bad cron spec ends the process in LoadCron, and is logged in
\* loadInto.
AddFunc(t, n) ==
    /\ At(t, "replace")
    /\ removing[t] = {}
    /\ n \in adding[t]
    /\ adding' = [adding EXCEPT ![t] = @ \ {n}]
    /\ entries' = IF n \in Invalid THEN entries
                                   ELSE entries \union {<<n, load[t]>>}
    /\ alive' = ~(n \in Invalid /\ via = "LoadCron")
    /\ UNCHANGED <<env, watch, loads, recent, at, raw, parsed, etag, removing, load,
                   failures, torn>>

\* storeConfAndHCL or storeConf ends the tick.
Store(t) ==
    /\ \/ At(t, "store")
       \/ At(t, "replace") /\ removing[t] = {} /\ adding[t] = {}
    /\ conf' = parsed[t]
    /\ lastRaw' = IF via = "LoadCron" THEN raw[t] ELSE lastRaw
    /\ GoTo(t, "idle")
    /\ UNCHANGED <<env, watch, entries, loads, lastEtag, tick, alive, failures, torn>>

Load(t) ==
    \/ Fire(t)
    \/ ReadFile(t)
    \/ GetConfig(t)
    \/ Compare(t)
    \/ FetchOnce(t) \/ Probe(t) \/ Get(t) \/ TakeDirty(t) \/ FetchFile(t)
    \/ Accept(t)
    \/ Entries(t)
    \/ \E e \in entries \union removing[t] : RemoveEntry(t, e)
    \/ \E n \in Names : AddFunc(t, n)
    \/ Store(t)

Next ==
    \/ \E v \in Texts : Edit(v)
    \/ watchLoop
    \/ \E t \in Ticks : Load(t) \/ Fail(t)

\* The refresh entry goes on firing, its ticks end, and events of the file
\* arrive.
Spec ==
    /\ Init /\ [][Next]_vars
    /\ \A t \in Ticks : WF_vars(Load(t))
    /\ WF_vars(watchLoop)

-----------------------------------------------------------------------------
(***************************************************************************)
(* Properties.                                                             *)
(***************************************************************************)

\* The scheduler has each registrable schedule of v once, and no other.
Registered(v) ==
    /\ {e[1] : e \in Dynamic} = Registrable(v)
    /\ Cardinality(Dynamic) = Cardinality(Registrable(v))

\* The load at the start was lost, and no other has come.
Unloaded == lost /\ loads = 0

\* Between loads the scheduler runs exactly the schedules of the config that
\* the listener shows, each once, also after failed and broken loads.  (The
\* file path is exempt once an edit fell between a tick's two reads, a source
\* until its first load gets through.)
EntriesAreTheConfig ==
    alive /\ ~torn /\ ~Unloaded /\ (\A t \in Ticks : at[t] = "idle") =>
        Registered(conf)

\* The last edit is in force in the end, if it parses: no edit is missed, and
\* a load never removes the entry that does the loading, whichever kind of
\* source the text comes from and whatever happens between its etag and its
\* text, or between the watcher's flag and the read.  (Exempt as above; a file
\* without a watcher is read only once.)
LastEditWins ==
    <>[](\/ Registered(text) /\ conf = text
         \/ text \in Broken
         \/ torn \/ Unloaded
         \/ via = "unwatched"
         \/ ~alive)

\* LoadCron: on a change it "removes all of the confPrior cron entries and
\* adds the new conf schedules to the cron"; so no schedule has two entries
\* when no load is under way.
NoScheduleTwice ==
    (\A t \in Ticks : at[t] = "idle") =>
        \A e, f \in Dynamic : e[1] = f[1] => e = f

=============================================================================
