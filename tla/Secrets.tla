------------------------------ MODULE Secrets -------------------------------
(***************************************************************************)
(* Secrets on their way from the producer that holds them to the tasks of  *)
(* a node that ingests them: the producer's table and its /v1/secrets      *)
(* endpoint (state/secrets.go, listen_secrets.go), the node's fetch        *)
(* (secretsource/http.go), the refresh loop that writes what it fetched    *)
(* into the node's own table (secretstore/store.go), the command line that *)
(* writes the same table from a process of its own (cmd/secret_client.go), *)
(* and the gate in front of every read (Store.Get).                        *)
(*                                                                         *)
(* Time is counted in ticks, as the ages of what the code compares with    *)
(* its clock.  A table maps the names that have a row to their rows.  What *)
(* is sealed in a row is opened again with the same key; a process has the *)
(* key (CRONICLE_DEK_HEX) or has none.                                     *)
(***************************************************************************)
EXTENDS Naturals, FiniteSets, Functions

CONSTANTS
    Names,       \* secret names
    Values,      \* plaintext values
    StaleTTL,    \* --secret-stale-ttl, in ticks
    FetchLimit,  \* the timeout of the fetching HTTP client, in ticks
    MaxEdits,    \* bound: writes to the producer's table
    MaxFaults,   \* bound: failed writes of a refresh and command line writes
    NoEtag       \* lastSourceETag before the first refresh of a process

ASSUME SecretsAssumption ==
    /\ StaleTTL \in Nat
    /\ FetchLimit \in Nat
    /\ MaxEdits \in Nat
    /\ MaxFaults \in Nat
    /\ NoEtag \notin Nat

VARIABLES
    \* The producer.
    held,       \* its table, name -> value
    etag,       \* secrets_meta.etag_counter
    \* The node's table: rows [value, sealed, by], with by the updated_by.
    rows,
    \* The node's process.
    phase,      \* "down", "idle", or how far a refresh is
    boot,       \* the refresh is the one that Start waits for
    dek,        \* whether the process has the key
    lastEtag,   \* lastSourceETag
    lastIngest, \* how long ago lastIngest is
    elapsed,    \* since the request was sent, then since it was answered
    wire,       \* the answer: [etag, values]
    puts, dels, \* names the refresh has yet to put and to delete
    \* History.
    gone,       \* gone[n][v]: since when v is not the producer's value of n
    adrift,     \* names whose row a failed or a command line write left
    faults

producer == <<held, etag>>
process == <<phase, boot, dek, lastEtag, lastIngest>>
refresh == <<elapsed, wire, puts, dels>>
history == <<gone, adrift, faults>>
vars == <<producer, rows, process, refresh, history>>

Tables(R) == UNION {[S -> R] : S \in SUBSET Names}

\* Ages are not told apart beyond what the gate and the properties look at.
Oldest == StaleTTL + FetchLimit + 1

Older(age) == IF age < Oldest THEN age + 1 ELSE age

Fetching == {"asked", "listing", "answered"}

Nothing == [etag |-> 0, values |-> [n \in {} |-> n]]

Init ==
    /\ held = [n \in {} |-> n]
    /\ etag = 0
    /\ rows = [n \in {} |-> n]
    /\ phase = "down"
    /\ boot = FALSE
    /\ dek = FALSE
    /\ lastEtag = NoEtag
    /\ lastIngest = 0
    /\ elapsed = 0
    /\ wire = Nothing
    /\ puts = {}
    /\ dels = {}
    /\ gone = [n \in Names |-> [v \in Values |-> Oldest]]
    /\ adrift = {}
    /\ faults = 0

(***************************************************************************)
(* The producer: PUT and DELETE of /v1/secrets/{name}, each a transaction  *)
(* that bumps the etag, the DELETE of a name without a row too.            *)
(***************************************************************************)

\* The table t with a row for n, and without one.
With(t, n, row) == [m \in DOMAIN t \union {n} |-> IF m = n THEN row ELSE t[m]]
Without(t, n) == Restrict(t, DOMAIN t \ {n})

Edit(table) ==
    /\ etag < MaxEdits
    /\ etag' = etag + 1
    /\ held' = table
    /\ gone' = [n \in Names |-> [v \in Values |->
                  IF n \in DOMAIN table /\ table[n] = v THEN 0 ELSE gone[n][v]]]
    /\ UNCHANGED <<rows, process, refresh, adrift, faults>>

PutSecret(n, v) == Edit(With(held, n, v))

DeleteSecret(n) == Edit(Without(held, n))

(***************************************************************************)
(* The node's table.                                                       *)
(***************************************************************************)

\* PutSecret by a process that has the key or not.
Row(v, key, by) == [value |-> v, sealed |-> key, by |-> by]

\* resolveSecretValue succeeds.
Readable(row, key) == row.sealed => key

\* Seeded fault: rows from before the key was configured stay as they are.
BackfillNothing(table, key) == table

\* BackfillSecrets, in EnableStateStore, when the process has the key.
BackfillSecrets(table, key) ==
    [n \in DOMAIN table |-> [table[n] EXCEPT !.sealed = @ \/ key]]

\* `cronicle secret set` and `rm` on the node's state.db, in a process that
\* has its own environment.
SecretSet(n, v, key) ==
    /\ faults < MaxFaults
    /\ faults' = faults + 1
    /\ rows' = With(rows, n, Row(v, key, "cli"))
    /\ adrift' = adrift \union {n}
    /\ UNCHANGED <<producer, process, refresh, gone>>

SecretRm(n) ==
    /\ faults < MaxFaults
    /\ n \in DOMAIN rows
    /\ faults' = faults + 1
    /\ rows' = Without(rows, n)
    /\ adrift' = adrift \union {n}
    /\ UNCHANGED <<producer, process, refresh, gone>>

(***************************************************************************)
(* The node's process.                                                     *)
(***************************************************************************)

\* EnableStateStore, then the first refresh of Store.Start, before any task.
Start(key) ==
    /\ phase = "down"
    /\ phase' = "asked"
    /\ boot' = TRUE
    /\ dek' = key
    /\ rows' = BackfillSecrets(rows, key)
    /\ elapsed' = 0
    /\ UNCHANGED <<producer, lastEtag, lastIngest, wire, puts, dels, history>>

\* The process ends: a crash, a stop, or a Start that failed.
Down ==
    /\ phase' = "down"
    /\ boot' = FALSE
    /\ dek' = FALSE
    /\ lastEtag' = NoEtag
    /\ lastIngest' = 0
    /\ elapsed' = 0
    /\ wire' = Nothing
    /\ puts' = {}
    /\ dels' = {}

Crash ==
    /\ phase # "down"
    /\ Down
    /\ UNCHANGED <<producer, rows, history>>

\* Seeded fault: once the rows are stale, nothing refreshes them.
RefreshTickUnlessStale ==
    /\ phase = "idle"
    /\ lastIngest <= StaleTTL
    /\ phase' = "asked"
    /\ elapsed' = 0
    /\ UNCHANGED <<producer, rows, boot, dek, lastEtag, lastIngest, wire,
                   puts, dels, history>>

\* refreshLoop: a tick starts a refresh.
RefreshTick ==
    /\ phase = "idle"
    /\ phase' = "asked"
    /\ elapsed' = 0
    /\ UNCHANGED <<producer, rows, boot, dek, lastEtag, lastIngest, wire,
                   puts, dels, history>>

\* The end of refreshOnce; it stamps the moment the answer came.
Refreshed(tag, age) ==
    /\ phase' = "idle"
    /\ boot' = FALSE
    /\ lastEtag' = tag
    /\ lastIngest' = age
    /\ elapsed' = 0
    /\ wire' = Nothing
    /\ puts' = {}
    /\ dels' = {}
    /\ UNCHANGED dek

\* Seeded fault: a refresh that failed counts as one.
GivesUpRefreshed == Refreshed(lastEtag, 0)

\* refreshOnce returns an error: refreshLoop logs it, Start ends the process.
GivesUp == IF boot THEN Down ELSE Refreshed(lastEtag, lastIngest)

\* handleSecretsRoot reads the etag first: 304 if it is the client's.
ServeEtag ==
    /\ phase = "asked"
    /\ etag # lastEtag
    /\ phase' = "listing"
    /\ wire' = [Nothing EXCEPT !.etag = etag]
    /\ UNCHANGED <<producer, rows, boot, dek, lastEtag, lastIngest, elapsed,
                   puts, dels, history>>

\* Then, in another statement, the rows.
ServeList ==
    /\ phase = "listing"
    /\ phase' = "answered"
    /\ wire' = [wire EXCEPT !.values = held]
    /\ UNCHANGED <<producer, rows, boot, dek, lastEtag, lastIngest, elapsed,
                   puts, dels, history>>

NotModified ==
    /\ phase = "asked"
    /\ etag = lastEtag
    /\ Refreshed(lastEtag, 0)
    /\ UNCHANGED <<producer, rows, history>>

\* No answer, an error status or a body that does not decode.
FetchFails ==
    /\ phase \in Fetching
    /\ GivesUp
    /\ UNCHANGED <<producer, rows, history>>

\* diff: added and rotated names, and removed ones.
diff(table, values) ==
    [puts |-> {n \in DOMAIN values : n \in DOMAIN table
                                       => table[n].value # values[n]},
     dels |-> DOMAIN table \ DOMAIN values]

\* ListSecrets and diff; a row that does not open fails the refresh.
Diff ==
    /\ phase = "answered"
    /\ IF \A n \in DOMAIN rows : Readable(rows[n], dek)
       THEN LET d == diff(rows, wire.values) IN
            /\ phase' = "writing"
            /\ elapsed' = 0
            /\ puts' = d.puts
            /\ dels' = d.dels
            /\ adrift' = adrift \intersect (d.puts \union d.dels)
            /\ UNCHANGED <<boot, dek, lastEtag, lastIngest, wire>>
       ELSE GivesUp /\ UNCHANGED adrift
    /\ UNCHANGED <<producer, rows, gone, faults>>

\* One PutSecret or, after them, DeleteSecret of the refresh.  A failure is
\* logged and the loop goes on.
Write(n, table) ==
    /\ phase = "writing"
    /\ \/ /\ rows' = table
          /\ adrift' = adrift \ {n}
          /\ UNCHANGED faults
       \/ /\ faults < MaxFaults
          /\ faults' = faults + 1
          /\ adrift' = adrift \union {n}
          /\ UNCHANGED rows
    /\ UNCHANGED <<producer, process, elapsed, wire, gone>>

WritePut(n) ==
    /\ n \in puts
    /\ puts' = puts \ {n}
    /\ Write(n, With(rows, n, Row(wire.values[n], dek, "refresh")))
    /\ UNCHANGED dels

WriteDelete(n) ==
    /\ puts = {}
    /\ n \in dels
    /\ dels' = dels \ {n}
    /\ Write(n, Without(rows, n))
    /\ UNCHANGED puts

\* Seeded fault: the producer's etag is read once the rows are written.
AppliedWithLaterEtag ==
    /\ phase = "writing"
    /\ puts \union dels = {}
    /\ Refreshed(etag, elapsed)
    /\ UNCHANGED <<producer, rows, history>>

\* Whatever happened to the writes, the refresh counts and its etag is kept.
Applied ==
    /\ phase = "writing"
    /\ puts \union dels = {}
    /\ Refreshed(wire.etag, elapsed)
    /\ UNCHANGED <<producer, rows, history>>

\* Time passes; the HTTP client ends a fetch that takes too long.
Tick ==
    /\ phase \in Fetching => elapsed < FetchLimit
    /\ gone' = [n \in Names |-> [v \in Values |->
                  IF n \in DOMAIN held /\ held[n] = v THEN 0
                                                      ELSE Older(gone[n][v])]]
    /\ lastIngest' = IF phase = "down" \/ boot THEN 0 ELSE Older(lastIngest)
    /\ elapsed' = IF phase \in {"down", "idle"} THEN 0 ELSE Older(elapsed)
    /\ UNCHANGED <<producer, rows, phase, boot, dek, lastEtag, wire, puts,
                   dels, adrift, faults>>

\* Store.Get dispenses the value of n's row.  The gate and the read are two
\* steps; what a later read finds is no older than what the gate allowed.
Dispensed(n) ==
    /\ phase # "down"
    /\ ~boot
    /\ lastIngest <= StaleTTL
    /\ n \in DOMAIN rows
    /\ Readable(rows[n], dek)

Next ==
    \/ \E n \in Names, v \in Values : PutSecret(n, v)
    \/ \E n \in Names : DeleteSecret(n)
    \/ \E n \in Names, v \in Values, key \in BOOLEAN : SecretSet(n, v, key)
    \/ \E n \in Names : SecretRm(n)
    \/ \E key \in BOOLEAN : Start(key)
    \/ Crash
    \/ RefreshTick
    \/ ServeEtag \/ ServeList \/ NotModified \/ FetchFails
    \/ Diff
    \/ \E n \in Names : WritePut(n) \/ WriteDelete(n)
    \/ Applied
    \/ Tick

\* The refresh loop goes on while the process lives, and a producer that is
\* asked over and over answers in the end.
Spec ==
    /\ Init /\ [][Next]_vars
    /\ WF_vars(RefreshTick)
    /\ SF_vars(ServeEtag \/ NotModified)
    /\ SF_vars(ServeList)
    /\ SF_vars(Diff)
    /\ WF_vars(\E n \in Names : WritePut(n) \/ WriteDelete(n))
    /\ WF_vars(Applied)

-----------------------------------------------------------------------------

Same(n) ==
    /\ n \in DOMAIN rows <=> n \in DOMAIN held
    /\ n \in DOMAIN rows => rows[n].value = held[n]

\* A node that knows the producer's etag has the producer's rows, whatever was
\* written while its answer was made up, sent and applied: the endpoint reads
\* the etag before the rows, so that an answer may look older than it is and
\* never younger (handleSecretsRoot, refreshOnce).
EtagMeansSame ==
    phase \in {"idle"} \union Fetching /\ lastEtag = etag
        => \A n \in Names \ adrift : Same(n)

\* A value that Get dispenses was the producer's at most the staleness TTL and
\* one fetch ago, through outages, restarts and half-applied refreshes
\* (Store.Get, lastIngest).
DispensedIsRecent ==
    \A n \in Names \ adrift :
        Dispensed(n) => gone[n][rows[n].value] <= StaleTTL + FetchLimit

\* While a process with the key runs, the only rows in plain text are the ones
\* the command line put there without it (PutSecret, BackfillSecrets).
SealedAtRest ==
    phase # "down" /\ dek
        => \A n \in DOMAIN rows : rows[n].sealed \/ rows[n].by = "cli"

\* Once the producer's table is left alone, a node that stays up ends with the
\* same rows, unless a write failed or was made beside the refresh, or a row
\* does not open (refreshLoop).
RotationArrives ==
    etag = MaxEdits
        ~> \/ phase = "down"
           \/ \A n \in Names : Same(n)
           \/ adrift # {}
           \/ \E n \in DOMAIN rows : ~Readable(rows[n], dek)

=============================================================================
