--------------------------- MODULE SecretsProofs ----------------------------
(***************************************************************************)
(* Proofs about Secrets, for any names and values, any staleness TTL, any  *)
(* number of edits and any failed write.                                   *)
(***************************************************************************)
EXTENDS Secrets, TLAPS

Rows == [value : Values, sealed : BOOLEAN, by : {"cli", "refresh"}]

\* The types of what the two properties look at.
Types ==
    /\ held \in Tables(Values)
    /\ etag \in Nat
    /\ rows \in Tables(Rows)
    /\ dek \in BOOLEAN
    /\ lastEtag \in Nat \union {NoEtag}
    /\ wire \in [etag : Nat, values : Tables(Values)]

\* A process that is down knows nothing; no etag is ahead of the producer's.
EtagsOK ==
    /\ phase = "down" => lastEtag = NoEtag /\ dek = FALSE
    /\ lastEtag # NoEtag => lastEtag <= etag
    /\ wire.etag <= etag

\* An answer with the producer's etag holds the producer's rows: the etag was
\* read before them, and nothing was written since.
AnswerOK ==
    phase \in {"answered", "writing"} /\ wire.etag = etag => wire.values = held

\* What a refresh has still to put and to delete, and what it has not: those
\* names have the row that the answer says, or were left adrift.
WritingOK ==
    phase = "writing" =>
        /\ puts \subseteq DOMAIN wire.values
        /\ dels \intersect DOMAIN wire.values = {}
        /\ wire.etag = etag => \A n \in Names \ (adrift \union puts \union dels) : Same(n)

\* The inductive invariant.
Inv ==
    /\ Types
    /\ EtagsOK
    /\ AnswerOK
    /\ WritingOK
    /\ EtagMeansSame
    /\ SealedAtRest

-----------------------------------------------------------------------------

\* A table is a function on names.
LEMMA TableFacts ==
    ASSUME NEW R, NEW t \in Tables(R)
    PROVE  /\ DOMAIN t \subseteq Names
           /\ \A n \in DOMAIN t : t[n] \in R
<1>1. PICK S \in SUBSET Names : t \in [S -> R]
  BY DEF Tables
<1> QED
  BY <1>1

\* A function on names is a table.
LEMMA TableIs ==
    ASSUME NEW R, NEW S \in SUBSET Names, NEW t \in [S -> R]
    PROVE  t \in Tables(R)
BY DEF Tables

\* A table with a row more, or a new one (PutSecret).
LEMMA TableWith ==
    ASSUME NEW R, NEW t \in Tables(R), NEW n \in Names, NEW r \in R
    PROVE  /\ With(t, n, r) \in Tables(R)
           /\ DOMAIN With(t, n, r) = DOMAIN t \union {n}
           /\ With(t, n, r)[n] = r
           /\ \A m \in DOMAIN t : m # n => With(t, n, r)[m] = t[m]
<1> DEFINE S == DOMAIN t \union {n}
<1>1. S \in SUBSET Names /\ \A m \in DOMAIN t : t[m] \in R
  BY TableFacts
<1>2. With(t, n, r) = [m \in S |-> IF m = n THEN r ELSE t[m]]
  BY DEF With
<1>3. With(t, n, r) \in [S -> R]
  BY <1>1, <1>2
<1>4. With(t, n, r) \in Tables(R)
  BY <1>1, <1>3, TableIs
<1> QED
  BY <1>2, <1>4

\* A table with a row less (DeleteSecret).
LEMMA TableWithout ==
    ASSUME NEW R, NEW t \in Tables(R), NEW n
    PROVE  /\ Without(t, n) \in Tables(R)
           /\ DOMAIN Without(t, n) = DOMAIN t \ {n}
           /\ \A m \in DOMAIN t : m # n => Without(t, n)[m] = t[m]
<1> DEFINE S == DOMAIN t \ {n}
<1>1. S \in SUBSET Names /\ \A m \in S : t[m] \in R
  BY TableFacts
<1>2. Without(t, n) = [m \in S |-> t[m]]
  BY DEF Without, Restrict
<1>3. Without(t, n) \in [S -> R]
  BY <1>1, <1>2
<1>4. Without(t, n) \in Tables(R)
  BY <1>1, <1>3, TableIs
<1> QED
  BY <1>2, <1>4

\* Sealing the rows at start-up leaves their values (BackfillSecrets).
LEMMA BackfillFacts ==
    ASSUME NEW t \in Tables(Rows), NEW key \in BOOLEAN
    PROVE  /\ BackfillSecrets(t, key) \in Tables(Rows)
           /\ DOMAIN BackfillSecrets(t, key) = DOMAIN t
           /\ \A n \in DOMAIN t : BackfillSecrets(t, key)[n].value = t[n].value
           /\ key => \A n \in DOMAIN t : BackfillSecrets(t, key)[n].sealed
<1> DEFINE b == BackfillSecrets(t, key)
<1>1. DOMAIN t \in SUBSET Names /\ \A n \in DOMAIN t : t[n] \in Rows
  BY TableFacts
<1>2. b = [n \in DOMAIN t |-> [t[n] EXCEPT !.sealed = t[n].sealed \/ key]]
  BY DEF BackfillSecrets
<1>3. ASSUME NEW n \in DOMAIN t
      PROVE  /\ b[n] \in Rows /\ b[n].value = t[n].value
             /\ key => b[n].sealed
  <2>1. t[n] \in Rows /\ (t[n].sealed \/ key) \in BOOLEAN
    BY <1>1 DEF Rows
  <2>2. b[n] = [t[n] EXCEPT !.sealed = t[n].sealed \/ key]
    BY <1>2
  <2> QED
    BY <2>1, <2>2 DEF Rows
<1> HIDE DEF b
<1>4. DOMAIN b = DOMAIN t
  BY <1>2
<1>5. b \in [DOMAIN t -> Rows]
  BY <1>2, <1>3
<1>6. b \in Tables(Rows)
  BY <1>1, <1>5, TableIs
<1> QED
  BY <1>3, <1>4, <1>6 DEF b

-----------------------------------------------------------------------------

\* The empty answer is one.
LEMMA NothingIsAnswer ==
    /\ Nothing \in [etag : Nat, values : Tables(Values)]
    /\ Nothing.etag = 0
<1>1. [n \in {} |-> n] \in [{} -> Values]
  OBVIOUS
<1>2. [n \in {} |-> n] \in Tables(Values)
  BY <1>1, TableIs
<1> QED
  BY <1>2 DEF Nothing

\* A write at the producer makes every etag that is out there an old one.
LEMMA EditStep ==
    ASSUME Inv, NEW t \in Tables(Values), Edit(t)
    PROVE  Inv'
<1>1. etag' = etag + 1 /\ held' = t /\ UNCHANGED <<rows, process, refresh, adrift>>
  BY DEF Edit
<1>2. /\ UNCHANGED <<phase, dek, lastEtag, wire, puts, dels>>
      /\ etag \in Nat /\ lastEtag \in Nat \union {NoEtag} /\ wire.etag \in Nat
      /\ lastEtag # NoEtag => lastEtag <= etag
      /\ wire.etag <= etag
  BY <1>1 DEF process, refresh, Inv, Types, EtagsOK
<1>3. wire'.etag # etag' /\ lastEtag' # etag'
  BY <1>1, <1>2, SecretsAssumption
<1>4. Types' /\ EtagsOK'
  BY <1>1, <1>2 DEF Inv, Types, EtagsOK
<1>5. AnswerOK' /\ EtagMeansSame'
  BY <1>3 DEF AnswerOK, EtagMeansSame
<1>6. WritingOK'
  BY <1>1, <1>2, <1>3 DEF Inv, WritingOK
<1>7. SealedAtRest'
  BY <1>1, <1>2 DEF Inv, SealedAtRest
<1> QED
  BY <1>4, <1>5, <1>6, <1>7 DEF Inv

\* A step that leaves both tables alone.
LEMMA TablesStay ==
    ASSUME UNCHANGED <<held, rows>>
    PROVE  \A n \in Names : Same(n)' <=> Same(n)
BY DEF Same

\* A write to the row of n leaves the other names as they were.
LEMMA OthersStay ==
    ASSUME NEW n \in Names, held' = held,
           DOMAIN rows' \ {n} = DOMAIN rows \ {n},
           \A m \in DOMAIN rows : m # n => rows'[m] = rows[m]
    PROVE  \A m \in Names : m # n => (Same(m)' <=> Same(m))
<1> SUFFICES ASSUME NEW m \in Names, m # n PROVE Same(m)' <=> Same(m)
  OBVIOUS
<1>1. m \in DOMAIN rows' <=> m \in DOMAIN rows
  OBVIOUS
<1>2. m \in DOMAIN rows => rows'[m] = rows[m]
  OBVIOUS
<1> QED
  BY <1>1, <1>2 DEF Same

\* The command line: the row of n is adrift from now on.
LEMMA CommandStep ==
    ASSUME Inv, NEW n \in Names, UNCHANGED <<producer, process, refresh>>,
           adrift' = adrift \union {n}, rows' \in Tables(Rows),
           DOMAIN rows' \ {n} = DOMAIN rows \ {n},
           n \in DOMAIN rows' => rows'[n].by = "cli",
           \A m \in DOMAIN rows : m # n => rows'[m] = rows[m]
    PROVE  Inv'
<1>1. UNCHANGED <<held, etag, phase, dek, lastEtag, wire, puts, dels>>
  BY DEF producer, process, refresh
<1>2. \A m \in Names : m # n => (Same(m)' <=> Same(m))
  BY <1>1, OthersStay
<1>3. Types' /\ EtagsOK' /\ AnswerOK'
  BY <1>1 DEF Inv, Types, EtagsOK, AnswerOK
<1>4. WritingOK' /\ EtagMeansSame'
  <2>1. WritingOK'
    <3> SUFFICES ASSUME phase = "writing"
                 PROVE  /\ puts \subseteq DOMAIN wire.values
                        /\ dels \intersect DOMAIN wire.values = {}
                        /\ wire.etag = etag =>
                             \A m \in Names \ (adrift' \union puts \union dels) : Same(m)'
      BY <1>1 DEF WritingOK
    <3>1. /\ puts \subseteq DOMAIN wire.values
          /\ dels \intersect DOMAIN wire.values = {}
          /\ wire.etag = etag =>
               \A m \in Names \ (adrift \union puts \union dels) : Same(m)
      BY DEF Inv, WritingOK
    <3> QED
      BY <1>2, <3>1
  <2>2. EtagMeansSame'
    <3> SUFFICES ASSUME phase \in {"idle"} \union Fetching, lastEtag = etag,
                        NEW m \in Names \ adrift'
                 PROVE  Same(m)'
      BY <1>1 DEF EtagMeansSame
    <3>1. Same(m) /\ m # n
      BY DEF Inv, EtagMeansSame
    <3> QED
      BY <1>2, <3>1
  <2> QED
    BY <2>1, <2>2
<1>5. SealedAtRest'
  <2> SUFFICES ASSUME phase # "down", dek, NEW m \in DOMAIN rows'
               PROVE  rows'[m].sealed \/ rows'[m].by = "cli"
    BY <1>1 DEF SealedAtRest
  <2>1. CASE m # n
    BY <2>1 DEF Inv, SealedAtRest
  <2> QED
    BY <2>1
<1> QED
  BY <1>3, <1>4, <1>5 DEF Inv

\* The process ends.
LEMMA DownStep ==
    ASSUME Inv, Down, UNCHANGED <<producer, rows>>
    PROVE  Inv'
<1>1. /\ phase' = "down" /\ dek' = FALSE /\ lastEtag' = NoEtag /\ wire' = Nothing
      /\ UNCHANGED <<held, etag, rows>>
  BY DEF Down, producer
<1>2. Nothing \in [etag : Nat, values : Tables(Values)] /\ Nothing.etag = 0
  BY NothingIsAnswer
<1>3. Types' /\ EtagsOK'
  <2>1. Types'
    BY <1>1, <1>2 DEF Inv, Types
  <2>2. wire'.etag <= etag'
    BY <1>1, <1>2 DEF Inv, Types
  <2> QED
    BY <1>1, <2>1, <2>2 DEF EtagsOK
<1>4. AnswerOK' /\ WritingOK' /\ EtagMeansSame' /\ SealedAtRest'
  BY <1>1 DEF AnswerOK, WritingOK, EtagMeansSame, SealedAtRest, Fetching
<1> QED
  BY <1>3, <1>4 DEF Inv

\* A refresh ends with the etag tag; the rows are the producer's if it is the
\* producer's etag.
LEMMA RefreshedStep ==
    ASSUME Inv, NEW tag \in Nat \union {NoEtag}, NEW age, Refreshed(tag, age),
           UNCHANGED <<producer, rows>>,
           phase # "down",
           tag # NoEtag => tag <= etag,
           tag = etag => \A n \in Names \ adrift' : Same(n)
    PROVE  Inv'
<1>1. /\ phase' = "idle" /\ dek' = dek /\ lastEtag' = tag /\ wire' = Nothing
      /\ UNCHANGED <<held, etag, rows>>
  BY DEF Refreshed, producer
<1>2. Nothing \in [etag : Nat, values : Tables(Values)] /\ Nothing.etag = 0
  BY NothingIsAnswer
<1>3. Types' /\ EtagsOK'
  BY <1>1, <1>2 DEF Inv, Types, EtagsOK
<1>4. AnswerOK' /\ WritingOK'
  BY <1>1 DEF AnswerOK, WritingOK
<1>5. EtagMeansSame'
  BY <1>1, TablesStay DEF EtagMeansSame
<1>6. SealedAtRest'
  BY <1>1 DEF Inv, SealedAtRest
<1> QED
  BY <1>3, <1>4, <1>5, <1>6 DEF Inv

\* A refresh that fails before its first write.
LEMMA GivesUpStep ==
    ASSUME Inv, phase \in Fetching, GivesUp, UNCHANGED <<producer, rows, adrift>>
    PROVE  Inv'
<1>1. CASE boot
  BY <1>1, DownStep DEF GivesUp
<1>2. CASE ~boot
  <2>1. Refreshed(lastEtag, lastIngest) /\ phase # "down"
    BY <1>2 DEF GivesUp, Fetching
  <2>2. lastEtag \in Nat \union {NoEtag} /\ (lastEtag # NoEtag => lastEtag <= etag)
    BY DEF Inv, Types, EtagsOK
  <2>3. lastEtag = etag => \A n \in Names \ adrift' : Same(n)
    BY DEF Inv, EtagMeansSame
  <2> QED
    BY <2>1, <2>2, <2>3, RefreshedStep
<1> QED
  BY <1>1, <1>2

\* The producer reads its etag, and then its rows.
LEMMA ServeStep == ASSUME Inv, ServeEtag \/ ServeList PROVE Inv'
<1>1. /\ UNCHANGED <<held, etag, rows, dek, lastEtag, adrift>>
      /\ phase \in Fetching /\ phase' \in {"listing", "answered"}
  BY DEF ServeEtag, ServeList, producer, history, Fetching
<1>2. /\ wire' \in [etag : Nat, values : Tables(Values)]
      /\ wire'.etag <= etag
      /\ phase' = "answered" => wire'.values = held
  <2>1. CASE ServeEtag
    <3>1. /\ wire' = [Nothing EXCEPT !.etag = etag] /\ phase' = "listing"
          /\ etag \in Nat
      BY <2>1 DEF ServeEtag, Inv, Types
    <3>2. Nothing \in [etag : Nat, values : Tables(Values)]
      BY NothingIsAnswer
    <3>3. wire' \in [etag : Nat, values : Tables(Values)] /\ wire'.etag = etag
      BY <3>1, <3>2
    <3> QED
      BY <3>1, <3>3
  <2>2. CASE ServeList
    <3>1. /\ wire' = [wire EXCEPT !.values = held]
          /\ wire \in [etag : Nat, values : Tables(Values)]
          /\ held \in Tables(Values) /\ wire.etag <= etag
      BY <2>2 DEF ServeList, Inv, Types, EtagsOK
    <3> QED
      BY <3>1
  <2> QED
    BY <2>1, <2>2
<1>3. Types'
  BY <1>1, <1>2 DEF Inv, Types
<1>4. EtagsOK' /\ AnswerOK' /\ WritingOK'
  BY <1>1, <1>2 DEF Inv, EtagsOK, AnswerOK, WritingOK
<1>5. EtagMeansSame'
  BY <1>1, TablesStay DEF Inv, EtagMeansSame, Fetching
<1>6. SealedAtRest'
  BY <1>1 DEF Inv, SealedAtRest, Fetching
<1> QED
  BY <1>3, <1>4, <1>5, <1>6 DEF Inv

\* The answer is compared with the rows: what is neither to be put nor to be
\* deleted has the answer's value already.
LEMMA DiffStep == ASSUME Inv, Diff PROVE Inv'
<1> DEFINE d == diff(rows, wire.values)
<1>1. phase = "answered" /\ UNCHANGED <<held, etag, rows>>
  BY DEF Diff, producer
<1>2. CASE \A n \in DOMAIN rows : Readable(rows[n], dek)
  <2>1. /\ phase' = "writing" /\ puts' = d.puts /\ dels' = d.dels
        /\ adrift' = adrift \intersect (d.puts \union d.dels)
        /\ UNCHANGED <<dek, lastEtag, wire>>
    BY <1>2 DEF Diff
  <2>2. /\ d.puts = {n \in DOMAIN wire.values :
                       n \in DOMAIN rows => rows[n].value # wire.values[n]}
        /\ d.dels = DOMAIN rows \ DOMAIN wire.values
    BY DEF diff
  <2> HIDE DEF d
  <2>3. Types' /\ EtagsOK' /\ AnswerOK'
    BY <1>1, <2>1 DEF Inv, Types, EtagsOK, AnswerOK
  <2>4. WritingOK'
    <3>1. ASSUME wire.etag = etag, NEW n \in Names, n \notin d.puts, n \notin d.dels
          PROVE  Same(n)
      <4>1. wire.values = held
        BY <1>1, <3>1 DEF Inv, AnswerOK
      <4> QED
        BY <2>2, <3>1, <4>1 DEF Same
    <3> QED
      BY <1>1, <2>1, <2>2, <3>1, TablesStay DEF WritingOK
  <2>5. EtagMeansSame'
    BY <2>1 DEF EtagMeansSame, Fetching
  <2>6. SealedAtRest'
    BY <1>1, <2>1 DEF Inv, SealedAtRest
  <2> QED
    BY <2>3, <2>4, <2>5, <2>6 DEF Inv
<1>3. CASE ~\A n \in DOMAIN rows : Readable(rows[n], dek)
  BY <1>1, <1>3, GivesUpStep DEF Diff, Fetching, producer
<1> QED
  BY <1>2, <1>3

\* One row of a refresh: it is as the answer says, or adrift.
LEMMA WriteStep ==
    ASSUME Inv, NEW n \in Names, NEW t \in Tables(Rows), Write(n, t),
           puts' = puts \ {n}, dels' = dels \ {n},
           DOMAIN t \ {n} = DOMAIN rows \ {n},
           \A m \in DOMAIN rows : m # n => t[m] = rows[m],
           n \in DOMAIN t => t[n].sealed = dek,
           n \in DOMAIN t <=> n \in DOMAIN wire.values,
           n \in DOMAIN t => t[n].value = wire.values[n]
    PROVE  Inv'
<1>1. /\ phase = "writing" /\ UNCHANGED <<held, etag, phase, dek, lastEtag, wire>>
      /\ \/ rows' = t /\ adrift' = adrift \ {n}
         \/ rows' = rows /\ adrift' = adrift \union {n}
  BY DEF Write, producer, process
<1>2. rows' \in Tables(Rows) /\ \A m \in Names : m # n => (Same(m)' <=> Same(m))
  <2>1. CASE rows' = t
    <3>1. \A m \in Names : m # n => (Same(m)' <=> Same(m))
      BY <1>1, <2>1, OthersStay
    <3> QED
      BY <2>1, <3>1
  <2>2. CASE rows' = rows
    BY <1>1, <2>2, TablesStay DEF Inv, Types
  <2> QED
    BY <1>1, <2>1, <2>2
<1>3. Types' /\ EtagsOK' /\ AnswerOK'
  BY <1>1, <1>2 DEF Inv, Types, EtagsOK, AnswerOK
<1>4. WritingOK'
  <2>1. ASSUME wire.etag = etag, NEW m \in Names,
               m \notin adrift', m \notin puts', m \notin dels'
        PROVE  Same(m)'
    <3>1. CASE m = n
      <4>1. rows' = t /\ held' = held /\ wire.values = held
        BY <1>1, <2>1, <3>1 DEF Inv, AnswerOK
      <4> QED
        BY <3>1, <4>1 DEF Same
    <3>2. CASE m # n
      <4>1. m \notin adrift /\ m \notin puts /\ m \notin dels
        BY <1>1, <2>1, <3>2
      <4>2. Same(m)
        BY <1>1, <2>1, <4>1 DEF Inv, WritingOK
      <4> QED
        BY <1>2, <3>2, <4>2
    <3> QED
      BY <3>1, <3>2
  <2>2. puts' \subseteq DOMAIN wire.values /\ dels' \intersect DOMAIN wire.values = {}
    BY <1>1 DEF Inv, WritingOK
  <2> QED
    BY <1>1, <2>1, <2>2 DEF WritingOK
<1>5. EtagMeansSame'
  BY <1>1 DEF EtagMeansSame, Fetching
<1>6. SealedAtRest'
  <2> SUFFICES ASSUME dek, NEW m \in DOMAIN rows'
               PROVE  rows'[m].sealed \/ rows'[m].by = "cli"
    BY <1>1 DEF SealedAtRest
  <2>1. \A k \in DOMAIN rows : rows[k].sealed \/ rows[k].by = "cli"
    BY <1>1 DEF Inv, SealedAtRest
  <2>2. CASE rows' = rows
    BY <2>1, <2>2
  <2>3. CASE rows' = t /\ m = n
    BY <2>3
  <2>4. CASE rows' = t /\ m # n
    BY <2>1, <2>4
  <2> QED
    BY <1>1, <2>2, <2>3, <2>4
<1> QED
  BY <1>3, <1>4, <1>5, <1>6 DEF Inv

\* A process starts: it knows no etag, and seals what was in plain text.
LEMMA StartStep == ASSUME Inv, NEW key \in BOOLEAN, Start(key) PROVE Inv'
<1>1. /\ phase = "down" /\ phase' = "asked" /\ dek' = key
      /\ rows' = BackfillSecrets(rows, key)
      /\ UNCHANGED <<held, etag, lastEtag, wire>>
  BY DEF Start, producer
<1>2. lastEtag = NoEtag /\ rows \in Tables(Rows)
  BY <1>1 DEF Inv, EtagsOK, Types
<1>3. /\ rows' \in Tables(Rows) /\ DOMAIN rows' = DOMAIN rows
      /\ key => \A n \in DOMAIN rows : rows'[n].sealed
  BY <1>1, <1>2, BackfillFacts
<1>4. Types'
  BY <1>1, <1>3 DEF Inv, Types
<1>5. EtagsOK' /\ AnswerOK' /\ WritingOK'
  BY <1>1 DEF Inv, EtagsOK, AnswerOK, WritingOK
<1>6. EtagMeansSame'
  <2>1. lastEtag' # etag'
    BY <1>1, <1>2, SecretsAssumption DEF Inv, Types
  <2> QED
    BY <2>1 DEF EtagMeansSame
<1>7. SealedAtRest'
  BY <1>1, <1>3 DEF SealedAtRest
<1> QED
  BY <1>4, <1>5, <1>6, <1>7 DEF Inv

\* Steps that only a clock or a timer sees.
LEMMA IdleStep ==
    ASSUME Inv, UNCHANGED <<held, etag, rows, dek, lastEtag, wire, puts, dels, adrift>>,
           phase' # phase => phase = "idle" /\ phase' = "asked"
    PROVE  Inv'
<1>1. Types' /\ EtagsOK' /\ AnswerOK'
  BY DEF Inv, Types, EtagsOK, AnswerOK
<1>2. \A n \in Names : Same(n)' <=> Same(n)
  BY TablesStay
<1>3. WritingOK'
  BY <1>2 DEF Inv, WritingOK
<1>4. EtagMeansSame'
  BY <1>2 DEF Inv, EtagMeansSame, Fetching
<1>5. SealedAtRest'
  BY DEF Inv, SealedAtRest
<1> QED
  BY <1>1, <1>3, <1>4, <1>5 DEF Inv

\* Every step keeps the invariant.
LEMMA StepInv == Inv /\ [Next]_vars => Inv'
<1> SUFFICES ASSUME Inv, [Next]_vars PROVE Inv'
  OBVIOUS
<1>t. /\ held \in Tables(Values) /\ rows \in Tables(Rows)
      /\ wire.values \in Tables(Values) /\ dek \in BOOLEAN
  BY DEF Inv, Types
<1>1. ASSUME NEW n \in Names, NEW v \in Values, PutSecret(n, v) PROVE Inv'
  BY <1>t, <1>1, TableWith, EditStep DEF PutSecret
<1>2. ASSUME NEW n \in Names, DeleteSecret(n) PROVE Inv'
  BY <1>t, <1>2, TableWithout, EditStep DEF DeleteSecret
<1>3. ASSUME NEW n \in Names, NEW v \in Values, NEW key \in BOOLEAN, SecretSet(n, v, key)
      PROVE  Inv'
  <2>r. Row(v, key, "cli") \in Rows /\ Row(v, key, "cli").by = "cli"
    BY DEF Row, Rows
  <2>1. PICK r \in Rows : r = Row(v, key, "cli") /\ r.by = "cli"
    BY <2>r
  <2>2. /\ rows' = With(rows, n, r) /\ adrift' = adrift \union {n}
        /\ UNCHANGED <<producer, process, refresh>>
    BY <1>3, <2>1 DEF SecretSet
  <2>3. /\ rows' \in Tables(Rows) /\ DOMAIN rows' = DOMAIN rows \union {n}
        /\ rows'[n] = r /\ \A m \in DOMAIN rows : m # n => rows'[m] = rows[m]
    <3>1. /\ With(rows, n, r) \in Tables(Rows)
          /\ DOMAIN With(rows, n, r) = DOMAIN rows \union {n}
          /\ With(rows, n, r)[n] = r
          /\ \A m \in DOMAIN rows : m # n => With(rows, n, r)[m] = rows[m]
      BY <1>t, <2>1, TableWith
    <3> QED
      BY <2>2, <3>1
  <2> QED
    BY <2>1, <2>2, <2>3, CommandStep
<1>4. ASSUME NEW n \in Names, SecretRm(n) PROVE Inv'
  <2>1. /\ rows' = Without(rows, n) /\ adrift' = adrift \union {n}
        /\ UNCHANGED <<producer, process, refresh>>
    BY <1>4 DEF SecretRm
  <2>2. /\ rows' \in Tables(Rows) /\ DOMAIN rows' = DOMAIN rows \ {n}
        /\ \A m \in DOMAIN rows : m # n => rows'[m] = rows[m]
    BY <1>t, <2>1, TableWithout
  <2> QED
    BY <2>1, <2>2, CommandStep
<1>5. ASSUME NEW key \in BOOLEAN, Start(key) PROVE Inv'
  BY <1>5, StartStep
<1>6. CASE Crash
  BY <1>6, DownStep DEF Crash
<1>7. CASE RefreshTick
  BY <1>7, IdleStep DEF RefreshTick, producer, history
<1>8. CASE ServeEtag \/ ServeList
  BY <1>8, ServeStep
<1>9. CASE NotModified
  <2>1. /\ phase = "asked" /\ etag = lastEtag /\ Refreshed(lastEtag, 0)
        /\ UNCHANGED <<producer, rows, adrift>>
    BY <1>9 DEF NotModified, history
  <2>2. /\ lastEtag \in Nat \union {NoEtag} /\ (lastEtag # NoEtag => lastEtag <= etag)
        /\ \A n \in Names \ adrift' : Same(n)
    BY <2>1 DEF Inv, Types, EtagsOK, EtagMeansSame, Fetching
  <2> QED
    BY <2>1, <2>2, RefreshedStep
<1>10. CASE FetchFails
  BY <1>10, GivesUpStep DEF FetchFails, history
<1>11. CASE Diff
  BY <1>11, DiffStep
<1>12. ASSUME NEW n \in Names, WritePut(n) PROVE Inv'
  <2>1. /\ n \in puts /\ puts' = puts \ {n} /\ dels' = dels
        /\ Write(n, With(rows, n, Row(wire.values[n], dek, "refresh")))
    BY <1>12 DEF WritePut
  <2>2. n \in DOMAIN wire.values /\ n \notin dels
    BY <2>1 DEF Inv, WritingOK, Write
  <2>3. wire.values[n] \in Values
    BY <1>t, <2>2, TableFacts
  <2>r. LET r == Row(wire.values[n], dek, "refresh")
        IN  r \in Rows /\ r.sealed = dek /\ r.value = wire.values[n]
    BY <1>t, <2>3 DEF Row, Rows
  <2>4. PICK r \in Rows : /\ r = Row(wire.values[n], dek, "refresh")
                          /\ r.sealed = dek /\ r.value = wire.values[n]
    BY <2>r
  <2>5. PICK t \in Tables(Rows) :
               /\ t = With(rows, n, r) /\ DOMAIN t = DOMAIN rows \union {n}
               /\ t[n] = r /\ \A m \in DOMAIN rows : m # n => t[m] = rows[m]
    <3>1. /\ With(rows, n, r) \in Tables(Rows)
          /\ DOMAIN With(rows, n, r) = DOMAIN rows \union {n}
          /\ With(rows, n, r)[n] = r
          /\ \A m \in DOMAIN rows : m # n => With(rows, n, r)[m] = rows[m]
      BY <1>t, <2>4, TableWith
    <3> QED
      BY <3>1
  <2>6. Write(n, t)
    BY <2>1, <2>4, <2>5
  <2> QED
    BY <2>1, <2>2, <2>4, <2>5, <2>6, WriteStep
<1>13. ASSUME NEW n \in Names, WriteDelete(n) PROVE Inv'
  <2> DEFINE t == Without(rows, n)
  <2>1. puts = {} /\ n \in dels /\ dels' = dels \ {n} /\ puts' = puts /\ Write(n, t)
    BY <1>13 DEF WriteDelete
  <2>2. n \notin DOMAIN wire.values
    BY <2>1 DEF Inv, WritingOK, Write
  <2>3. /\ t \in Tables(Rows) /\ DOMAIN t = DOMAIN rows \ {n}
        /\ \A m \in DOMAIN rows : m # n => t[m] = rows[m]
    BY <1>t, TableWithout
  <2> HIDE DEF t
  <2> QED
    BY <2>1, <2>2, <2>3, WriteStep
<1>14. CASE Applied
  <2>1. /\ phase = "writing" /\ puts \union dels = {} /\ Refreshed(wire.etag, elapsed)
        /\ UNCHANGED <<producer, rows, adrift>>
    BY <1>14 DEF Applied, history
  <2>2. /\ wire.etag \in Nat /\ wire.etag <= etag
        /\ wire.etag = etag => \A n \in Names \ adrift' : Same(n)
    BY <2>1 DEF Inv, Types, EtagsOK, WritingOK
  <2> QED
    BY <2>1, <2>2, RefreshedStep
<1>15. CASE Tick
  <2>1. /\ UNCHANGED <<held, etag, rows, dek, lastEtag, wire, puts, dels, adrift>>
        /\ phase' = phase
    BY <1>15 DEF Tick, producer
  <2> QED
    BY <2>1, IdleStep
<1>16. CASE UNCHANGED vars
  <2>1. /\ UNCHANGED <<held, etag, rows, dek, lastEtag, wire, puts, dels, adrift>>
        /\ phase' = phase
    BY <1>16 DEF vars, producer, process, refresh, history
  <2> QED
    BY <2>1, IdleStep
<1> QED
  BY <1>1, <1>2, <1>3, <1>4, <1>5, <1>6, <1>7, <1>8, <1>9, <1>10, <1>11, <1>12,
     <1>13, <1>14, <1>15, <1>16 DEF Next

\* No rows, and no process.
LEMMA InitInv == Init => Inv
<1> SUFFICES ASSUME Init PROVE Inv
  OBVIOUS
<1>1. /\ held = [n \in {} |-> n] /\ rows = [n \in {} |-> n] /\ etag = 0
      /\ phase = "down" /\ dek = FALSE /\ lastEtag = NoEtag /\ wire = Nothing
  BY DEF Init
<1>2. held \in Tables(Values) /\ rows \in Tables(Rows)
  <2>1. held \in [{} -> Values] /\ rows \in [{} -> Rows]
    BY <1>1
  <2> QED
    BY <2>1, TableIs
<1>3. Types /\ EtagsOK
  <2>1. /\ wire \in [etag : Nat, values : Tables(Values)]
        /\ wire.etag <= etag
    BY <1>1, NothingIsAnswer
  <2>2. Types
    BY <1>1, <1>2, <2>1 DEF Types
  <2> QED
    BY <1>1, <2>1, <2>2 DEF EtagsOK
<1>4. AnswerOK /\ WritingOK /\ EtagMeansSame /\ SealedAtRest
  BY <1>1 DEF AnswerOK, WritingOK, EtagMeansSame, SealedAtRest, Fetching
<1> QED
  BY <1>3, <1>4 DEF Inv

\* The invariant of the tables and their etags.
THEOREM SecretsInvariance == Spec => []Inv
<1> QED
  BY InitInv, StepInv, PTL DEF Spec

\* A node that knows the producer's etag has the producer's rows
\* (handleSecretsRoot, refreshOnce).
THEOREM EtagIsHonest == Spec => []EtagMeansSame
<1>1. Inv => EtagMeansSame
  BY DEF Inv
<1> QED
  BY <1>1, SecretsInvariance, PTL

\* A process that has the key keeps no row of its own in plain text
\* (BackfillSecrets, PutSecret).
THEOREM RowsAreSealed == Spec => []SealedAtRest
<1>1. Inv => SealedAtRest
  BY DEF Inv
<1> QED
  BY <1>1, SecretsInvariance, PTL

-----------------------------------------------------------------------------
(***************************************************************************)
(* How old a dispensed value is.                                           *)
(***************************************************************************)

\* The types of the ages.
AgeTypes ==
    /\ gone \in [Names -> [Values -> 0..Oldest]]
    /\ lastIngest \in Nat
    /\ elapsed \in Nat
    /\ boot \in BOOLEAN

\* What the producer holds is of now.
HeldIsNow == \A n \in DOMAIN held : gone[n][held[n]] = 0

\* What an answer says was so after the request was sent.
AnswerAge ==
    /\ phase \in Fetching => elapsed <= FetchLimit
    /\ phase = "answered" =>
         \A n \in DOMAIN wire.values : gone[n][wire.values[n]] <= elapsed

\* While it is written it ages with the time since it came, which is less than
\* the time since the refresh before; and a row that is not to be written any
\* more, or was not to be, has the value of the answer.
WriteAge ==
    phase = "writing" =>
        /\ \A n \in DOMAIN wire.values : gone[n][wire.values[n]] <= elapsed + FetchLimit
        /\ ~boot => elapsed <= lastIngest
        /\ \A n \in DOMAIN rows \ (adrift \union puts \union dels) :
              n \in DOMAIN wire.values /\ rows[n].value = wire.values[n]

\* A row is as old as the last refresh and its fetch, and no older.
RowAge ==
    phase # "down" /\ ~boot =>
        \A n \in DOMAIN rows \ adrift :
           gone[n][rows[n].value] <= lastIngest + FetchLimit

\* The inductive invariant of the ages, beside Inv.
AgeInv ==
    /\ AgeTypes
    /\ HeldIsNow
    /\ AnswerAge
    /\ WriteAge
    /\ RowAge

\* The bounds of the ages are numbers.
LEMMA Limits == Oldest \in Nat /\ FetchLimit \in Nat /\ StaleTTL \in Nat
  BY SecretsAssumption DEF Oldest

\* A tick adds one to an age, up to the cap.
LEMMA OlderFacts ==
    ASSUME NEW age \in Nat
    PROVE  /\ Older(age) \in Nat
           /\ age <= Older(age) /\ Older(age) <= age + 1
           /\ age < Oldest => Older(age) = age + 1
           /\ age <= Oldest => Older(age) <= Oldest
           /\ \A old \in Nat : old <= age => Older(old) <= Older(age)
  BY Limits DEF Older

\* Ages of values are numbers up to the cap.
LEMMA GoneFacts ==
    ASSUME AgeTypes, NEW n \in Names, NEW v \in Values
    PROVE  gone[n][v] \in Nat /\ gone[n][v] <= Oldest
  BY Limits DEF AgeTypes

\* The tables that the ages are about.
LEMMA AgeTables ==
    ASSUME Inv
    PROVE  /\ DOMAIN held \subseteq Names /\ \A n \in DOMAIN held : held[n] \in Values
           /\ DOMAIN rows \subseteq Names /\ \A n \in DOMAIN rows : rows[n].value \in Values
           /\ DOMAIN wire.values \subseteq Names
           /\ \A n \in DOMAIN wire.values : wire.values[n] \in Values
<1>1. /\ held \in Tables(Values) /\ rows \in Tables(Rows)
      /\ wire.values \in Tables(Values)
  BY DEF Inv, Types
<1>2. \A n \in DOMAIN rows : rows[n] \in Rows
  BY <1>1, TableFacts
<1> QED
  BY <1>1, <1>2, TableFacts DEF Rows

\* An edit at the producer makes values young and none older.
LEMMA EditAges ==
    ASSUME Inv, AgeInv, NEW t \in Tables(Values), Edit(t)
    PROVE  AgeInv'
<1> USE DEF AgeInv
<1>1. /\ held' = t /\ UNCHANGED <<rows, process, refresh, adrift>>
      /\ gone' = [n \in Names |-> [v \in Values |->
                   IF n \in DOMAIN t /\ t[n] = v THEN 0 ELSE gone[n][v]]]
  BY DEF Edit
<1>2. UNCHANGED <<rows, phase, boot, lastIngest, elapsed, wire, puts, dels, adrift>>
  BY <1>1 DEF process, refresh
<1>3. ASSUME NEW n \in Names, NEW v \in Values
      PROVE  /\ gone'[n][v] = IF n \in DOMAIN t /\ t[n] = v THEN 0 ELSE gone[n][v]
             /\ gone[n][v] \in Nat /\ gone'[n][v] \in Nat
             /\ gone'[n][v] <= gone[n][v]
             /\ gone'[n][v] \in 0..Oldest
  BY <1>1, GoneFacts, Limits
<1>4. AgeTypes'
  BY <1>1, <1>2, <1>3 DEF AgeTypes
<1>5. HeldIsNow'
  <2>1. \A n \in DOMAIN t : n \in Names /\ t[n] \in Values
    BY TableFacts
  <2> QED
    BY <1>1, <1>3, <2>1 DEF HeldIsNow
<1>6. AnswerAge'
  <2> SUFFICES ASSUME phase = "answered", NEW n \in DOMAIN wire.values
               PROVE  gone'[n][wire.values[n]] <= elapsed
    BY <1>2 DEF AnswerAge
  <2>1. n \in Names /\ wire.values[n] \in Values /\ elapsed \in Nat
    BY AgeTables DEF AgeTypes
  <2>2. gone[n][wire.values[n]] <= elapsed
    BY DEF AnswerAge
  <2> QED
    BY <1>3, <2>1, <2>2
<1>7. WriteAge'
  <2> SUFFICES ASSUME phase = "writing", NEW n \in DOMAIN wire.values
               PROVE  gone'[n][wire.values[n]] <= elapsed + FetchLimit
    BY <1>2 DEF WriteAge
  <2>1. n \in Names /\ wire.values[n] \in Values /\ elapsed + FetchLimit \in Nat
    BY AgeTables, Limits DEF AgeTypes
  <2>2. gone[n][wire.values[n]] <= elapsed + FetchLimit
    BY DEF WriteAge
  <2> QED
    BY <1>3, <2>1, <2>2
<1>8. RowAge'
  <2> SUFFICES ASSUME phase # "down", ~boot, NEW n \in DOMAIN rows \ adrift
               PROVE  gone'[n][rows[n].value] <= lastIngest + FetchLimit
    BY <1>2 DEF RowAge
  <2>1. n \in Names /\ rows[n].value \in Values /\ lastIngest + FetchLimit \in Nat
    BY AgeTables, Limits DEF AgeTypes
  <2>2. gone[n][rows[n].value] <= lastIngest + FetchLimit
    BY DEF RowAge
  <2> QED
    BY <1>3, <2>1, <2>2
<1> QED
  BY <1>4, <1>5, <1>6, <1>7, <1>8

\* A write of the command line leaves its name adrift.
LEMMA CommandAges ==
    ASSUME Inv, AgeInv, NEW n \in Names, UNCHANGED <<producer, process, refresh, gone>>,
           adrift' = adrift \union {n},
           DOMAIN rows' \ {n} = DOMAIN rows \ {n},
           \A m \in DOMAIN rows : m # n => rows'[m] = rows[m]
    PROVE  AgeInv'
<1> USE DEF AgeInv
<1>1. UNCHANGED <<held, phase, boot, lastIngest, elapsed, wire, puts, dels, gone>>
  BY DEF producer, process, refresh
<1>2. \A m \in DOMAIN rows' \ adrift' : m \in DOMAIN rows \ adrift /\ rows'[m] = rows[m]
  OBVIOUS
<1>3. AgeTypes' /\ HeldIsNow' /\ AnswerAge'
  BY <1>1 DEF AgeTypes, HeldIsNow, AnswerAge
<1>4. WriteAge'
  BY <1>1, <1>2 DEF WriteAge
<1>5. RowAge'
  BY <1>1, <1>2 DEF RowAge
<1> QED
  BY <1>3, <1>4, <1>5

\* A process that is down dispenses nothing.
LEMMA DownAges ==
    ASSUME AgeInv, Down, UNCHANGED <<producer, gone>>
    PROVE  AgeInv'
<1>1. phase' = "down" /\ boot' = FALSE /\ lastIngest' = 0 /\ elapsed' = 0
  BY DEF Down
<1>2. AgeTypes' /\ HeldIsNow'
  BY <1>1 DEF AgeInv, AgeTypes, HeldIsNow, producer
<1>3. AnswerAge' /\ WriteAge' /\ RowAge'
  BY <1>1 DEF AnswerAge, WriteAge, RowAge, Fetching
<1> QED
  BY <1>2, <1>3 DEF AgeInv

\* A refresh may stamp an age that is right for every row.
LEMMA RefreshedAges ==
    ASSUME AgeInv, NEW tag, NEW age \in Nat, Refreshed(tag, age),
           UNCHANGED <<producer, rows, gone, adrift>>,
           \A n \in DOMAIN rows \ adrift : gone[n][rows[n].value] <= age + FetchLimit
    PROVE  AgeInv'
<1>1. phase' = "idle" /\ boot' = FALSE /\ lastIngest' = age /\ elapsed' = 0
  BY DEF Refreshed
<1>2. AgeTypes' /\ HeldIsNow'
  BY <1>1 DEF AgeInv, AgeTypes, HeldIsNow, producer
<1>3. AnswerAge' /\ WriteAge'
  BY <1>1 DEF AnswerAge, WriteAge, Fetching
<1>4. RowAge'
  BY <1>1 DEF RowAge
<1> QED
  BY <1>2, <1>3, <1>4 DEF AgeInv

\* A refresh that fails keeps the stamp.
LEMMA GivesUpAges ==
    ASSUME AgeInv, phase \in Fetching, GivesUp, UNCHANGED <<producer, rows, gone, adrift>>
    PROVE  AgeInv'
<1>1. CASE boot
  BY <1>1, DownAges DEF GivesUp
<1>2. CASE ~boot
  <2>1. Refreshed(lastEtag, lastIngest)
    BY <1>2 DEF GivesUp
  <2>2. \A n \in DOMAIN rows \ adrift : gone[n][rows[n].value] <= lastIngest + FetchLimit
    BY <1>2 DEF AgeInv, RowAge, Fetching
  <2>3. lastIngest \in Nat
    BY DEF AgeInv, AgeTypes
  <2> QED
    BY <2>1, <2>2, <2>3, RefreshedAges
<1> QED
  BY <1>1, <1>2

\* A 304 stamps now: the rows are the producer's.
LEMMA NotModifiedAges == ASSUME Inv, AgeInv, NotModified PROVE AgeInv'
<1>1. /\ phase = "asked" /\ etag = lastEtag /\ Refreshed(lastEtag, 0)
      /\ UNCHANGED <<producer, rows, gone, adrift>>
  BY DEF NotModified, history
<1>2. \A n \in Names \ adrift : Same(n)
  BY <1>1 DEF Inv, EtagMeansSame, Fetching
<1>3. ASSUME NEW n \in DOMAIN rows \ adrift
      PROVE  gone[n][rows[n].value] <= 0 + FetchLimit
  <2>1. n \in DOMAIN held /\ rows[n].value = held[n]
    BY <1>2, AgeTables DEF Same
  <2>2. gone[n][rows[n].value] = 0
    BY <2>1 DEF AgeInv, HeldIsNow
  <2> QED
    BY <2>2, Limits
<1> QED
  BY <1>1, <1>3, RefreshedAges

\* The answer is made up of what the producer holds.
LEMMA ServeAges == ASSUME Inv, AgeInv, ServeEtag \/ ServeList PROVE AgeInv'
<1> USE DEF AgeInv
<1>1. /\ UNCHANGED <<held, rows, boot, lastIngest, elapsed, gone, adrift>>
      /\ phase \in Fetching /\ phase' \in {"listing", "answered"}
  BY DEF ServeEtag, ServeList, producer, history, Fetching
<1>2. phase' = "answered" => wire'.values = held
  <2>1. CASE ServeEtag
    BY <2>1 DEF ServeEtag
  <2>2. CASE ServeList
    BY <2>2 DEF ServeList, Inv, Types
  <2> QED
    BY <2>1, <2>2
<1>3. AgeTypes' /\ HeldIsNow'
  BY <1>1 DEF AgeTypes, HeldIsNow
<1>4. AnswerAge'
  BY <1>1, <1>2 DEF AnswerAge, HeldIsNow, AgeTypes
<1>5. WriteAge' /\ RowAge'
  BY <1>1 DEF WriteAge, RowAge, Fetching
<1> QED
  BY <1>3, <1>4, <1>5

\* What diff leaves alone is as the answer says.
LEMMA DiffAges == ASSUME Inv, AgeInv, Diff PROVE AgeInv'
<1> USE DEF AgeInv
<1> DEFINE d == diff(rows, wire.values)
<1>1. phase = "answered" /\ UNCHANGED <<held, rows, gone>>
  BY DEF Diff, producer
<1>2. CASE \A n \in DOMAIN rows : Readable(rows[n], dek)
  <2>1. /\ phase' = "writing" /\ elapsed' = 0 /\ puts' = d.puts /\ dels' = d.dels
        /\ adrift' = adrift \intersect (d.puts \union d.dels)
        /\ UNCHANGED <<boot, lastIngest, wire>>
    BY <1>2 DEF Diff
  <2>2. \A n \in DOMAIN rows \ (d.puts \union d.dels) :
           n \in DOMAIN wire.values /\ rows[n].value = wire.values[n]
    BY DEF diff
  <2>3. ASSUME NEW n \in DOMAIN wire.values
        PROVE  /\ gone[n][wire.values[n]] <= FetchLimit
               /\ gone[n][wire.values[n]] \in Nat
    <3>1. gone[n][wire.values[n]] <= elapsed /\ elapsed <= FetchLimit /\ elapsed \in Nat
      BY <1>1 DEF AnswerAge, Fetching, AgeTypes
    <3>2. gone[n][wire.values[n]] \in Nat
      BY AgeTables, GoneFacts
    <3> QED
      BY <3>1, <3>2, Limits
  <2>4. AgeTypes' /\ HeldIsNow' /\ AnswerAge'
    BY <1>1, <2>1 DEF AgeTypes, HeldIsNow, AnswerAge, Fetching
  <2>5. WriteAge'
    <3>1. \A n \in DOMAIN wire.values : gone[n][wire.values[n]] <= 0 + FetchLimit
      BY <2>3, Limits
    <3>2. 0 <= lastIngest
      BY DEF AgeTypes
    <3> QED
      BY <1>1, <2>1, <2>2, <3>1, <3>2 DEF WriteAge
  <2>6. RowAge'
    <3> SUFFICES ASSUME ~boot, NEW n \in DOMAIN rows \ adrift'
                 PROVE  gone[n][rows[n].value] <= lastIngest + FetchLimit
      BY <1>1, <2>1 DEF RowAge
    <3>1. CASE n \in adrift
      <4>1. n \in DOMAIN wire.values /\ rows[n].value = wire.values[n]
        BY <2>1, <2>2, <3>1
      <4> QED
        BY <2>3, <4>1, Limits DEF AgeTypes
    <3>2. CASE n \notin adrift
      BY <1>1, <3>2 DEF RowAge
    <3> QED
      BY <3>1, <3>2
  <2> QED
    BY <2>4, <2>5, <2>6
<1>3. CASE ~ \A n \in DOMAIN rows : Readable(rows[n], dek)
  <2>1. GivesUp /\ UNCHANGED adrift
    BY <1>3 DEF Diff
  <2> QED
    BY <1>1, <2>1, GivesUpAges DEF Fetching, Diff
<1> QED
  BY <1>2, <1>3

\* A write puts the value of the answer, or leaves its name adrift.
LEMMA WriteAges ==
    ASSUME Inv, AgeInv, NEW n \in Names, NEW t, Write(n, t),
           puts' = puts \ {n}, dels' = dels \ {n},
           DOMAIN t \ {n} = DOMAIN rows \ {n},
           \A m \in DOMAIN rows : m # n => t[m] = rows[m],
           n \in DOMAIN t => n \in DOMAIN wire.values /\ t[n].value = wire.values[n]
    PROVE  AgeInv'
<1> USE DEF AgeInv
<1>1. /\ phase = "writing"
      /\ UNCHANGED <<held, phase, boot, lastIngest, elapsed, wire, gone>>
      /\ \/ rows' = t /\ adrift' = adrift \ {n}
         \/ rows' = rows /\ adrift' = adrift \union {n}
  BY DEF Write, producer, process
<1>2. \A m \in DOMAIN rows' \ adrift' :
         \/ m \in DOMAIN rows \ adrift /\ rows'[m] = rows[m] /\ m # n
         \/ m = n /\ n \in DOMAIN wire.values /\ rows'[n].value = wire.values[n]
  BY <1>1
<1>3. AgeTypes' /\ HeldIsNow' /\ AnswerAge'
  BY <1>1 DEF AgeTypes, HeldIsNow, AnswerAge
<1>4. WriteAge'
  <2>1. \A m \in DOMAIN rows' \ (adrift' \union puts' \union dels') :
           m \in DOMAIN wire.values /\ rows'[m].value = wire.values[m]
    BY <1>1, <1>2 DEF WriteAge
  <2> QED
    BY <1>1, <2>1 DEF WriteAge
<1>5. RowAge'
  <2> SUFFICES ASSUME ~boot, NEW m \in DOMAIN rows' \ adrift'
               PROVE  gone[m][rows'[m].value] <= lastIngest + FetchLimit
    BY <1>1 DEF RowAge
  <2>1. CASE m \in DOMAIN rows \ adrift /\ rows'[m] = rows[m]
    BY <1>1, <2>1 DEF RowAge
  <2>2. CASE m = n /\ n \in DOMAIN wire.values /\ rows'[n].value = wire.values[n]
    <3>1. gone[n][wire.values[n]] <= elapsed + FetchLimit /\ elapsed <= lastIngest
      BY <1>1, <2>2 DEF WriteAge
    <3>2. gone[n][wire.values[n]] \in Nat /\ elapsed \in Nat /\ lastIngest \in Nat
      BY <2>2, AgeTables, GoneFacts DEF AgeTypes
    <3> QED
      BY <2>2, <3>1, <3>2, Limits
  <2> QED
    BY <1>2, <2>1, <2>2
<1> QED
  BY <1>3, <1>4, <1>5

\* The stamp of a refresh is the moment its answer came.
LEMMA AppliedAges == ASSUME Inv, AgeInv, Applied PROVE AgeInv'
<1>1. /\ phase = "writing" /\ puts \union dels = {} /\ Refreshed(wire.etag, elapsed)
      /\ UNCHANGED <<producer, rows, gone, adrift>>
  BY DEF Applied, history
<1>2. \A n \in DOMAIN rows \ adrift : gone[n][rows[n].value] <= elapsed + FetchLimit
  BY <1>1 DEF AgeInv, WriteAge
<1>3. elapsed \in Nat
  BY DEF AgeInv, AgeTypes
<1> QED
  BY <1>1, <1>2, <1>3, RefreshedAges

\* Start and refreshLoop send a request.
LEMMA AskAges ==
    ASSUME Inv, AgeInv, RefreshTick \/ \E key \in BOOLEAN : Start(key)
    PROVE  AgeInv'
<1> USE DEF AgeInv
<1>1. /\ phase' = "asked" /\ elapsed' = 0
      /\ UNCHANGED <<held, lastIngest, gone, adrift>>
      /\ \/ boot' = TRUE
         \/ phase = "idle" /\ UNCHANGED <<boot, rows>>
  BY DEF RefreshTick, Start, producer, history
<1>2. AgeTypes' /\ HeldIsNow'
  BY <1>1 DEF AgeTypes, HeldIsNow
<1>3. AnswerAge' /\ WriteAge'
  BY <1>1, Limits DEF AnswerAge, WriteAge
<1>4. RowAge'
  BY <1>1 DEF RowAge
<1> QED
  BY <1>2, <1>3, <1>4

\* Time passes for values, refreshes and rows alike.
LEMMA TickAges == ASSUME Inv, AgeInv, Tick PROVE AgeInv'
<1> USE DEF AgeInv
<1>1. /\ phase \in Fetching => elapsed < FetchLimit
      /\ gone' = [n \in Names |-> [v \in Values |->
                    IF n \in DOMAIN held /\ held[n] = v THEN 0
                                                        ELSE Older(gone[n][v])]]
      /\ lastIngest' = IF phase = "down" \/ boot THEN 0 ELSE Older(lastIngest)
      /\ elapsed' = IF phase \in {"down", "idle"} THEN 0 ELSE Older(elapsed)
      /\ UNCHANGED <<held, rows, phase, boot, wire, puts, dels, adrift>>
  BY DEF Tick, producer
<1>2. lastIngest \in Nat /\ elapsed \in Nat
  BY DEF AgeTypes
<1>3. ASSUME NEW n \in Names, NEW v \in Values
      PROVE  /\ gone'[n][v] = IF n \in DOMAIN held /\ held[n] = v THEN 0 ELSE Older(gone[n][v])
             /\ gone[n][v] \in Nat /\ gone'[n][v] \in Nat
             /\ gone'[n][v] <= gone[n][v] + 1
             /\ gone'[n][v] <= Oldest
  <2>1. gone[n][v] \in Nat /\ gone[n][v] <= Oldest
    BY GoneFacts
  <2>2. gone'[n][v] = IF n \in DOMAIN held /\ held[n] = v THEN 0 ELSE Older(gone[n][v])
    BY <1>1
  <2>3. /\ Older(gone[n][v]) \in Nat
        /\ Older(gone[n][v]) <= gone[n][v] + 1
        /\ Older(gone[n][v]) <= Oldest
    BY <2>1, OlderFacts
  <2>4. gone'[n][v] = 0 \/ gone'[n][v] = Older(gone[n][v])
    BY <2>2
  <2>5. gone'[n][v] \in Nat /\ gone'[n][v] <= gone[n][v] + 1 /\ gone'[n][v] <= Oldest
    BY <2>1, <2>3, <2>4, Limits
  <2> QED
    BY <2>1, <2>2, <2>5
<1>4. AgeTypes'
  <2>1. gone' \in [Names -> [Values -> 0..Oldest]]
    <3>1. \A n \in Names, v \in Values :
             (IF n \in DOMAIN held /\ held[n] = v THEN 0 ELSE Older(gone[n][v])) \in 0..Oldest
      BY <1>3, Limits
    <3> QED
      BY <1>1, <3>1
  <2>2. lastIngest' \in Nat /\ elapsed' \in Nat
    BY <1>1, <1>2, OlderFacts
  <2> QED
    BY <1>1, <2>1, <2>2 DEF AgeTypes
<1>5. HeldIsNow'
  BY <1>1, <1>3, AgeTables DEF HeldIsNow
<1>6. AnswerAge'
  <2>1. ASSUME phase \in Fetching PROVE elapsed' = elapsed + 1 /\ elapsed' <= FetchLimit
    <3>1. elapsed < FetchLimit /\ elapsed < Oldest
      BY <1>1, <1>2, <2>1, SecretsAssumption DEF Oldest
    <3>2. elapsed' = elapsed + 1
      BY <1>1, <1>2, <2>1, <3>1, OlderFacts DEF Fetching
    <3> QED
      BY <1>2, <3>1, <3>2, Limits
  <2>2. ASSUME phase = "answered", NEW n \in DOMAIN wire.values
        PROVE  gone'[n][wire.values[n]] <= elapsed'
    <3>1. n \in Names /\ wire.values[n] \in Values
      BY AgeTables
    <3>2. gone[n][wire.values[n]] <= elapsed
      BY <2>2 DEF AnswerAge
    <3>3. elapsed' = elapsed + 1
      BY <2>1, <2>2 DEF Fetching
    <3> QED
      BY <1>2, <1>3, <3>1, <3>2, <3>3
  <2> QED
    BY <1>1, <2>1, <2>2 DEF AnswerAge
<1>7. ASSUME NEW n \in Names, NEW v \in Values, NEW age \in Nat,
             gone[n][v] <= age + FetchLimit
      PROVE  gone'[n][v] <= Older(age) + FetchLimit
  <2>1. CASE age < Oldest
    <3>1. Older(age) = age + 1
      BY <2>1, OlderFacts
    <3> QED
      BY <1>3, <1>7, <3>1, Limits
  <2>2. CASE ~(age < Oldest)
    <3>1. Older(age) \in Nat /\ age <= Older(age)
      BY OlderFacts
    <3> QED
      BY <1>3, <2>2, <3>1, Limits
  <2> QED
    BY <2>1, <2>2
<1>8. WriteAge'
  <2> SUFFICES ASSUME phase = "writing" PROVE WriteAge'
    BY <1>1 DEF WriteAge
  <2>1. elapsed' = Older(elapsed)
    BY <1>1
  <2>2. \A n \in DOMAIN wire.values : gone'[n][wire.values[n]] <= elapsed' + FetchLimit
    BY <1>2, <1>7, <2>1, AgeTables DEF WriteAge
  <2>3. ~boot => elapsed' <= lastIngest'
    <3> SUFFICES ASSUME ~boot PROVE elapsed' <= lastIngest'
      OBVIOUS
    <3>1. elapsed <= lastIngest /\ lastIngest' = Older(lastIngest)
      BY <1>1 DEF WriteAge
    <3> QED
      BY <1>2, <2>1, <3>1, OlderFacts
  <2> QED
    BY <1>1, <2>2, <2>3 DEF WriteAge
<1>9. RowAge'
  <2> SUFFICES ASSUME phase # "down", ~boot, NEW n \in DOMAIN rows \ adrift
               PROVE  gone'[n][rows[n].value] <= lastIngest' + FetchLimit
    BY <1>1 DEF RowAge
  <2>1. lastIngest' = Older(lastIngest)
    BY <1>1
  <2>2. gone[n][rows[n].value] <= lastIngest + FetchLimit
    BY DEF RowAge
  <2> QED
    BY <1>2, <1>7, <2>1, <2>2, AgeTables
<1> QED
  BY <1>4, <1>5, <1>6, <1>8, <1>9

\* Every step keeps the ages.
LEMMA AgeStep == Inv /\ AgeInv /\ [Next]_vars => AgeInv'
<1> SUFFICES ASSUME Inv, AgeInv, [Next]_vars PROVE AgeInv'
  OBVIOUS
<1>t. /\ held \in Tables(Values) /\ rows \in Tables(Rows)
      /\ wire.values \in Tables(Values) /\ dek \in BOOLEAN
  BY DEF Inv, Types
<1>1. ASSUME NEW n \in Names, NEW v \in Values, PutSecret(n, v) PROVE AgeInv'
  BY <1>t, <1>1, TableWith, EditAges DEF PutSecret
<1>2. ASSUME NEW n \in Names, DeleteSecret(n) PROVE AgeInv'
  BY <1>t, <1>2, TableWithout, EditAges DEF DeleteSecret
<1>3. ASSUME NEW n \in Names, NEW v \in Values, NEW key \in BOOLEAN, SecretSet(n, v, key)
      PROVE  AgeInv'
  <2>1. PICK r \in Rows : r = Row(v, key, "cli")
    BY DEF Row, Rows
  <2>2. /\ rows' = With(rows, n, r) /\ adrift' = adrift \union {n}
        /\ UNCHANGED <<producer, process, refresh, gone>>
    BY <1>3, <2>1 DEF SecretSet
  <2>3. /\ With(rows, n, r) \in Tables(Rows)
        /\ DOMAIN With(rows, n, r) = DOMAIN rows \union {n}
        /\ With(rows, n, r)[n] = r
        /\ \A m \in DOMAIN rows : m # n => With(rows, n, r)[m] = rows[m]
    BY <1>t, <2>1, TableWith
  <2>4. DOMAIN rows' \ {n} = DOMAIN rows \ {n}
    BY <2>2, <2>3
  <2> QED
    BY <2>2, <2>3, <2>4, CommandAges
<1>4. ASSUME NEW n \in Names, SecretRm(n) PROVE AgeInv'
  <2>1. /\ rows' = Without(rows, n) /\ adrift' = adrift \union {n}
        /\ UNCHANGED <<producer, process, refresh, gone>>
    BY <1>4 DEF SecretRm
  <2>2. /\ DOMAIN Without(rows, n) = DOMAIN rows \ {n}
        /\ \A m \in DOMAIN rows : m # n => Without(rows, n)[m] = rows[m]
    BY <1>t, TableWithout
  <2>3. DOMAIN rows' \ {n} = DOMAIN rows \ {n}
    BY <2>1, <2>2
  <2> QED
    BY <2>1, <2>2, <2>3, CommandAges
<1>5. CASE Crash
  BY <1>5, DownAges DEF Crash, history
<1>6. CASE FetchFails
  BY <1>6, GivesUpAges DEF FetchFails, history
<1>7. ASSUME NEW n \in Names, WritePut(n) PROVE AgeInv'
  <2>1. /\ n \in puts /\ puts' = puts \ {n} /\ dels' = dels
        /\ Write(n, With(rows, n, Row(wire.values[n], dek, "refresh")))
    BY <1>7 DEF WritePut
  <2>2. n \in DOMAIN wire.values /\ n \notin dels
    BY <2>1 DEF Inv, WritingOK, Write
  <2>3. wire.values[n] \in Values
    BY <1>t, <2>2, TableFacts
  <2>r. LET r == Row(wire.values[n], dek, "refresh")
        IN  r \in Rows /\ r.value = wire.values[n]
    BY <1>t, <2>3 DEF Row, Rows
  <2>4. PICK r \in Rows : /\ r = Row(wire.values[n], dek, "refresh")
                          /\ r.value = wire.values[n]
    BY <2>r
  <2>5. PICK t : t = With(rows, n, r)
    OBVIOUS
  <2>6. /\ DOMAIN t = DOMAIN rows \union {n}
        /\ t[n] = r /\ \A m \in DOMAIN rows : m # n => t[m] = rows[m]
    <3>1. /\ With(rows, n, r) \in Tables(Rows)
          /\ DOMAIN With(rows, n, r) = DOMAIN rows \union {n}
          /\ With(rows, n, r)[n] = r
          /\ \A m \in DOMAIN rows : m # n => With(rows, n, r)[m] = rows[m]
      BY <1>t, <2>4, TableWith
    <3> QED
      BY <2>5, <3>1
  <2>7. Write(n, t) /\ dels' = dels \ {n}
    BY <2>1, <2>2, <2>4, <2>5
  <2> QED
    BY <2>1, <2>2, <2>4, <2>6, <2>7, WriteAges
<1>8. ASSUME NEW n \in Names, WriteDelete(n) PROVE AgeInv'
  <2>1. PICK t : t = Without(rows, n)
    OBVIOUS
  <2>2. puts = {} /\ dels' = dels \ {n} /\ puts' = puts /\ Write(n, t)
    BY <1>8, <2>1 DEF WriteDelete
  <2>3. DOMAIN t = DOMAIN rows \ {n} /\ \A m \in DOMAIN rows : m # n => t[m] = rows[m]
    BY <1>t, <2>1, TableWithout
  <2>4. puts' = puts \ {n}
    BY <2>2
  <2> QED
    BY <2>2, <2>3, <2>4, WriteAges
<1>9. CASE UNCHANGED vars
  <2>1. UNCHANGED <<held, rows, phase, boot, lastIngest, elapsed, wire, puts, dels,
                    gone, adrift>>
    BY <1>9 DEF vars, producer, process, refresh, history
  <2> QED
    BY <2>1 DEF AgeInv, AgeTypes, HeldIsNow, AnswerAge, WriteAge, RowAge
<1> QED
  BY <1>1, <1>2, <1>3, <1>4, <1>5, <1>6, <1>7, <1>8, <1>9, AskAges, ServeAges,
     NotModifiedAges, DiffAges, AppliedAges, TickAges DEF Next

\* A value that Get dispenses was the producer's at most the TTL and one fetch
\* ago, for every TTL and every timeout of the fetch (Store.Get, refreshOnce).
THEOREM DispensesOnlyRecent == Spec => []DispensedIsRecent
<1>1. Init => AgeInv
  <2> SUFFICES ASSUME Init PROVE AgeInv
    OBVIOUS
  <2>1. AgeTypes
    <3>1. Oldest \in 0..Oldest
      BY Limits
    <3>2. gone \in [Names -> [Values -> 0..Oldest]]
      BY <3>1 DEF Init
    <3> QED
      BY <3>2 DEF Init, AgeTypes
  <2>2. HeldIsNow
    BY DEF Init, HeldIsNow
  <2>3. AnswerAge /\ WriteAge /\ RowAge
    BY DEF Init, AnswerAge, WriteAge, RowAge, Fetching
  <2> QED
    BY <2>1, <2>2, <2>3 DEF AgeInv
<1>2. Inv /\ AgeInv => DispensedIsRecent
  <2> SUFFICES ASSUME Inv, AgeInv, NEW n \in Names \ adrift, Dispensed(n)
               PROVE  gone[n][rows[n].value] <= StaleTTL + FetchLimit
    BY DEF DispensedIsRecent
  <2>1. n \in DOMAIN rows /\ phase # "down" /\ ~boot /\ lastIngest <= StaleTTL
    BY DEF Dispensed
  <2>2. gone[n][rows[n].value] <= lastIngest + FetchLimit
    BY <2>1 DEF AgeInv, RowAge
  <2>3. gone[n][rows[n].value] \in Nat /\ lastIngest \in Nat
    BY <2>1, AgeTables, GoneFacts DEF AgeInv, AgeTypes
  <2> QED
    BY <2>1, <2>2, <2>3, Limits
<1> QED
  BY <1>1, <1>2, AgeStep, SecretsInvariance, PTL DEF Spec

=============================================================================
