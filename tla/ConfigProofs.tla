---------------------------- MODULE ConfigProofs ----------------------------
(***************************************************************************)
(* Proofs about what the producer makes of its configuration: how it gets  *)
(* into the scheduler (ConfigReload, the first part) and into the payloads *)
(* of runs and their retries (RetryChain, the second part).                *)
(*                                                                         *)
(* Of the reload: for any texts, schedules, kinds of source and bounds.    *)
(* What holds with any number of ticks under way at once is apart from     *)
(* what holds while one load ends before the next begins; the run          *)
(* config_reload_overlap shows that the second needs it.                   *)
(*                                                                         *)
(* Of the payloads: for any tasks, any config edits and any number of      *)
(* retries.  That they are sound does not depend on the cascade to which   *)
(* RetryTask and the subgraph trigger cut them down; that the search finds *)
(* the cascade is proved apart, at the end.                                *)
(***************************************************************************)
EXTENDS ConfigReload, RetryChain, FiniteSetTheorems, WellFoundedInduction, TLAPS

(***************************************************************************)
(* The reload: the invariants.                                             *)
(***************************************************************************)

Places == {"idle", "read", "parse", "compare", "store", "fetch", "get", "accept",
           "entries", "replace"}

Etags == Texts \union Nat \union {NoEtag}

\* The types; what is in force, or about to be, parses.
ReloadTypes ==
    /\ via \in {"LoadCron"} \union Files \union Servers \union Probed
    /\ text \in Texts
    /\ edits \in Nat
    /\ entries \in SUBSET ((Names \union {Refresh}) \X Nat)
    /\ loads \in Nat
    /\ conf \in Texts \ Broken
    /\ lastRaw \in Texts
    /\ lastEtag \in Etags
    /\ at \in [Ticks -> Places]
    /\ raw \in [Ticks -> Texts]
    /\ parsed \in [Ticks -> Texts \ Broken]
    /\ etag \in [Ticks -> Etags]
    /\ removing \in [Ticks -> SUBSET (Names \X Nat)]
    /\ adding \in [Ticks -> SUBSET Names]
    /\ load \in [Ticks -> Nat]

\* A tick of LoadCron is never where a tick of loadInto is, but for the
\* replacement that they share.
PathOK ==
    \A t \in Ticks :
        /\ at[t] \in {"read", "parse", "compare", "store"} => via = "LoadCron"
        /\ at[t] \in {"fetch", "get", "accept"} => via # "LoadCron"

\* The entry that does the loading is there, whatever is being replaced.
LoaderStays == <<Refresh, 0>> \in entries

\* An edit of a watched file leaves a trace until it is read: the watcher will
\* raise the flag, or has, or a tick that took it down is about to read.
NoEditMissed ==
    via = "file" =>
        cached = text \/ dirty \/ notice \/ \E t \in Ticks : at[t] = "get"

\* One load is over before the next begins: refreshes are further apart than
\* a load takes.
NoOverlap == \A s, t \in Ticks : at[s] # "idle" /\ at[t] # "idle" => s = t

\* LoadCron: what a tick compares is what it parsed, unless it read two texts.
LoadCronOK ==
    via = "LoadCron" /\ ~torn =>
        /\ lastRaw = conf
        /\ \A t \in Ticks :
              /\ at[t] \in {"compare", "store", "entries", "replace"} =>
                    parsed[t] = raw[t]
              /\ at[t] = "store" => raw[t] = lastRaw

\* loadInto: the text on record is the one in force, or is being registered.
LoadIntoOK ==
    via # "LoadCron" =>
        /\ ~torn
        /\ \A t \in Ticks :
              /\ at[t] \in {"entries", "replace"} => lastRaw = parsed[t]
              /\ at[t] \in {"fetch", "get", "accept"} => raw[t] = lastRaw
        /\ (\A t \in Ticks : at[t] \notin {"entries", "replace"}) => conf = lastRaw

\* The entries of a set of schedules after load i.
EntriesOf(names, i) == {<<n, i>> : n \in names}

\* Unless a tick is replacing them, the entries are those of one load of the
\* config in force.
EntriesOK ==
    alive /\ ~torn /\ ~Unloaded /\ (\A t \in Ticks : at[t] # "replace") =>
        \E i \in Nat : Dynamic = EntriesOf(Registrable(conf), i)

\* While a tick replaces them: the old ones it has not removed, and the new
\* ones it has added.
ReplaceOK ==
    \A t \in Ticks : alive /\ at[t] = "replace" =>
        /\ adding[t] \subseteq Scheduled[parsed[t]]
        /\ removing[t] # {} => adding[t] = Scheduled[parsed[t]]
        /\ Dynamic = removing[t]
                       \union EntriesOf(Registrable(parsed[t]) \ adding[t], load[t])

\* A hash on record is that of the text on record.
HashOK ==
    via \in Files \union {"s3", "hash"} =>
        /\ lastEtag = lastRaw
        /\ \A t \in Ticks : at[t] = "accept" => etag[t] = parsed[t]

\* A version on record is never later than the text on record.
VersionOK ==
    via \in {"http", "version"} =>
        /\ lastEtag \in 0..edits
        /\ lastEtag = edits => lastRaw = text
        /\ \A t \in Ticks :
              /\ at[t] \in {"fetch", "get", "accept"} => etag[t] \in 0..edits
              /\ at[t] = "accept" /\ etag[t] = edits => parsed[t] = text

\* The inductive invariants: of any ticks, and of ticks that do not overlap.
Watched == ReloadTypes /\ PathOK /\ LoaderStays /\ NoEditMissed

Ordered == LoadCronOK /\ LoadIntoOK /\ EntriesOK /\ ReplaceOK /\ HashOK /\ VersionOK

\* The next tick would find nothing new: the bytes are the same, the flag is
\* down and no event is on its way, or the source answers with the etag on
\* record.
FindsNothingNew ==
    \/ via \in {"LoadCron", "plain"} /\ lastRaw = text
    \/ via = "file" /\ ~dirty /\ ~notice /\ lastEtag = cached
    \/ via \in {"http", "hash"} \union Probed /\ lastEtag = Tag

\* When no load is under way and the next would find nothing new, nothing new
\* is there: the config and the entries are those of the present text.
QuietIsCurrent ==
    alive /\ ~torn /\ ~Unloaded /\ (\A t \in Ticks : at[t] = "idle") /\ FindsNothingNew =>
        conf = text /\ Registered(text)

-----------------------------------------------------------------------------

\* What a source names its content by is an etag.
LEMMA TagIsEtag == ReloadTypes => Tag \in Etags
  BY DEF ReloadTypes, Tag, Etags, Files, Servers, Probed

\* The types are kept.
LEMMA TypesKept == ASSUME ReloadTypes, [Next]_vars PROVE ReloadTypes'
<1> USE ReloadAssumption DEF ReloadTypes
<1>1. ASSUME NEW v \in Texts, Edit(v) PROVE ReloadTypes'
  BY <1>1 DEF Edit, recent, tick
<1>2. CASE watchLoop \/ UNCHANGED vars
  BY <1>2 DEF watchLoop, vars, env, recent, tick
<1>3. ASSUME NEW t \in Ticks, Fire(t) PROVE ReloadTypes'
  BY <1>3 DEF Fire, GoTo, env, recent, Places
<1>4. ASSUME NEW t \in Ticks, Fail(t) PROVE ReloadTypes'
  BY <1>4 DEF Fail, GoTo, env, recent, tick, Places
<1>5. ASSUME NEW t \in Ticks, ReadFile(t) PROVE ReloadTypes'
  BY <1>5 DEF ReadFile, GoTo, env, recent, Places
<1>6. ASSUME NEW t \in Ticks, GetConfig(t) PROVE ReloadTypes'
  BY <1>6 DEF GetConfig, GoTo, env, recent, Places
<1>7. ASSUME NEW t \in Ticks, Compare(t) PROVE ReloadTypes'
  BY <1>7 DEF Compare, GoTo, env, recent, tick, Places
<1>8. ASSUME NEW t \in Ticks, NEW e \in Etags, Changed(t, e), UNCHANGED Elsewhere
      PROVE  ReloadTypes'
  BY <1>8 DEF Changed, GoTo, Elsewhere, env, Places
<1>9. ASSUME NEW t \in Ticks, NotChanged(t), UNCHANGED Elsewhere PROVE ReloadTypes'
  BY <1>9 DEF NotChanged, GoTo, Elsewhere, env, Places
<1>10. ASSUME NEW t \in Ticks, FetchOnce(t) PROVE ReloadTypes'
  BY <1>8, <1>9, <1>10, TagIsEtag DEF FetchOnce
<1>11. ASSUME NEW t \in Ticks, Probe(t) PROVE ReloadTypes'
  <2>1. CASE NotChanged(t)
    BY <1>9, <1>11, <2>1 DEF Probe
  <2>2. CASE ~NotChanged(t)
    BY <1>11, <2>2, TagIsEtag DEF Probe, GoTo, Elsewhere, env, Places
  <2> QED
    BY <2>1, <2>2
<1>12. ASSUME NEW t \in Ticks, Get(t) PROVE ReloadTypes'
  <2>1. (IF via = "s3" THEN Tag ELSE etag[t]) \in Etags
    BY TagIsEtag
  <2> QED
    BY <1>8, <1>12, <2>1 DEF Get
<1>13. ASSUME NEW t \in Ticks, TakeDirty(t) PROVE ReloadTypes'
  BY <1>13 DEF TakeDirty, NotChanged, GoTo, Elsewhere, env, Places
<1>14. ASSUME NEW t \in Ticks, FetchFile(t) PROVE ReloadTypes'
  BY <1>8, <1>9, <1>14, TagIsEtag DEF FetchFile
<1>15. ASSUME NEW t \in Ticks, Accept(t) PROVE ReloadTypes'
  BY <1>15 DEF Accept, GoTo, env, tick, Places
<1>16. ASSUME NEW t \in Ticks, Entries(t) PROVE ReloadTypes'
  <2>1. Dynamic \in SUBSET (Names \X Nat)
    BY DEF Dynamic
  <2>2. Scheduled[parsed[t]] \in SUBSET Names
    OBVIOUS
  <2> QED
    BY <1>16, <2>1, <2>2 DEF Entries, GoTo, env, recent, Places
<1>17. ASSUME NEW t \in Ticks, NEW e, RemoveEntry(t, e) PROVE ReloadTypes'
  BY <1>17 DEF RemoveEntry, env, recent
<1>18. ASSUME NEW t \in Ticks, NEW n \in Names, AddFunc(t, n) PROVE ReloadTypes'
  BY <1>18 DEF AddFunc, env, recent
<1>19. ASSUME NEW t \in Ticks, Store(t) PROVE ReloadTypes'
  BY <1>19 DEF Store, GoTo, env, tick, Places
<1> QED
  BY <1>1, <1>2, <1>3, <1>4, <1>5, <1>6, <1>7, <1>10, <1>11, <1>12, <1>13, <1>14,
     <1>15, <1>16, <1>17, <1>18, <1>19 DEF Next, Load

\* What no step of a tick does: another tick stays where it is, and the way
\* the configuration comes stays the same.
LEMMA OneTickMoves ==
    ASSUME ReloadTypes, NEW t \in Ticks, Load(t) \/ Fail(t)
    PROVE  /\ UNCHANGED <<via, text, edits, notice>>
           /\ at' \in [Ticks -> Places]
           /\ \A s \in Ticks \ {t} : at'[s] = at[s]
           /\ at[t] # "idle" \/ at'[t] # "idle"
<1>1. UNCHANGED <<via, text, edits, notice>>
  BY DEF Load, Fail, Fire, ReadFile, GetConfig, Compare, FetchOnce, Probe, Get,
         TakeDirty, FetchFile, Accept, Entries, RemoveEntry, AddFunc, Store, Elsewhere,
         env, watch
<1>2. at' = at \/ \E place \in Places : at' = [at EXCEPT ![t] = place]
  BY DEF Load, Fail, Fire, ReadFile, GetConfig, Compare, FetchOnce, Probe, Get,
         TakeDirty, FetchFile, Accept, Entries, RemoveEntry, AddFunc, Store, Changed,
         NotChanged, GoTo, Places
<1>3. at[t] # "idle" \/ at'[t] # "idle"
  BY DEF Load, Fail, Reading, Fire, ReadFile, GetConfig, Compare, FetchOnce, Probe,
         Get, TakeDirty, FetchFile, Accept, Entries, RemoveEntry, AddFunc, Store, At,
         GoTo, ReloadTypes
<1> QED
  BY <1>1, <1>2, <1>3 DEF ReloadTypes

\* Ticks of the file and ticks of a source keep to their places.
LEMMA PathKept == ASSUME ReloadTypes, PathOK, [Next]_vars PROVE PathOK'
<1>1. ASSUME NEW t \in Ticks, Load(t) \/ Fail(t) PROVE PathOK'
  <2>1. UNCHANGED via /\ \A s \in Ticks \ {t} : at'[s] = at[s]
    BY <1>1, OneTickMoves
  <2>2. /\ at'[t] \in {"read", "parse", "compare", "store"} => via = "LoadCron"
        /\ at'[t] \in {"fetch", "get", "accept"} => via # "LoadCron"
    BY <1>1 DEF Load, Fail, Reading, Fire, ReadFile, GetConfig, Compare, FetchOnce,
            Probe, Get, TakeDirty, FetchFile, Accept, Entries, RemoveEntry, AddFunc,
            Store, Changed, NotChanged, At, GoTo, ReloadTypes, PathOK, Files, Servers,
            Probed
  <2> QED
    BY <2>1, <2>2 DEF PathOK
<1>2. ASSUME NEW v \in Texts, Edit(v) PROVE PathOK'
  BY <1>2 DEF Edit, PathOK
<1>3. CASE watchLoop \/ UNCHANGED vars
  BY <1>3 DEF watchLoop, vars, env, PathOK
<1> QED
  BY <1>1, <1>2, <1>3 DEF Next

\* A load never takes the refresh entry away (Entries, RemoveEntry).
LEMMA LoaderKept == ASSUME ReloadTypes, LoaderStays, [Next]_vars PROVE LoaderStays'
<1> USE DEF LoaderStays
<1>1. ASSUME NEW t \in Ticks, NEW e, RemoveEntry(t, e) PROVE LoaderStays'
  <2>1. e \in Names \X Nat
    BY <1>1 DEF RemoveEntry, ReloadTypes
  <2>2. e # <<Refresh, 0>>
    BY <2>1, ReloadAssumption
  <2> QED
    BY <1>1, <2>2 DEF RemoveEntry
<1>2. ASSUME NEW t \in Ticks, NEW n \in Names, AddFunc(t, n) PROVE LoaderStays'
  BY <1>2 DEF AddFunc
<1>3. ASSUME NEW t \in Ticks, Load(t) \/ Fail(t),
             \A e : ~RemoveEntry(t, e), \A n \in Names : ~AddFunc(t, n)
      PROVE  UNCHANGED entries
  BY <1>3 DEF Load, Fail, Fire, ReadFile, GetConfig, Compare, FetchOnce, Probe, Get,
          TakeDirty, FetchFile, Accept, Entries, Store, Elsewhere
<1>4. ASSUME NEW v \in Texts, Edit(v) PROVE LoaderStays'
  BY <1>4 DEF Edit
<1>5. CASE watchLoop \/ UNCHANGED vars
  BY <1>5 DEF watchLoop, vars
<1> QED
  BY <1>1, <1>2, <1>3, <1>4, <1>5 DEF Next

\* An edit keeps its trace until a tick reads the file (TakeDirty, FetchFile).
LEMMA TraceKept == ASSUME ReloadTypes, NoEditMissed, [Next]_vars PROVE NoEditMissed'
<1>1. ASSUME NEW t \in Ticks, Load(t) \/ Fail(t) PROVE NoEditMissed'
  <2> SUFFICES ASSUME via = "file"
               PROVE  cached' = text \/ dirty' \/ notice
                      \/ \E s \in Ticks : at'[s] = "get"
    BY <1>1, OneTickMoves DEF NoEditMissed
  <2>1. \A s \in Ticks \ {t} : at'[s] = at[s]
    BY <1>1, OneTickMoves
  <2>2. CASE FetchFile(t)
    BY <2>2 DEF FetchFile, Tag, Files
  <2>3. CASE TakeDirty(t)
    <3>1. CASE at'[t] = "get"
      BY <3>1
    <3>2. CASE at'[t] # "get"
      <4>1. ~dirty /\ cached' = cached /\ at[t] # "get"
        BY <2>3, <3>2 DEF TakeDirty, GoTo, At, ReloadTypes
      <4> QED
        BY <2>1, <4>1 DEF NoEditMissed
    <3> QED
      BY <3>1, <3>2
  <2>4. CASE Fail(t)
    BY <2>4 DEF Fail, Files
  <2>5. CASE Load(t) /\ ~FetchFile(t) /\ ~TakeDirty(t)
    <3>1. cached' = cached /\ dirty' = dirty
      BY <2>5 DEF Load, Fire, ReadFile, GetConfig, Compare, FetchOnce, Probe, Get,
              Accept, Entries, RemoveEntry, AddFunc, Store, watch
    <3>2. at[t] # "get" \/ at'[t] = "get"
      BY <2>5 DEF Load, Fire, ReadFile, GetConfig, Compare, FetchOnce, Probe, Get,
              Accept, Entries, RemoveEntry, AddFunc, Store, At, Probed
    <3> QED
      BY <2>1, <3>1, <3>2 DEF NoEditMissed
  <2> QED
    BY <1>1, <2>2, <2>3, <2>4, <2>5
<1>2. ASSUME NEW v \in Texts, Edit(v) PROVE NoEditMissed'
  BY <1>2 DEF Edit, NoEditMissed
<1>3. CASE watchLoop \/ UNCHANGED vars
  BY <1>3 DEF watchLoop, vars, watch, env, NoEditMissed
<1> QED
  BY <1>1, <1>2, <1>3 DEF Next

\* The state after the synchronous first load.
LEMMA ReloadInit == Init => Watched /\ Ordered
<1> SUFFICES ASSUME Init PROVE Watched /\ Ordered
  OBVIOUS
<1> USE ReloadAssumption
<1>1. ReloadTypes
  <2>1. Tag \in Etags
    BY DEF Init, Tag, Etags, Files, Servers, Probed
  <2> QED
    BY <2>1 DEF Init, ReloadTypes, Places
<1>2. PathOK /\ LoaderStays
  BY DEF Init, PathOK, LoaderStays
<1>3. NoEditMissed
  BY DEF Init, NoEditMissed, Tag, Files
<1>4. LoadCronOK /\ LoadIntoOK /\ ReplaceOK
  BY DEF Init, LoadCronOK, LoadIntoOK, ReplaceOK
<1>5. EntriesOK
  <2>1. Registrable(conf) = Scheduled[text] /\ Scheduled[text] \subseteq Names
    BY DEF Init, Registrable
  <2>2. ~lost => Dynamic = EntriesOf(Scheduled[text], 0)
    BY <2>1 DEF Init, Dynamic, EntriesOf
  <2>3. Unloaded <=> lost
    BY DEF Init, Unloaded
  <2> QED
    BY <2>1, <2>2, <2>3 DEF EntriesOK
<1>6. HashOK
  BY DEF Init, HashOK, Tag, Files
<1>7. VersionOK
  BY DEF Init, VersionOK, Tag, Files
<1> QED
  BY <1>1, <1>2, <1>3, <1>4, <1>5, <1>6, <1>7 DEF Watched, Ordered

\* The tick that moves is the only one under way.
LEMMA Alone ==
    ASSUME ReloadTypes, NoOverlap, NoOverlap', NEW t \in Ticks, Load(t) \/ Fail(t)
    PROVE  \A s \in Ticks \ {t} : at[s] = "idle" /\ at'[s] = "idle"
  BY OneTickMoves DEF NoOverlap

\* What a step of t does, by the variables that the invariants below name.
\* Anything else than RemoveEntry, AddFunc and Entries leaves the replacement alone.
LEMMA Outside ==
    ASSUME NEW t \in Ticks, Load(t) \/ Fail(t)
    PROVE  \/ Entries(t) \/ (\E e : RemoveEntry(t, e)) \/ (\E n \in Names : AddFunc(t, n))
           \/ /\ UNCHANGED <<entries, removing, adding, load, alive>>
              /\ alive
  BY DEF Load, Fail, Reading, Fire, ReadFile, GetConfig, Compare, FetchOnce, Probe, Get,
         TakeDirty, FetchFile, Accept, Store, Elsewhere, At, tick

\* The texts of LoadCron stay together.
LEMMA LoadCronKept ==
    ASSUME ReloadTypes, PathOK, LoadCronOK, NoOverlap, NoOverlap',
           NEW t \in Ticks, Load(t) \/ Fail(t)
    PROVE  LoadCronOK'
<1> SUFFICES ASSUME via = "LoadCron", ~torn'
             PROVE  /\ lastRaw' = conf'
                    /\ at'[t] \in {"compare", "store", "entries", "replace"} =>
                          parsed'[t] = raw'[t]
                    /\ at'[t] = "store" => raw'[t] = lastRaw'
  BY OneTickMoves, Alone DEF LoadCronOK
<1> USE DEF ReloadTypes
<1>1. at[t] \notin {"fetch", "get", "accept"}
  BY DEF PathOK
<1>2. torn' = torn \/ GetConfig(t)
  BY DEF Load, Fail, Fire, ReadFile, Compare, FetchOnce, Probe, Get, TakeDirty,
         FetchFile, Accept, Entries, RemoveEntry, AddFunc, Store, Elsewhere
<1>3. CASE GetConfig(t)
  <2>1. ~torn
    BY <1>3 DEF GetConfig
  <2> QED
    BY <1>3, <2>1 DEF GetConfig, GoTo, recent, LoadCronOK
<1>4. CASE ~GetConfig(t)
  <2>1. /\ lastRaw = conf
        /\ at[t] \in {"compare", "store", "entries", "replace"} => parsed[t] = raw[t]
        /\ at[t] = "store" => raw[t] = lastRaw
    BY <1>2, <1>4 DEF LoadCronOK
  <2> QED
    BY <1>1, <1>4, <2>1 DEF Load, Fail, Fire, ReadFile, Compare, FetchOnce, Probe, Get,
            TakeDirty, FetchFile, Accept, Entries, RemoveEntry, AddFunc, Store, At, GoTo,
            recent, tick
<1> QED
  BY <1>3, <1>4

\* The texts of loadInto stay together.
LEMMA LoadIntoKept ==
    ASSUME ReloadTypes, PathOK, LoadIntoOK, NoOverlap, NoOverlap',
           NEW t \in Ticks, Load(t) \/ Fail(t)
    PROVE  LoadIntoOK'
<1> SUFFICES ASSUME via # "LoadCron"
             PROVE  /\ ~torn'
                    /\ at'[t] \in {"entries", "replace"} => lastRaw' = parsed'[t]
                    /\ at'[t] \in {"fetch", "get", "accept"} => raw'[t] = lastRaw'
                    /\ at'[t] \notin {"entries", "replace"} => conf' = lastRaw'
  BY OneTickMoves, Alone DEF LoadIntoOK
<1> USE DEF ReloadTypes
<1>1. at[t] \notin {"read", "parse", "compare", "store"}
  BY DEF PathOK
<1>2. /\ ~torn
      /\ at[t] \in {"entries", "replace"} => lastRaw = parsed[t]
      /\ at[t] \in {"fetch", "get", "accept"} => raw[t] = lastRaw
      /\ at[t] \notin {"entries", "replace"} => conf = lastRaw
  BY Alone DEF LoadIntoOK
<1>3. CASE FetchOnce(t) \/ Probe(t) \/ Get(t) \/ TakeDirty(t) \/ FetchFile(t)
  <2>1. at[t] \in {"fetch", "get"} /\ at'[t] \in {"idle", "get", "accept"}
    BY <1>3 DEF FetchOnce, Probe, Get, TakeDirty, FetchFile, Changed, NotChanged, At, GoTo
  <2>2. UNCHANGED <<conf, lastRaw, raw, torn>>
    BY <1>3 DEF FetchOnce, Probe, Get, TakeDirty, FetchFile, Elsewhere
  <2> QED
    BY <1>2, <2>1, <2>2
<1>4. CASE Fire(t) \/ Fail(t) \/ Accept(t) \/ Store(t) \/ Entries(t)
  BY <1>1, <1>2, <1>4 DEF Fire, Fail, Reading, Accept, Store, Entries, At, GoTo, recent,
          tick
<1>5. CASE (\E e : RemoveEntry(t, e)) \/ (\E n \in Names : AddFunc(t, n))
  BY <1>1, <1>2, <1>5 DEF RemoveEntry, AddFunc, At, recent
<1>6. ~ReadFile(t) /\ ~GetConfig(t) /\ ~Compare(t)
  BY <1>1 DEF ReadFile, GetConfig, Compare, At
<1> QED
  BY <1>3, <1>4, <1>5, <1>6 DEF Load

\* The replacement takes away what it listed and adds each schedule once
\* (Entries, RemoveEntry, AddFunc).
LEMMA ReplaceKept ==
    ASSUME ReloadTypes, ReplaceOK, NoOverlap, NoOverlap',
           NEW t \in Ticks, Load(t) \/ Fail(t)
    PROVE  ReplaceOK'
<1> DEFINE Added(a) == EntriesOf(Registrable(parsed[t]) \ a, load[t])
<1> SUFFICES ASSUME alive', at'[t] = "replace"
             PROVE  /\ adding'[t] \subseteq Scheduled[parsed'[t]]
                    /\ removing'[t] # {} => adding'[t] = Scheduled[parsed'[t]]
                    /\ Dynamic' = removing'[t] \union
                         EntriesOf(Registrable(parsed'[t]) \ adding'[t], load'[t])
  BY Alone DEF ReplaceOK, EntriesOf, Registrable
<1> USE DEF ReloadTypes
<1>1. CASE Entries(t)
  <2>1. /\ parsed' = parsed /\ entries' = entries
        /\ removing'[t] = Dynamic /\ adding'[t] = Scheduled[parsed[t]]
    BY <1>1 DEF Entries
  <2>2. EntriesOf(Registrable(parsed[t]) \ Scheduled[parsed[t]], load'[t]) = {}
    BY DEF EntriesOf, Registrable
  <2>3. Dynamic' = Dynamic
    BY <2>1 DEF Dynamic
  <2> QED
    BY <2>1, <2>2, <2>3
<1>2. ASSUME at[t] = "replace", alive, parsed' = parsed, load' = load
      PROVE  /\ adding[t] \subseteq Scheduled[parsed[t]]
             /\ removing[t] # {} => adding[t] = Scheduled[parsed[t]]
             /\ Dynamic = removing[t] \union Added(adding[t])
             /\ EntriesOf(Registrable(parsed'[t]) \ adding'[t], load'[t])
                  = Added(adding'[t])
  BY <1>2 DEF ReplaceOK
<1>3. ASSUME NEW e, RemoveEntry(t, e)
      PROVE  /\ adding'[t] \subseteq Scheduled[parsed'[t]]
             /\ removing'[t] # {} => adding'[t] = Scheduled[parsed'[t]]
             /\ Dynamic' = removing'[t] \union
                  EntriesOf(Registrable(parsed'[t]) \ adding'[t], load'[t])
  <2>1. /\ at[t] = "replace" /\ alive /\ parsed' = parsed /\ load' = load
        /\ e \in removing[t] /\ adding' = adding
        /\ removing'[t] = removing[t] \ {e} /\ entries' = entries \ {e}
    BY <1>3 DEF RemoveEntry, At
  <2>2. Dynamic' = Dynamic \ {e}
    BY <2>1 DEF Dynamic
  <2>3. Registrable(parsed[t]) \ adding[t] = {}
    BY <1>2, <2>1 DEF Registrable
  <2>4. Added(adding[t]) = {}
    BY <2>3 DEF EntriesOf
  <2> QED
    BY <1>2, <2>1, <2>2, <2>4
<1>4. ASSUME NEW n \in Names, AddFunc(t, n)
      PROVE  /\ adding'[t] \subseteq Scheduled[parsed'[t]]
             /\ removing'[t] # {} => adding'[t] = Scheduled[parsed'[t]]
             /\ Dynamic' = removing'[t] \union
                  EntriesOf(Registrable(parsed'[t]) \ adding'[t], load'[t])
  <2>1. /\ at[t] = "replace" /\ alive /\ parsed' = parsed /\ load' = load
        /\ removing[t] = {} /\ removing' = removing /\ n \in adding[t]
        /\ adding'[t] = adding[t] \ {n}
        /\ entries' = IF n \in Invalid THEN entries
                                        ELSE entries \union {<<n, load[t]>>}
    BY <1>4 DEF AddFunc, At
  <2>2. n \in Scheduled[parsed[t]] /\ n # Refresh
    BY <1>2, <2>1, ReloadAssumption
  <2>3. CASE n \in Invalid
    <3>1. Dynamic' = Dynamic
      BY <2>1, <2>3 DEF Dynamic
    <3>2. Registrable(parsed[t]) \ adding'[t] = Registrable(parsed[t]) \ adding[t]
      BY <2>1, <2>3 DEF Registrable
    <3> QED
      BY <1>2, <2>1, <3>1, <3>2
  <2>4. CASE n \notin Invalid
    <3>1. Dynamic' = Dynamic \union {<<n, load[t]>>}
      BY <2>1, <2>2, <2>4 DEF Dynamic
    <3>2. Registrable(parsed[t]) \ adding'[t]
            = (Registrable(parsed[t]) \ adding[t]) \union {n}
      BY <2>1, <2>2, <2>4 DEF Registrable
    <3>3. Added(adding'[t]) = Added(adding[t]) \union {<<n, load[t]>>}
      BY <3>2 DEF EntriesOf
    <3> QED
      BY <1>2, <2>1, <3>1, <3>3
  <2> QED
    BY <2>3, <2>4
<1>5. CASE ~Entries(t) /\ (\A e : ~RemoveEntry(t, e)) /\ (\A n \in Names : ~AddFunc(t, n))
  <2>1. at'[t] # "replace"
    BY <1>5 DEF Load, Fail, Fire, ReadFile, GetConfig, Compare, FetchOnce, Probe, Get,
            TakeDirty, FetchFile, Accept, Store, Changed, NotChanged, GoTo
  <2> QED
    BY <2>1
<1> QED
  BY <1>1, <1>3, <1>4, <1>5

\* The entries stay those of the config in force, or become those of the one
\* that a tick has just put in force (Store).
LEMMA EntriesStay ==
    ASSUME ReloadTypes, PathOK, LoadCronOK, EntriesOK, ReplaceOK, NoOverlap, NoOverlap',
           NEW t \in Ticks, Load(t) \/ Fail(t)
    PROVE  EntriesOK'
<1> SUFFICES ASSUME alive', ~torn', ~Unloaded', at'[t] # "replace"
             PROVE  \E i \in Nat : Dynamic' = EntriesOf(Registrable(conf'), i)
  BY DEF EntriesOK, EntriesOf, Registrable
<1> USE DEF ReloadTypes
<1>1. ~Entries(t) /\ (\A e : ~RemoveEntry(t, e)) /\ (\A n \in Names : ~AddFunc(t, n))
  BY DEF Entries, RemoveEntry, AddFunc, At, GoTo
<1>2. /\ UNCHANGED <<entries, removing, adding, load, alive>>
      /\ alive
  BY <1>1, Outside
<1>3. ~torn /\ ~Unloaded
  <2>1. ~torn
    BY <1>1 DEF Load, Fail, Fire, ReadFile, GetConfig, Compare, FetchOnce, Probe, Get,
            TakeDirty, FetchFile, Accept, Store, Elsewhere
  <2>2. UNCHANGED <<lost, loads>>
    BY <1>1 DEF Load, Fail, Fire, ReadFile, GetConfig, Compare, FetchOnce, Probe, Get,
            TakeDirty, FetchFile, Accept, Store, Elsewhere, env
  <2> QED
    BY <2>1, <2>2 DEF Unloaded
<1>4. Dynamic' = Dynamic
  BY <1>2 DEF Dynamic
<1>5. CASE at[t] = "replace"
  <2>1. Store(t)
    BY <1>1, <1>5 DEF Load, Fail, Reading, Fire, ReadFile, GetConfig, Compare, FetchOnce,
            Probe, Get, TakeDirty, FetchFile, Accept, At
  <2>2. conf' = parsed[t] /\ removing[t] = {} /\ adding[t] = {}
    BY <1>5, <2>1 DEF Store, At
  <2>3. Dynamic = removing[t]
                    \union EntriesOf(Registrable(parsed[t]) \ adding[t], load[t])
    BY <1>2, <1>5 DEF ReplaceOK
  <2>4. Registrable(parsed[t]) \ adding[t] = Registrable(conf')
    BY <2>2
  <2>5. Dynamic = EntriesOf(Registrable(conf'), load[t])
    BY <2>2, <2>3, <2>4
  <2> QED
    BY <1>4, <2>5
<1>6. CASE at[t] # "replace"
  <2>1. PICK i \in Nat : Dynamic = EntriesOf(Registrable(conf), i)
    BY <1>2, <1>3, <1>6, Alone DEF EntriesOK
  <2>2. conf' = conf
    <3>1. CASE Store(t)
      BY <1>3, <1>6, <3>1 DEF Store, At, PathOK, LoadCronOK
    <3>2. CASE ~Store(t)
      BY <1>1, <3>2 DEF Load, Fail, Fire, ReadFile, GetConfig, Compare, FetchOnce,
              Probe, Get, TakeDirty, FetchFile, Accept, Elsewhere, recent
    <3> QED
      BY <3>1, <3>2
  <2> QED
    BY <1>4, <2>1, <2>2
<1> QED
  BY <1>5, <1>6

\* The hash on record stays that of the text on record, whichever request it
\* came with (Changed, Accept).
LEMMA HashKept ==
    ASSUME ReloadTypes, LoadIntoOK, HashOK, NoOverlap, NoOverlap',
           NEW t \in Ticks, Load(t) \/ Fail(t)
    PROVE  HashOK'
<1> SUFFICES ASSUME via \in Files \union {"s3", "hash"}
             PROVE  /\ lastEtag' = lastRaw'
                    /\ at'[t] = "accept" => etag'[t] = parsed'[t]
  BY OneTickMoves, Alone DEF HashOK
<1> USE DEF ReloadTypes
<1>1. Tag = text /\ via \notin {"LoadCron", "http", "version"}
  BY DEF Tag, Files
<1>2. /\ lastEtag = lastRaw
      /\ at[t] = "accept" => etag[t] = parsed[t]
      /\ at[t] \in {"fetch", "get", "accept"} => raw[t] = lastRaw
  BY <1>1 DEF HashOK, LoadIntoOK
<1>3. CASE FetchOnce(t) \/ Probe(t) \/ Get(t) \/ TakeDirty(t) \/ FetchFile(t)
  <2>1. at[t] \in {"fetch", "get"} /\ lastRaw' = lastRaw
    BY <1>3 DEF FetchOnce, Probe, Get, TakeDirty, FetchFile, At, Elsewhere
  <2>2. CASE Changed(t, text)
    BY <1>2, <2>1, <2>2 DEF Changed, GoTo
  <2>3. CASE ~Changed(t, text)
    <3>1. lastEtag' = lastEtag /\ at'[t] # "accept"
      BY <1>1, <1>3, <2>3 DEF FetchOnce, Probe, Get, TakeDirty, FetchFile, NotChanged,
              GoTo, Probed
    <3> QED
      BY <1>2, <2>1, <3>1
  <2> QED
    BY <2>2, <2>3
<1>4. CASE ~(FetchOnce(t) \/ Probe(t) \/ Get(t) \/ TakeDirty(t) \/ FetchFile(t))
  BY <1>1, <1>2, <1>4 DEF Load, Fail, Reading, Fire, ReadFile, GetConfig, Compare, Accept,
          Entries, RemoveEntry, AddFunc, Store, At, GoTo, recent, tick
<1> QED
  BY <1>3, <1>4

\* A version that was read before the text is on record with that text or a
\* later one (Probe, Get, Accept).
LEMMA VersionKept ==
    ASSUME ReloadTypes, LoadIntoOK, VersionOK, NoOverlap, NoOverlap',
           NEW t \in Ticks, Load(t) \/ Fail(t)
    PROVE  VersionOK'
<1> SUFFICES ASSUME via \in {"http", "version"}
             PROVE  /\ lastEtag' \in 0..edits
                    /\ lastEtag' = edits => lastRaw' = text
                    /\ at'[t] \in {"fetch", "get", "accept"} => etag'[t] \in 0..edits
                    /\ at'[t] = "accept" /\ etag'[t] = edits => parsed'[t] = text
  BY OneTickMoves, Alone DEF VersionOK
<1> USE DEF ReloadTypes
<1>1. Tag = edits /\ edits \in 0..edits /\ via # "LoadCron" /\ via \notin Files
  BY DEF Tag, Files
<1>2. /\ lastEtag \in 0..edits
      /\ lastEtag = edits => lastRaw = text
      /\ at[t] \in {"fetch", "get", "accept"} => etag[t] \in 0..edits
      /\ at[t] = "accept" /\ etag[t] = edits => parsed[t] = text
      /\ at[t] \in {"fetch", "get", "accept"} => raw[t] = lastRaw
  BY <1>1 DEF VersionOK, LoadIntoOK
<1>3. CASE FetchOnce(t) \/ Get(t)
  <2>1. at[t] \in {"fetch", "get"} /\ lastRaw' = lastRaw
    BY <1>3 DEF FetchOnce, Get, At, Elsewhere
  <2>2. NotChanged(t) \/ \E e \in {edits, etag[t]} : Changed(t, e)
    BY <1>1, <1>3 DEF FetchOnce, Get
  <2>3. CASE NotChanged(t)
    BY <1>2, <2>1, <2>3 DEF NotChanged, GoTo
  <2>4. ASSUME NEW e \in 0..edits, Changed(t, e)
        PROVE  /\ lastEtag' \in 0..edits
               /\ lastEtag' = edits => lastRaw' = text
               /\ at'[t] \in {"fetch", "get", "accept"} => etag'[t] \in 0..edits
               /\ at'[t] = "accept" /\ etag'[t] = edits => parsed'[t] = text
    BY <1>2, <2>1, <2>4 DEF Changed, GoTo
  <2> QED
    BY <1>1, <1>2, <2>1, <2>2, <2>3, <2>4
<1>4. CASE Probe(t)
  BY <1>1, <1>2, <1>4 DEF Probe, NotChanged, GoTo, Elsewhere
<1>5. ~TakeDirty(t) /\ ~FetchFile(t)
  BY <1>1 DEF TakeDirty, FetchFile
<1>6. CASE ~(FetchOnce(t) \/ Probe(t) \/ Get(t) \/ TakeDirty(t) \/ FetchFile(t))
  BY <1>1, <1>2, <1>6 DEF Load, Fail, Reading, Fire, ReadFile, GetConfig, Compare, Accept,
          Entries, RemoveEntry, AddFunc, Store, At, GoTo, recent, tick
<1> QED
  BY <1>3, <1>4, <1>5, <1>6

\* Steps outside the ticks: an edit makes every version on record an old one.
LEMMA OthersKeep ==
    ASSUME ReloadTypes, Ordered, (\E v \in Texts : Edit(v)) \/ watchLoop \/ UNCHANGED vars
    PROVE  Ordered'
<1>1. UNCHANGED <<via, lost, entries, loads, recent, at, tick, alive, failures, torn>>
  BY DEF Edit, watchLoop, vars, env
<1>2. LoadCronOK' /\ LoadIntoOK' /\ EntriesOK' /\ ReplaceOK' /\ HashOK'
  BY <1>1 DEF recent, tick, Ordered, LoadCronOK, LoadIntoOK, EntriesOK, ReplaceOK, HashOK,
          Dynamic, EntriesOf, Registrable, Unloaded
<1>3. (text' = text /\ edits' = edits) \/ edits' = edits + 1
  BY DEF Edit, watchLoop, vars, env
<1>4. VersionOK'
  BY <1>1, <1>3 DEF recent, tick, Ordered, VersionOK, ReloadTypes
<1> QED
  BY <1>2, <1>4 DEF Ordered

-----------------------------------------------------------------------------

\* The invariant of any ticks.
LEMMA WatchedInvariance == Spec => []Watched
<1>1. Watched /\ [Next]_vars => Watched'
  BY TypesKept, PathKept, LoaderKept, TraceKept DEF Watched
<1> QED
  BY <1>1, ReloadInit, PTL DEF Spec

\* The invariant of ticks that do not overlap.
LEMMA OrderedInvariance == Spec /\ []NoOverlap => []Ordered
<1>1. ASSUME Watched, Ordered, NoOverlap, NoOverlap', [Next]_vars PROVE Ordered'
  <2>1. ASSUME NEW t \in Ticks, Load(t) \/ Fail(t) PROVE Ordered'
    BY <1>1, <2>1, LoadCronKept, LoadIntoKept, EntriesStay, ReplaceKept, HashKept,
       VersionKept DEF Watched, Ordered
  <2> QED
    BY <1>1, <2>1, OthersKeep DEF Watched, Next
<1> QED
  BY <1>1, ReloadInit, WatchedInvariance, PTL DEF Spec

\* The entries of one load are as many as its schedules.
LEMMA OneEntryEach ==
    ASSUME ReloadTypes, NEW v \in Texts, NEW i \in Nat,
           Dynamic = EntriesOf(Registrable(v), i)
    PROVE  Registered(v)
<1> DEFINE S == Registrable(v)
           f == [n \in S |-> <<n, i>>]
<1>1. IsFiniteSet(S)
  <2>1. S \subseteq Names
    BY ReloadAssumption DEF Registrable
  <2> QED
    BY <2>1, ReloadAssumption, FS_Subset
<1>2. f \in Bijection(S, Dynamic)
  <2>1. f \in [S -> Dynamic]
    BY DEF EntriesOf
  <2>2. IsInjective(f)
    BY DEF IsInjective
  <2>3. ASSUME NEW e \in Dynamic PROVE \E n \in S : f[n] = e
    BY DEF EntriesOf
  <2> QED
    BY <2>1, <2>2, <2>3 DEF Bijection, Injection, Surjection
<1>3. Cardinality(Dynamic) = Cardinality(S)
  <2>1. ExistsBijection(S, Dynamic)
    BY <1>2 DEF ExistsBijection
  <2> QED
    BY <1>1, <2>1, FS_Bijection
<1>4. ASSUME NEW e \in Dynamic PROVE e[1] \in S
  BY DEF EntriesOf
<1>5. ASSUME NEW n \in S PROVE \E e \in Dynamic : e[1] = n
  <2>1. <<n, i>> \in Dynamic /\ <<n, i>>[1] = n
    BY DEF EntriesOf
  <2> QED
    BY <2>1
<1>6. {e[1] : e \in Dynamic} = S
  BY <1>4, <1>5
<1> QED
  BY <1>3, <1>6 DEF Registered

\* Whatever is loaded, and by however many ticks at once, the entry that does
\* the loading is never removed (Entries skips the static entries).
THEOREM LoaderIsNeverRemoved == Spec => []LoaderStays
<1>1. Watched => LoaderStays
  BY DEF Watched
<1> QED
  BY <1>1, WatchedInvariance, PTL

\* No edit of a watched file is lost, wherever it falls among the ticks and
\* whichever reads fail (FileSource.Fetch, watchLoop).
THEOREM EditsLeaveATrace == Spec => []NoEditMissed
<1>1. Watched => NoEditMissed
  BY DEF Watched
<1> QED
  BY <1>1, WatchedInvariance, PTL

\* Between loads that do not overlap the scheduler runs exactly the schedules
\* of the config in force, each once (LoadCron, loadInto).
THEOREM EntriesFollowTheConfig == Spec /\ []NoOverlap => []EntriesAreTheConfig
<1>1. Watched /\ Ordered => EntriesAreTheConfig
  BY OneEntryEach DEF Watched, Ordered, ReloadTypes, EntriesOK, EntriesAreTheConfig
<1> QED
  BY <1>1, WatchedInvariance, OrderedInvariance, PTL

\* So it is wherever one tick is all there is, as in the run config_reload.
THEOREM OneTickKeepsTheConfig ==
    ASSUME \A s, t \in Ticks : s = t
    PROVE  Spec => []EntriesAreTheConfig
<1>1. NoOverlap
  BY DEF NoOverlap
<1> QED
  BY <1>1, EntriesFollowTheConfig, PTL

\* A load that would find nothing new is right: the present text is in force
\* and registered, whatever the source names its content by (fetchAndParse).
THEOREM NothingNewIsCurrent == Spec /\ []NoOverlap => []QuietIsCurrent
<1>1. Watched /\ Ordered => QuietIsCurrent
  <2> SUFFICES ASSUME Watched, Ordered, alive, ~torn, ~Unloaded,
                      \A t \in Ticks : at[t] = "idle", FindsNothingNew
               PROVE  conf = text /\ Registered(text)
    BY DEF QuietIsCurrent
  <2>1. conf = lastRaw
    BY DEF Ordered, LoadCronOK, LoadIntoOK
  <2>2. lastRaw = text
    <3> USE DEF FindsNothingNew, Ordered
    <3>1. CASE via \in {"LoadCron", "plain"}
      BY <3>1 DEF Probed
    <3>2. CASE via = "file"
      BY <3>2 DEF Probed, Watched, NoEditMissed, HashOK, Files
    <3>3. CASE via \in {"s3", "hash"}
      BY <3>3 DEF Tag, Files, HashOK
    <3>4. CASE via \in {"http", "version"}
      BY <3>4 DEF Tag, Files, VersionOK
    <3> QED
      BY <3>1, <3>2, <3>3, <3>4 DEF Probed
  <2>3. Registered(text)
    BY <2>1, <2>2, OneEntryEach DEF Watched, Ordered, ReloadTypes, EntriesOK
  <2> QED
    BY <2>1, <2>2, <2>3
<1> QED
  BY <1>1, WatchedInvariance, OrderedInvariance, PTL

-----------------------------------------------------------------------------
(***************************************************************************)
(* The payloads.                                                           *)
(***************************************************************************)

Payloads == [tasks : SUBSET Tasks, deps : [Tasks -> SUBSET Tasks]]

RowStatuses ==
    {"absent", "queued", "running", "skipped", "succeeded", "failed", "canceled"}

\* The types; the depends lists of the config name tasks of the config.
ChainTypes ==
    /\ graph \in [Tasks -> SUBSET Tasks]
    /\ job \in {"none", "open", "closed"}
    /\ payload \in Payloads
    /\ row \in [Tasks -> RowStatuses]
    /\ first \in Payloads
    /\ through \in SUBSET Tasks

\* No task of p depends on one that p does not have.
Closed(p) == \A t \in p.tasks : p.deps[t] \subseteq p.tasks

\* The rows of the latest run are the tasks of its payload.
RowsOfPayload == \A t \in Tasks : row[t] # "absent" => t \in payload.tasks

\* What was cut off the first run's payload has got through: tasks and
\* dependencies alike.
CutIsThrough ==
    /\ first.tasks \subseteq payload.tasks \union through
    /\ \A t \in payload.tasks :
          first.deps[t] \subseteq payload.deps[t] \union through

\* A running task keeps what it waited for.
StartedReady ==
    \A t \in Tasks :
        row[t] = "running" => payload.deps[t] \subseteq ThroughNow

\* The inductive invariant.
ChainOK ==
    /\ ChainTypes
    /\ NoPhantomDepends
    /\ RowsOfPayload
    /\ CutIsThrough
    /\ StartedReady

-----------------------------------------------------------------------------

\* Cutting any set of tasks out of a payload leaves a payload; it stays
\* closed under dependencies (filterScheduleTasks).
LEMMA FilterIsClosed ==
    ASSUME NEW p \in Payloads, NEW skip
    PROVE  /\ filterScheduleTasks(p, skip) \in Payloads
           /\ Closed(p) => Closed(filterScheduleTasks(p, skip))
<1> DEFINE q == filterScheduleTasks(p, skip)
<1>1. q.tasks = p.tasks \ skip
  BY DEF filterScheduleTasks
<1>2. q.deps = [t \in Tasks |-> IF t \in skip THEN {} ELSE p.deps[t] \ skip]
  BY DEF filterScheduleTasks
<1>3. q \in Payloads
  BY DEF filterScheduleTasks, Payloads
<1>4. ASSUME Closed(p), NEW t \in q.tasks
      PROVE  q.deps[t] \subseteq q.tasks
  <2>1. t \in p.tasks /\ t \notin skip /\ t \in Tasks
    BY <1>1, <1>4 DEF Payloads
  <2>2. q.deps[t] = p.deps[t] \ skip
    BY <1>2, <2>1
  <2>3. p.deps[t] \subseteq p.tasks
    BY <1>4, <2>1 DEF Closed
  <2> QED
    BY <1>1, <2>2, <2>3
<1> QED
  BY <1>3, <1>4 DEF Closed

\* A run that resumes nothing starts from its own payload (Afresh).
LEMMA AfreshStep ==
    ASSUME ChainTypes, NEW p \in Payloads, Closed(p), Afresh(p)
    PROVE  ChainOK'
<1>1. payload' = p /\ first' = p /\ through' = {} /\ graph' = graph /\ job' = "open"
  BY DEF Afresh, Enqueue
<1>2. row' = [t \in Tasks |-> IF t \in p.tasks THEN "queued" ELSE "absent"]
  BY DEF Afresh, Enqueue
<1>3. ChainTypes'
  BY <1>1, <1>2 DEF ChainTypes, RowStatuses
<1>4. NoPhantomDepends'
  BY <1>1 DEF NoPhantomDepends, Closed
<1>5. RowsOfPayload'
  BY <1>1, <1>2 DEF RowsOfPayload
<1>6. CutIsThrough'
  BY <1>1 DEF CutIsThrough
<1>7. StartedReady'
  BY <1>2 DEF StartedReady
<1> QED
  BY <1>3, <1>4, <1>5, <1>6, <1>7 DEF ChainOK

\* Retry-failed cuts off only what got through (RetryFailed).
LEMMA RetryFailedStep ==
    ASSUME ChainOK, RetryFailed
    PROVE  ChainOK'
<1> DEFINE cut == AlreadyDone
           p == filterScheduleTasks(payload, cut)
<1>1. /\ payload' = p /\ first' = first /\ graph' = graph /\ job' = "open"
      /\ through' = through \union ThroughNow
  BY DEF RetryFailed, Enqueue
<1>2. row' = [t \in Tasks |-> IF t \in p.tasks THEN "queued" ELSE "absent"]
  BY DEF RetryFailed, Enqueue
<1>3. cut \subseteq ThroughNow /\ ThroughNow \subseteq Tasks
  BY DEF AlreadyDone, ThroughNow, Done
<1>4. p \in Payloads /\ Closed(p)
  BY FilterIsClosed DEF ChainOK, ChainTypes, NoPhantomDepends, Closed
<1>5. p.tasks = payload.tasks \ cut
  BY DEF filterScheduleTasks
<1>6. ASSUME NEW t \in p.tasks
      PROVE  p.deps[t] = payload.deps[t] \ cut
  <2>1. t \in Tasks /\ t \notin cut
    BY <1>5 DEF ChainOK, ChainTypes, Payloads
  <2>2. p.deps = [u \in Tasks |-> IF u \in cut THEN {} ELSE payload.deps[u] \ cut]
    BY DEF filterScheduleTasks
  <2> QED
    BY <2>1, <2>2
<1> HIDE DEF cut, p
<1>7. ChainTypes'
  BY <1>1, <1>2, <1>3, <1>4 DEF ChainOK, ChainTypes, RowStatuses
<1>8. NoPhantomDepends'
  BY <1>1, <1>4 DEF NoPhantomDepends, Closed
<1>9. RowsOfPayload'
  BY <1>1, <1>2 DEF RowsOfPayload
<1>10. first.tasks \subseteq p.tasks \union (through \union ThroughNow)
  BY <1>3, <1>5 DEF ChainOK, CutIsThrough
<1>11. ASSUME NEW t \in p.tasks
       PROVE  first.deps[t] \subseteq p.deps[t] \union (through \union ThroughNow)
  <2>1. first.deps[t] \subseteq payload.deps[t] \union through
    BY <1>5 DEF ChainOK, CutIsThrough
  <2>2. p.deps[t] = payload.deps[t] \ cut
    BY <1>6
  <2> QED
    BY <2>1, <2>2, <1>3
<1>12. CutIsThrough'
  BY <1>1, <1>10, <1>11 DEF CutIsThrough
<1>13. StartedReady'
  BY <1>2 DEF StartedReady
<1> QED
  BY <1>7, <1>8, <1>9, <1>12, <1>13 DEF ChainOK

\* A row that changes while the payload stays (SetRow): what has got through
\* still has, and a row that starts to run was ready.
LEMMA RowStep ==
    ASSUME ChainOK, NEW t \in Tasks, NEW s \in RowStatuses \ {"absent"},
           row[t] \in {"queued", "running"}, SetRow(t, s),
           s = "running" => payload.deps[t] \subseteq ThroughNow
    PROVE  ChainOK'
<1>1. /\ payload' = payload /\ first' = first /\ through' = through
      /\ graph' = graph /\ job' = job
  BY DEF SetRow
<1>2. row' = [row EXCEPT ![t] = s]
  BY DEF SetRow
<1>3. ChainTypes'
  BY <1>1, <1>2 DEF ChainOK, ChainTypes
<1>4. NoPhantomDepends' /\ CutIsThrough'
  BY <1>1 DEF ChainOK, NoPhantomDepends, CutIsThrough
<1>5. RowsOfPayload'
  BY <1>1, <1>2 DEF ChainOK, ChainTypes, RowsOfPayload
<1>6. ThroughNow \subseteq ThroughNow'
  BY <1>2 DEF ChainOK, ChainTypes, ThroughNow, Done
<1>7. ASSUME NEW u \in Tasks, row'[u] = "running"
      PROVE  payload.deps[u] \subseteq ThroughNow
  <2>1. CASE u = t
    BY <1>2, <1>7, <2>1 DEF ChainOK, ChainTypes
  <2>2. CASE u # t
    BY <1>2, <1>7, <2>2 DEF ChainOK, ChainTypes, StartedReady
  <2> QED
    BY <2>1, <2>2
<1>8. StartedReady'
  BY <1>1, <1>6, <1>7 DEF StartedReady
<1> QED
  BY <1>3, <1>4, <1>5, <1>8 DEF ChainOK

\* A cancel turns rows to canceled, and leaves none running (Cancel).
LEMMA CancelStep ==
    ASSUME ChainOK, Cancel
    PROVE  ChainOK'
<1>1. /\ payload' = payload /\ first' = first /\ through' = through
      /\ graph' = graph /\ job' = "closed"
  BY DEF Cancel
<1>2. row' = [t \in Tasks |->
                IF row[t] \in {"queued", "running", "skipped"} THEN "canceled"
                                                               ELSE row[t]]
  BY DEF Cancel
<1>3. ChainTypes'
  BY <1>1, <1>2 DEF ChainOK, ChainTypes, RowStatuses
<1>4. NoPhantomDepends' /\ CutIsThrough'
  BY <1>1 DEF ChainOK, NoPhantomDepends, CutIsThrough
<1>5. RowsOfPayload'
  BY <1>1, <1>2 DEF ChainOK, RowsOfPayload
<1>6. StartedReady'
  BY <1>2 DEF StartedReady
<1> QED
  BY <1>3, <1>4, <1>5, <1>6 DEF ChainOK

-----------------------------------------------------------------------------

\* The state before the first run.
LEMMA ChainAtFirst ==
    ASSUME ChainInit
    PROVE  ChainOK
<1> USE DEF ChainInit, Empty
<1>1. ChainTypes
  BY ChainAssumption DEF ChainTypes, Payloads, RowStatuses
<1>2. NoPhantomDepends /\ RowsOfPayload /\ CutIsThrough /\ StartedReady
  BY DEF NoPhantomDepends, RowsOfPayload, CutIsThrough, StartedReady
<1> QED
  BY <1>1, <1>2 DEF ChainOK

\* Every step keeps the invariant.
LEMMA ChainKept ==
    ASSUME ChainOK, [ChainNext]_chainVars
    PROVE  ChainOK'
<1>1. ChainTypes /\ payload \in Payloads /\ Closed(payload)
  BY DEF ChainOK, ChainTypes, NoPhantomDepends, Closed
<1>2. Live \in Payloads /\ Closed(Live)
  BY DEF ChainOK, ChainTypes, Live, Payloads, Closed
<1>3. CASE triggerSchedule
  BY <1>1, <1>2, <1>3, AfreshStep DEF triggerSchedule
<1>4. CASE Retry
  BY <1>1, <1>4, AfreshStep DEF Retry
<1>5. CASE RetryFailed
  BY <1>5, RetryFailedStep
<1>6. CASE Complete
  BY <1>6 DEF Complete, ChainOK, ChainTypes, NoPhantomDepends, RowsOfPayload,
              CutIsThrough, StartedReady, ThroughNow
<1>7. CASE Cancel
  BY <1>7, CancelStep
<1>8. ASSUME NEW t \in Tasks, triggerTask(t) PROVE ChainOK'
  <2> DEFINE p == [Empty EXCEPT !.tasks = {t}]
  <2>1. p \in Payloads /\ Closed(p)
    BY DEF Empty, Payloads, Closed
  <2> QED
    BY <1>1, <1>8, <2>1, AfreshStep DEF triggerTask
<1>9. ASSUME NEW t \in Tasks, triggerSubgraph(t) PROVE ChainOK'
  <2> DEFINE p == filterScheduleTasks(Live, Tasks \ Keep(t))
  <2>1. p \in Payloads /\ Closed(p)
    BY <1>2, FilterIsClosed
  <2> QED
    BY <1>1, <1>9, <2>1, AfreshStep DEF triggerSubgraph
<1>10. ASSUME NEW t \in Tasks, RetryTask(t) PROVE ChainOK'
  <2> DEFINE skip == buildSkipFromKeep(payload, Keep(t))
             p == filterScheduleTasks(payload, skip)
  <2>1. p \in Payloads /\ Closed(p)
    BY <1>1, FilterIsClosed
  <2> QED
    BY <1>1, <1>10, <2>1, AfreshStep DEF RetryTask
<1>11. ASSUME NEW t \in Tasks, TaskStart(t) PROVE ChainOK'
  BY <1>11, RowStep DEF TaskStart, Ready, RowStatuses
<1>12. ASSUME NEW t \in Tasks, TaskSkipped(t) PROVE ChainOK'
  BY <1>12, RowStep DEF TaskSkipped, Ready, RowStatuses
<1>13. ASSUME NEW t \in Tasks, NEW ok \in BOOLEAN, TaskTerminal(t, ok)
       PROVE  ChainOK'
  <2>1. row[t] = "running"
    BY <1>13 DEF TaskTerminal
  <2>2. CASE ok
    <3>1. SetRow(t, "succeeded")
      BY <1>13, <2>2 DEF TaskTerminal
    <3> QED
      BY <2>1, <3>1, RowStep DEF RowStatuses
  <2>3. CASE ~ok
    <3>1. SetRow(t, "failed")
      BY <1>13, <2>3 DEF TaskTerminal
    <3> QED
      BY <2>1, <3>1, RowStep DEF RowStatuses
  <2> QED
    BY <2>2, <2>3
<1>14. ASSUME NEW g \in Graphs, EditDepends(g) PROVE ChainOK'
  BY <1>14, ChainAssumption
     DEF EditDepends, ChainOK, ChainTypes, NoPhantomDepends, RowsOfPayload,
         CutIsThrough, StartedReady, ThroughNow
<1>15. CASE UNCHANGED chainVars
  BY <1>15 DEF chainVars, ChainOK, ChainTypes, NoPhantomDepends, RowsOfPayload,
               CutIsThrough, StartedReady, ThroughNow
<1> QED
  BY <1>3, <1>4, <1>5, <1>6, <1>7, <1>8, <1>9, <1>10, <1>11, <1>12, <1>13,
     <1>14, <1>15 DEF ChainNext

\* The invariant holds in every state of every line of descent.
THEOREM ChainInvariance == ChainSpec => []ChainOK
<1> QED
  BY ChainAtFirst, ChainKept, PTL DEF ChainSpec

\* The walk gets through every payload, whichever verbs built it and whatever
\* the config said meanwhile (filterScheduleTasks).
THEOREM PayloadsAreClosed == ChainSpec => []NoPhantomDepends
<1>1. ChainOK => NoPhantomDepends
  BY DEF ChainOK
<1> QED
  BY <1>1, ChainInvariance, PTL

\* Retry-failed keeps the order of the first run's DAG over any number of
\* generations (RetryFailed).
THEOREM ResumptionKeepsOrder == ChainSpec => []ResumedInOrder
<1>1. ChainOK => ResumedInOrder
  <2> SUFFICES ASSUME ChainOK, NEW t \in Tasks, row[t] = "running"
               PROVE  first.deps[t] \subseteq through \union ThroughNow
    BY DEF ResumedInOrder
  <2>1. t \in payload.tasks
    BY DEF ChainOK, RowsOfPayload
  <2>2. first.deps[t] \subseteq payload.deps[t] \union through
    BY <2>1 DEF ChainOK, CutIsThrough
  <2>3. payload.deps[t] \subseteq ThroughNow
    BY DEF ChainOK, StartedReady
  <2> QED
    BY <2>2, <2>3
<1> QED
  BY <1>1, ChainInvariance, PTL

\* Retry-failed leaves no task of the first run out (RetryFailed).
THEOREM ResumptionIsComplete == ChainSpec => []ResumedCompletes
<1>1. ChainOK => ResumedCompletes
  BY DEF ChainOK, CutIsThrough, ResumedCompletes
<1> QED
  BY <1>1, ChainInvariance, PTL

-----------------------------------------------------------------------------
(***************************************************************************)
(* The search for the tasks downstream of one (downstreamTasks): it ends,  *)
(* and it finds them all and no other, for any graph and any order.        *)
(***************************************************************************)

\* A set of numbers has a least one.
LEMMA LeastNumber ==
    ASSUME NEW N \in SUBSET Nat, N # {}
    PROVE  \E m \in N : \A k \in N : m <= k
<1> DEFINE R == OpToRel(<, Nat)
<1>1. IsWellFoundedOn(R, Nat)
  BY NatLessThanWellFounded
<1>2. \A j, k \in Nat : <<j, k>> \in R <=> j < k
  BY DEF OpToRel
<1> HIDE DEF R
<1>3. \E m \in N : \A k \in N : ~ (<<k, m>> \in R)
  BY <1>1, WFMin
<1>4. PICK m \in N : \A k \in N : ~ (<<k, m>> \in R)
  BY <1>3
<1>5. ASSUME NEW k \in N PROVE m <= k
  <2>1. k \in Nat /\ m \in Nat
    OBVIOUS
  <2>2. ~ (k < m)
    BY <1>2, <1>4, <2>1
  <2> QED
    BY <2>1, <2>2
<1> QED
  BY <1>5

\* What the three kinds of turns of the search do.
LEMMA Turns ==
    ASSUME NEW s \in SearchStates, s.queue # << >>
    PROVE  /\ SearchStep(s) \in SearchStates
           /\ \/ /\ s.next = Len(Order) + 1
                 /\ SearchStep(s) = [s EXCEPT !.queue = Tail(s.queue), !.next = 1]
              \/ /\ s.next \in 1..Len(Order)
                 /\ Head(s.queue) \in graph[Order[s.next]]
                 /\ Order[s.next] \notin s.seen
                 /\ SearchStep(s) = [queue |-> Append(s.queue, Order[s.next]),
                                     seen  |-> s.seen \union {Order[s.next]},
                                     out   |-> Append(s.out, Order[s.next]),
                                     next  |-> s.next + 1]
              \/ /\ s.next \in 1..Len(Order)
                 /\ Head(s.queue) \in graph[Order[s.next]] => Order[s.next] \in s.seen
                 /\ SearchStep(s) = [s EXCEPT !.next = s.next + 1]
<1> DEFINE q == s.queue
           child == Order[s.next]
<1>1. Order \in Seq(Tasks) /\ Len(Order) \in Nat
  BY ChainAssumption
<1>2. /\ s = [queue |-> q, seen |-> s.seen, out |-> s.out, next |-> s.next]
      /\ q \in Seq(Tasks) /\ s.out \in Seq(Tasks)
      /\ s.seen \in SUBSET Tasks
      /\ s.next \in 1..Len(Order) + 1
  BY DEF SearchStates
<1>3. CASE s.next > Len(Order)
  <2>1. s.next = Len(Order) + 1
    BY <1>1, <1>2, <1>3
  <2>2. SearchStep(s) = [s EXCEPT !.queue = Tail(q), !.next = 1]
    BY <1>3 DEF SearchStep
  <2>3. Tail(q) \in Seq(Tasks) /\ 1 \in 1..Len(Order) + 1
    BY <1>1, <1>2
  <2>4. SearchStep(s) \in SearchStates
    BY <1>2, <2>2, <2>3 DEF SearchStates
  <2> QED
    BY <2>1, <2>2, <2>4
<1>4. CASE s.next <= Len(Order)
  <2>1. /\ s.next \in 1..Len(Order) /\ ~(s.next > Len(Order))
        /\ s.next + 1 \in 1..Len(Order) + 1
    BY <1>1, <1>2, <1>4
  <2>2. child \in Tasks
    BY <1>1, <2>1
  <2>3. CASE Head(q) \in graph[child] /\ child \notin s.seen
    <3>1. SearchStep(s) = [queue |-> Append(q, child),
                           seen  |-> s.seen \union {child},
                           out   |-> Append(s.out, child),
                           next  |-> s.next + 1]
      BY <2>1, <2>3 DEF SearchStep
    <3>2. SearchStep(s) \in SearchStates
      BY <1>2, <2>1, <2>2, <3>1 DEF SearchStates
    <3> QED
      BY <2>1, <2>3, <3>1, <3>2
  <2>4. CASE ~(Head(q) \in graph[child] /\ child \notin s.seen)
    <3>1. SearchStep(s) = [s EXCEPT !.next = s.next + 1]
      BY <2>1, <2>4 DEF SearchStep
    <3>2. SearchStep(s) \in SearchStates
      BY <1>2, <2>1, <3>1 DEF SearchStates
    <3> QED
      BY <2>1, <2>4, <3>1, <3>2
  <2> QED
    BY <2>3, <2>4
<1> QED
  BY <1>1, <1>2, <1>3, <1>4

\* The outcomes that the search may have from a state: the least relation that
\* has the output of a state without a queue, and for any other state what the
\* next one has.
ClosedUnderTurns(R) ==
    \A s \in SearchStates, o \in Seq(Tasks) :
        /\ s.queue = << >> /\ o = s.out => <<s, o>> \in R
        /\ s.queue # << >> /\ <<SearchStep(s), o>> \in R => <<s, o>> \in R

Outcomes == {p \in SearchStates \X Seq(Tasks) :
               \A R \in SUBSET (SearchStates \X Seq(Tasks)) :
                  ClosedUnderTurns(R) => p \in R}

OneOf(S) == CHOOSE o : o \in S

\* A state has the outcomes that it has to have, and no others.
LEMMA OutcomesInverted ==
    ASSUME NEW s \in SearchStates, NEW o \in Seq(Tasks)
    PROVE  <<s, o>> \in Outcomes <=> IF s.queue = << >> THEN o = s.out
                                     ELSE <<SearchStep(s), o>> \in Outcomes
<1> DEFINE Pairs == SearchStates \X Seq(Tasks)
           R == {p \in Outcomes : IF p[1].queue = << >> THEN p[2] = p[1].out
                                  ELSE <<SearchStep(p[1]), p[2]>> \in Outcomes}
<1>1. ClosedUnderTurns(Outcomes)
  <2> SUFFICES ASSUME NEW t \in SearchStates, NEW u \in Seq(Tasks),
                      \/ t.queue = << >> /\ u = t.out
                      \/ t.queue # << >> /\ <<SearchStep(t), u>> \in Outcomes,
                      NEW Q \in SUBSET Pairs, ClosedUnderTurns(Q)
               PROVE  <<t, u>> \in Q
    BY DEF Outcomes, ClosedUnderTurns
  <2>1. CASE t.queue = << >> /\ u = t.out
    BY <2>1 DEF ClosedUnderTurns
  <2>2. CASE t.queue # << >> /\ <<SearchStep(t), u>> \in Outcomes
    <3>1. <<SearchStep(t), u>> \in Q
      BY <2>2 DEF Outcomes
    <3> QED
      BY <2>2, <3>1 DEF ClosedUnderTurns
  <2> QED
    BY <2>1, <2>2
<1>2. R \in SUBSET Pairs
  BY DEF Outcomes
<1>3. ClosedUnderTurns(R)
  <2> SUFFICES ASSUME NEW t \in SearchStates, NEW u \in Seq(Tasks),
                      \/ t.queue = << >> /\ u = t.out
                      \/ t.queue # << >> /\ <<SearchStep(t), u>> \in R
               PROVE  <<t, u>> \in R
    BY DEF ClosedUnderTurns
  <2>1. <<t, u>> \in Outcomes
    BY <1>1 DEF ClosedUnderTurns
  <2> QED
    BY <2>1
<1>4. Outcomes \subseteq R
  BY <1>2, <1>3 DEF Outcomes
<1>5. <<s, o>> \in Outcomes => IF s.queue = << >> THEN o = s.out
                               ELSE <<SearchStep(s), o>> \in Outcomes
  BY <1>4
<1>6. (IF s.queue = << >> THEN o = s.out ELSE <<SearchStep(s), o>> \in Outcomes)
        => <<s, o>> \in Outcomes
  BY <1>1 DEF ClosedUnderTurns
<1> QED
  BY <1>5, <1>6

\* The equation that defines the search has a solution, so that the search
\* satisfies it.
LEMMA SearchEquation ==
    ASSUME NEW s \in SearchStates
    PROVE  Search[s] = IF s.queue = << >> THEN s.out
                             ELSE Search[SearchStep(s)]
<1> DEFINE Of(t) == {o \in Seq(Tasks) : <<t, o>> \in Outcomes}
           g == [t \in SearchStates |-> OneOf(Of(t))]
<1>1. ASSUME NEW t \in SearchStates
      PROVE  g[t] = IF t.queue = << >> THEN t.out ELSE g[SearchStep(t)]
  <2>0. g[t] = OneOf(Of(t))
    OBVIOUS
  <2>1. CASE t.queue = << >>
    <3>1. t.out \in Seq(Tasks)
      BY DEF SearchStates
    <3>2. Of(t) = {t.out}
      BY <2>1, <3>1, OutcomesInverted
    <3>3. OneOf({t.out}) = t.out
      BY DEF OneOf
    <3> QED
      BY <2>0, <2>1, <3>2, <3>3
  <2>2. CASE t.queue # << >>
    <3>1. SearchStep(t) \in SearchStates
      BY <2>2, Turns
    <3>2. Of(t) = Of(SearchStep(t))
      BY <2>2, OutcomesInverted
    <3>3. g[SearchStep(t)] = OneOf(Of(SearchStep(t)))
      BY <3>1
    <3> HIDE DEF Of, g
    <3> QED
      BY <2>0, <2>2, <3>2, <3>3
  <2> QED
    BY <2>1, <2>2
<1>2. g = [t \in SearchStates |->
             IF t.queue = << >> THEN t.out ELSE g[SearchStep(t)]]
  <2>1. g = [t \in SearchStates |-> g[t]]
    OBVIOUS
  <2> HIDE DEF g
  <2> QED
    BY <1>1, <2>1
<1> HIDE DEF g
<1>3. Search = [t \in SearchStates |->
                  IF t.queue = << >> THEN t.out ELSE Search[SearchStep(t)]]
  BY <1>2 DEF Search
<1> QED
  BY <1>3

\* The elements of a sequence, as it grows and shrinks.
LEMMA ToSetFacts ==
    ASSUME NEW q \in Seq(Tasks)
    PROVE  /\ ToSet(q) \subseteq Tasks
           /\ \A x \in Tasks : ToSet(Append(q, x)) = ToSet(q) \union {x}
           /\ q # << >> => ToSet(q) = {Head(q)} \union ToSet(Tail(q))
           /\ q = << >> => ToSet(q) = {}
<1>1. Len(q) \in Nat /\ DOMAIN q = 1..Len(q) /\ \A i \in 1..Len(q) : q[i] \in Tasks
  OBVIOUS
<1>2. ASSUME NEW x \in Tasks
      PROVE  ToSet(Append(q, x)) = ToSet(q) \union {x}
  <2> DEFINE p == Append(q, x)
  <2>1. /\ DOMAIN p = 1..Len(q) + 1 /\ p[Len(q) + 1] = x
        /\ \A i \in 1..Len(q) : p[i] = q[i]
    BY <1>1
  <2>2. \A i \in 1..Len(q) + 1 : i \in 1..Len(q) \/ i = Len(q) + 1
    BY <1>1
  <2>3. Len(q) + 1 \in 1..Len(q) + 1 /\ \A i \in 1..Len(q) : i \in 1..Len(q) + 1
    BY <1>1
  <2> HIDE DEF p
  <2>4. ASSUME NEW y \in ToSet(p) PROVE y \in ToSet(q) \union {x}
    BY <1>1, <2>1, <2>2 DEF ToSet
  <2>5. ASSUME NEW y \in ToSet(q) \union {x} PROVE y \in ToSet(p)
    BY <1>1, <2>1, <2>3 DEF ToSet
  <2> QED
    BY <2>4, <2>5 DEF p
<1>3. ASSUME q # << >> PROVE ToSet(q) = {Head(q)} \union ToSet(Tail(q))
  <2> DEFINE p == Tail(q)
  <2>1. /\ Len(q) > 0 /\ DOMAIN p = 1..Len(q) - 1 /\ Head(q) = q[1]
        /\ \A i \in 1..Len(q) - 1 : p[i] = q[i + 1]
    BY <1>1, <1>3
  <2>2. \A i \in 1..Len(q) : i = 1 \/ (i - 1 \in 1..Len(q) - 1 /\ (i - 1) + 1 = i)
    BY <1>1
  <2>3. 1 \in 1..Len(q) /\ \A i \in 1..Len(q) - 1 : i + 1 \in 1..Len(q)
    BY <1>1, <2>1
  <2> HIDE DEF p
  <2>4. ASSUME NEW i \in 1..Len(q) PROVE q[i] \in {Head(q)} \union ToSet(p)
    <3>1. CASE i = 1
      BY <2>1, <3>1
    <3>2. CASE i # 1
      <4>1. i - 1 \in 1..Len(q) - 1 /\ p[i - 1] = q[i]
        BY <2>1, <2>2, <3>2
      <4> QED
        BY <2>1, <4>1 DEF ToSet
    <3> QED
      BY <3>1, <3>2
  <2>5. ASSUME NEW y \in {Head(q)} \union ToSet(p) PROVE y \in ToSet(q)
    BY <1>1, <2>1, <2>3 DEF ToSet
  <2>6. ToSet(q) \subseteq {Head(q)} \union ToSet(p)
    BY <1>1, <2>4 DEF ToSet
  <2> QED
    BY <2>5, <2>6 DEF p
<1>4. ToSet(q) \subseteq Tasks
  BY <1>1 DEF ToSet
<1>5. ASSUME q = << >> PROVE ToSet(q) = {}
  BY <1>1, <1>5 DEF ToSet
<1> QED
  BY <1>2, <1>3, <1>4, <1>5

\* Every task has a place in the config; there are finitely many.
LEMMA TasksListed ==
    /\ Tasks = {Order[i] : i \in 1..Len(Order)}
    /\ IsFiniteSet(Tasks)
<1>1. Order \in Seq(Tasks) /\ Len(Order) \in Nat /\ DOMAIN Order = 1..Len(Order)
  BY ChainAssumption
<1>2. Tasks = {Order[i] : i \in 1..Len(Order)}
  BY <1>1 DEF Tasks, ToSet
<1>3. Order \in Surjection(1..Len(Order), Tasks)
  BY <1>1, <1>2 DEF Surjection
<1>4. 1 \in Int /\ Len(Order) \in Int
  BY <1>1
<1>5. IsFiniteSet(1..Len(Order))
  BY <1>4, FS_Interval
<1> QED
  BY <1>2, <1>3, <1>5, FS_Surjection

\* The tasks that depend on root, directly or through others.
Downstream(root) ==
    {m \in Tasks \ {root} :
       \A S \in SUBSET Tasks :
          (\A n \in Tasks : graph[n] \intersect ({root} \union S) # {} => n \in S)
          => m \in S}

\* What holds between the turns of the search: it has seen root and what it
\* put out, and that is downstream; what it has seen and is not in the queue
\* has no child left to see, nor has the head among the tasks it was compared
\* with.
Between(root, s) ==
    /\ s.seen = {root} \union ToSet(s.out)
    /\ ToSet(s.out) \subseteq Downstream(root)
    /\ ToSet(s.queue) \subseteq s.seen
    /\ \A n \in s.seen \ ToSet(s.queue), m \in Tasks :
          n \in graph[m] => m \in s.seen
    /\ s.queue # << >> =>
         \A j \in 1..s.next - 1 : Head(s.queue) \in graph[Order[j]] => Order[j] \in s.seen

\* It holds at the start.
LEMMA BetweenAtFirst ==
    ASSUME NEW root \in Tasks
    PROVE  /\ SearchFrom(root) \in SearchStates
           /\ Between(root, SearchFrom(root))
<1> DEFINE s == SearchFrom(root)
<1>1. Len(Order) \in Nat
  BY ChainAssumption
<1>2. s.queue = <<root>> /\ s.seen = {root} /\ s.out = << >> /\ s.next = 1
  BY DEF SearchFrom
<1>3. /\ << >> \in Seq(Tasks) /\ <<root>> \in Seq(Tasks)
      /\ 1 \in 1..Len(Order) + 1
  BY <1>1
<1>4. s \in SearchStates
  BY <1>3 DEF SearchFrom, SearchStates
<1>5. ToSet(s.out) = {} /\ ToSet(s.queue) = {root}
  <2>1. ToSet(s.out) = {}
    BY <1>2, <1>3, ToSetFacts
  <2>2. <<root>> # << >> /\ Head(<<root>>) = root /\ Tail(<<root>>) = << >>
    OBVIOUS
  <2>3. ToSet(<<root>>) = {Head(<<root>>)} \union ToSet(Tail(<<root>>))
    BY <1>3, <2>2, ToSetFacts
  <2> QED
    BY <1>2, <2>1, <2>2, <2>3
<1> HIDE DEF s
<1>6. Between(root, s)
  BY <1>2, <1>5 DEF Between
<1> QED
  BY <1>4, <1>6 DEF s

\* Every turn keeps it.
LEMMA BetweenKept ==
    ASSUME graph \in [Tasks -> SUBSET Tasks],
           NEW root \in Tasks,
           NEW s \in SearchStates, s.queue # << >>, Between(root, s)
    PROVE  Between(root, SearchStep(s))
<1> DEFINE t == SearchStep(s)
           h == Head(s.queue)
           child == Order[s.next]
<1>0. /\ s.queue \in Seq(Tasks) /\ s.out \in Seq(Tasks)
      /\ s.seen \subseteq Tasks
      /\ s.next \in 1..Len(Order) + 1
      /\ Order \in Seq(Tasks) /\ Len(Order) \in Nat
  BY ChainAssumption DEF SearchStates
<1>1. h \in ToSet(s.queue) /\ h \in s.seen
  BY <1>0, ToSetFacts DEF Between
<1>2. CASE /\ s.next = Len(Order) + 1
           /\ t = [s EXCEPT !.queue = Tail(s.queue), !.next = 1]
  <2>1. t.queue = Tail(s.queue) /\ t.seen = s.seen /\ t.out = s.out /\ t.next = 1
    BY <1>2 DEF SearchStates
  <2>2. ToSet(s.queue) = {h} \union ToSet(t.queue)
    BY <1>0, <2>1, ToSetFacts
  <2>3. ASSUME NEW m \in Tasks, h \in graph[m] PROVE m \in s.seen
    <3>1. PICK j \in 1..Len(Order) : Order[j] = m
      BY TasksListed
    <3>2. j \in 1..s.next - 1
      BY <1>0, <1>2
    <3> QED
      BY <2>3, <3>1, <3>2 DEF Between
  <2>4. \A n \in t.seen \ ToSet(t.queue), m \in Tasks :
           n \in graph[m] => m \in t.seen
    BY <2>1, <2>2, <2>3 DEF Between
  <2>5. 1..t.next - 1 = {}
    BY <2>1
  <2> HIDE DEF t, h
  <2>6. Between(root, t)
    BY <2>1, <2>2, <2>4, <2>5 DEF Between
  <2> QED
    BY <2>6 DEF t
<1>3. CASE /\ s.next \in 1..Len(Order) /\ h \in graph[child] /\ child \notin s.seen
           /\ t = [queue |-> Append(s.queue, child), seen |-> s.seen \union {child},
                   out |-> Append(s.out, child), next |-> s.next + 1]
  <2>1. /\ t.queue = Append(s.queue, child) /\ t.seen = s.seen \union {child}
        /\ t.out = Append(s.out, child) /\ t.next = s.next + 1
    BY <1>3
  <2>2. child \in Tasks
    BY <1>0, <1>3
  <2>3. ToSet(t.queue) = ToSet(s.queue) \union {child}
        /\ ToSet(t.out) = ToSet(s.out) \union {child}
    BY <1>0, <2>1, <2>2, ToSetFacts
  <2>4. Head(t.queue) = h
    BY <1>0, <2>1, <2>2
  <2>5. child \in Downstream(root)
    <3>1. child # root
      BY <1>3 DEF Between
    <3>2. ASSUME NEW S \in SUBSET Tasks,
                 \A n \in Tasks :
                    graph[n] \intersect ({root} \union S) # {} => n \in S
          PROVE  child \in S
      <4>1. h = root \/ h \in S
        BY <1>1, <3>2 DEF Between, Downstream
      <4> QED
        BY <1>3, <2>2, <3>2, <4>1
    <3> QED
      BY <2>2, <3>1, <3>2 DEF Downstream
  <2>6. ASSUME NEW j \in 1..t.next - 1, h \in graph[Order[j]] PROVE Order[j] \in t.seen
    <3>1. j \in 1..s.next - 1 \/ j = s.next
      BY <1>0, <2>1
    <3> QED
      BY <2>1, <2>6, <3>1 DEF Between
  <2> HIDE DEF t, h, child
  <2>7. Between(root, t)
    BY <2>1, <2>3, <2>4, <2>5, <2>6 DEF Between
  <2> QED
    BY <2>7 DEF t
<1>4. CASE /\ s.next \in 1..Len(Order)
           /\ h \in graph[child] => child \in s.seen
           /\ t = [s EXCEPT !.next = s.next + 1]
  <2>1. t.queue = s.queue /\ t.seen = s.seen /\ t.out = s.out /\ t.next = s.next + 1
    BY <1>4 DEF SearchStates
  <2>2. ASSUME NEW j \in 1..t.next - 1, h \in graph[Order[j]] PROVE Order[j] \in t.seen
    <3>1. j \in 1..s.next - 1 \/ j = s.next
      BY <1>0, <2>1
    <3> QED
      BY <1>4, <2>1, <2>2, <3>1 DEF Between
  <2> HIDE DEF t, child
  <2>3. Between(root, t)
    BY <2>1, <2>2 DEF Between
  <2> QED
    BY <2>3 DEF t
<1> QED
  BY <1>2, <1>3, <1>4, Turns

\* The tasks that the search has still to dequeue at most, and those of the
\* config that it has still to compare with the head of its queue.
ToDequeue(s) == Cardinality(Tasks \ s.seen) + Len(s.queue)

ToCompare(s) == Len(Order) + 1 - s.next

\* Every turn brings the search nearer to its end.
LEMMA TurnsShrink ==
    ASSUME NEW s \in SearchStates, s.queue # << >>
    PROVE  LET t == SearchStep(s)
           IN  /\ ToDequeue(s) \in Nat /\ ToCompare(s) \in Nat
               /\ \/ ToDequeue(t) < ToDequeue(s)
                  \/ ToDequeue(t) = ToDequeue(s) /\ ToCompare(t) < ToCompare(s)
<1> DEFINE t == SearchStep(s)
           child == Order[s.next]
<1>1. /\ s.queue \in Seq(Tasks) /\ Len(s.queue) \in Nat
      /\ s.seen \subseteq Tasks
      /\ s.next \in 1..Len(Order) + 1
      /\ Order \in Seq(Tasks) /\ Len(Order) \in Nat
  BY ChainAssumption DEF SearchStates
<1>2. IsFiniteSet(Tasks \ s.seen)
  BY TasksListed, FS_Subset
<1>3. Cardinality(Tasks \ s.seen) \in Nat
  BY <1>2, FS_CardinalityType
<1>4. ToDequeue(s) \in Nat /\ ToCompare(s) \in Nat
  BY <1>1, <1>3 DEF ToDequeue, ToCompare
<1>5. CASE /\ s.next = Len(Order) + 1
           /\ t = [s EXCEPT !.queue = Tail(s.queue), !.next = 1]
  <2>1. t.queue = Tail(s.queue) /\ t.seen = s.seen
    BY <1>5 DEF SearchStates
  <2>2. Len(t.queue) = Len(s.queue) - 1
    BY <1>1, <2>1
  <2> HIDE DEF t
  <2>3. ToDequeue(t) < ToDequeue(s)
    BY <1>1, <1>3, <2>1, <2>2 DEF ToDequeue
  <2> QED
    BY <1>4, <2>3 DEF t
<1>6. CASE /\ s.next \in 1..Len(Order) /\ child \notin s.seen
           /\ t = [queue |-> Append(s.queue, child), seen |-> s.seen \union {child},
                   out |-> Append(s.out, child), next |-> s.next + 1]
  <2>1. t.queue = Append(s.queue, child) /\ t.seen = s.seen \union {child}
        /\ t.next = s.next + 1
    BY <1>6
  <2>2. child \in Tasks \ s.seen
    BY <1>1, <1>6
  <2>3. Tasks \ t.seen = (Tasks \ s.seen) \ {child}
    BY <2>1
  <2>4. Cardinality((Tasks \ s.seen) \ {child}) =
        Cardinality(Tasks \ s.seen) - 1
    <3> DEFINE rest == Tasks \ s.seen
    <3>1. IsFiniteSet(rest) /\ child \in rest
      BY <1>2, <2>2
    <3> HIDE DEF rest, child
    <3>2. Cardinality(rest \ {child}) =
          IF child \in rest THEN Cardinality(rest) - 1 ELSE Cardinality(rest)
      BY <3>1, FS_RemoveElement
    <3> QED
      BY <3>1, <3>2 DEF rest
  <2>5. Len(t.queue) = Len(s.queue) + 1
    BY <1>1, <2>1, <2>2
  <2> HIDE DEF t, child
  <2>6. Cardinality(Tasks \ t.seen) = Cardinality(Tasks \ s.seen) - 1
    BY <2>3, <2>4
  <2>7. ToDequeue(t) = ToDequeue(s)
    BY <1>1, <1>3, <2>5, <2>6 DEF ToDequeue
  <2>8. ToCompare(t) < ToCompare(s)
    BY <1>1, <2>1 DEF ToCompare
  <2> QED
    BY <1>4, <2>7, <2>8 DEF t
<1>7. CASE s.next \in 1..Len(Order) /\ t = [s EXCEPT !.next = s.next + 1]
  <2>1. t.queue = s.queue /\ t.seen = s.seen /\ t.next = s.next + 1
    BY <1>7 DEF SearchStates
  <2> HIDE DEF t
  <2>2. ToDequeue(t) = ToDequeue(s) /\ ToCompare(t) < ToCompare(s)
    BY <1>1, <1>3, <2>1 DEF ToDequeue, ToCompare
  <2> QED
    BY <1>4, <2>2 DEF t
<1> QED
  BY <1>5, <1>6, <1>7, Turns

\* When the queue is empty, what was seen is closed under depends lists: the
\* search has put out all that is downstream.
LEMMA EmptyQueueIsAll ==
    ASSUME graph \in [Tasks -> SUBSET Tasks], NEW root \in Tasks,
           NEW s \in SearchStates, s.queue = << >>, Between(root, s)
    PROVE  ToSet(s.out) = Downstream(root)
<1>1. /\ s.queue \in Seq(Tasks) /\ s.seen \in SUBSET Tasks
      /\ ToSet(s.queue) = {}
  BY ToSetFacts DEF SearchStates
<1>2. root \in s.seen
  BY DEF Between
<1>3. ASSUME NEW n \in Tasks, graph[n] \intersect ({root} \union s.seen) # {}
      PROVE  n \in s.seen
  BY <1>1, <1>2, <1>3 DEF Between
<1>4. ASSUME NEW m \in Downstream(root) PROVE m \in ToSet(s.out)
  <2>1. m \in s.seen /\ m # root
    BY <1>1, <1>3, <1>4 DEF Downstream
  <2> QED
    BY <2>1 DEF Between
<1> QED
  BY <1>4 DEF Between

\* From every state that it may be in, the search puts out what is downstream:
\* a state nearest to the end from which it does not would have a successor of
\* that kind, nearer still.
LEMMA SearchFinds ==
    ASSUME graph \in [Tasks -> SUBSET Tasks],
           NEW root \in Tasks,
           NEW s0 \in SearchStates, Between(root, s0)
    PROVE  ToSet(Search[s0]) = Downstream(root)
<1> DEFINE Bad == {s \in SearchStates :
                     /\ Between(root, s)
                     /\ ToSet(Search[s]) # Downstream(root)}
<1>1. ASSUME NEW s \in Bad
      PROVE  s.queue # << >> /\ SearchStep(s) \in Bad
  <2>1. s.queue # << >>
    BY SearchEquation, EmptyQueueIsAll
  <2>2. /\ Search[s] = Search[SearchStep(s)]
        /\ SearchStep(s) \in SearchStates
    BY <2>1, SearchEquation, Turns
  <2>3. Between(root, SearchStep(s))
    BY <2>1, BetweenKept
  <2> QED
    BY <2>1, <2>2, <2>3
<1>2. ASSUME NEW s \in Bad
      PROVE  /\ ToDequeue(s) \in Nat /\ ToCompare(s) \in Nat
             /\ \/ ToDequeue(SearchStep(s)) < ToDequeue(s)
                \/ /\ ToDequeue(SearchStep(s)) = ToDequeue(s)
                   /\ ToCompare(SearchStep(s)) < ToCompare(s)
  BY <1>1, TurnsShrink
<1>3. s0 \in Bad \/ ToSet(Search[s0]) = Downstream(root)
  OBVIOUS
<1> HIDE DEF Bad
<1>4. ASSUME s0 \in Bad PROVE FALSE
  <2> DEFINE N == {ToDequeue(s) : s \in Bad}
  <2>1. N \in SUBSET Nat /\ N # {}
    BY <1>2, <1>4
  <2>2. PICK m \in N : \A k \in N : m <= k
    BY <2>1, LeastNumber
  <2> DEFINE M == {ToCompare(s) : s \in {u \in Bad : ToDequeue(u) = m}}
  <2>3. M \in SUBSET Nat /\ M # {}
    BY <1>2
  <2>4. PICK c \in M : \A k \in M : c <= k
    BY <2>3, LeastNumber
  <2>5. PICK s \in Bad : ToDequeue(s) = m /\ ToCompare(s) = c
    OBVIOUS
  <2>6. SearchStep(s) \in Bad
    BY <1>1
  <2>7. /\ m \in Nat /\ m <= ToDequeue(SearchStep(s))
        /\ ToDequeue(SearchStep(s)) \in Nat
    BY <1>2, <2>2, <2>5, <2>6
  <2>8. ToDequeue(SearchStep(s)) = m /\ ToCompare(SearchStep(s)) < c
    BY <1>2, <2>5, <2>7
  <2>9. /\ c \in Nat /\ c <= ToCompare(SearchStep(s))
        /\ ToCompare(SearchStep(s)) \in Nat
    BY <1>2, <2>3, <2>4, <2>6, <2>8
  <2> QED
    BY <2>8, <2>9
<1> QED
  BY <1>3, <1>4

-----------------------------------------------------------------------------

\* The cascade of every task in every config that may be in force is what
\* depends on it, directly or through others (downstreamTasks, with which
\* triggerSubgraph and RetryTask cut their payloads).
THEOREM CascadeIsRight == ChainSpec => []CascadeIsReachability
<1>1. ASSUME ChainOK PROVE CascadeIsReachability
  <2>1. graph \in [Tasks -> SUBSET Tasks]
    BY <1>1 DEF ChainOK, ChainTypes
  <2>2. ASSUME NEW root \in Tasks
        PROVE  ToSet(downstreamTasks(root)) = Downstream(root)
    BY <2>1, BetweenAtFirst, SearchFinds DEF downstreamTasks
  <2> QED
    BY <2>2 DEF CascadeIsReachability, Downstream
<1>2. ChainOK => CascadeIsReachability
  BY <1>1
<1> QED
  BY <1>2, ChainInvariance, PTL

=============================================================================
