----------------------------- MODULE EventShip ------------------------------
(***************************************************************************)
(* The events of a run on a remote worker, on their way to the projection  *)
(* and to the live stream: the shipper in the worker's slog chain          *)
(* (worker_event_ship.go), POST /v1/events on the producer (listen.go,     *)
(* handleIngestEvents), and a subscriber of the live stream                *)
(* (state/live_sink.go, listen_control.go).                                *)
(*                                                                         *)
(* The worker emits the events of Script in order, and an event is named   *)
(* by its position in it.  The handler of a batch is a goroutine of its    *)
(* own: it may go on with the lines it has read after the client gave up   *)
(* on it, while the shipper posts the next batch.                          *)
(***************************************************************************)
EXTENDS Naturals, Sequences, SequencesExt, FiniteSets, Projection

CONSTANTS
    Script,      \* the events of the run: [kind, task, ok]
    BufferSize,  \* capacity of the channel `in'
    FlushSize,   \* lines that fill a batch
    LiveBuffer,  \* capacity of a subscriber's channel
    MaxErrors    \* bound: posts that fail, applies that fail, handlers that die

ASSUME ShipAssumption ==
    /\ BufferSize \in Nat \ {0}
    /\ FlushSize \in Nat \ {0}
    /\ LiveBuffer \in Nat
    /\ MaxErrors \in Nat

VARIABLES
    \* The worker.
    worker,   \* "up", "stopping" once `in' is closed, "off", "dead"
    emitted,  \* how many events were emitted
    in,       \* the channel
    batch,    \* lines that run has taken from it
    \* The posts, in the order they were sent.
    post,     \* post[k]: [lines, step, client]
    \* The live stream.
    subscribed,  \* somebody watches the run
    frames,      \* the channel of that subscriber
    \* History.
    applied,  \* events in the order Apply committed them
    counted,  \* events counted as dropped, by the shipper or in an answer
    late,     \* events of batches that the client gave up on
    errors

shipper == <<worker, emitted, in, batch>>
live == <<subscribed, frames>>
history == <<applied, counted, late>>
vars == <<shipper, post, live, projection, history, errors>>

Events == 1..Len(Script)

Init ==
    /\ worker = "up"
    /\ emitted = 0
    /\ in = << >>
    /\ batch = << >>
    /\ post = << >>
    /\ subscribed = FALSE
    /\ frames = << >>
    /\ applied = << >>
    /\ counted = {}
    /\ late = {}
    /\ errors = 0
    /\ ProjectionInit

Fault ==
    /\ errors < MaxErrors
    /\ errors' = errors + 1

(***************************************************************************)
(* The worker.                                                             *)
(***************************************************************************)

\* eventShipper.Handle, from any task's goroutine: never blocks, and drops the
\* new event when the channel is full.
Handle ==
    /\ worker = "up"
    /\ emitted < Len(Script)
    /\ emitted' = emitted + 1
    /\ IF Len(in) < BufferSize
       THEN in' = Append(in, emitted') /\ UNCHANGED counted
       ELSE counted' = counted \union {emitted'} /\ UNCHANGED in
    /\ UNCHANGED <<worker, batch, post, live, projection, applied, late,
                   errors>>

\* run waits for the answer to its POST.
Posting == \E k \in DOMAIN post : post[k].client = "waiting"

\* run takes a line.
Take ==
    /\ worker \in {"up", "stopping"}
    /\ ~Posting
    /\ in # << >>
    /\ Len(batch) < FlushSize
    /\ batch' = Append(batch, Head(in))
    /\ in' = Tail(in)
    /\ UNCHANGED <<worker, emitted, post, live, projection, history, errors>>

\* flush, by size, by the ticker, or at the end: the request reaches the
\* producer, or it does not, or it is refused as a whole; nobody sends it
\* again.
Flush ==
    /\ worker \in {"up", "stopping"}
    /\ ~Posting
    /\ batch # << >>
    /\ batch' = << >>
    /\ \/ /\ post' = Append(post, [lines |-> batch, step |-> "apply",
                                   client |-> "waiting"])
          /\ UNCHANGED <<counted, errors>>
       \/ /\ Fault
          /\ counted' = counted \union ToSet(batch)
          /\ UNCHANGED post
    /\ UNCHANGED <<worker, emitted, in, live, projection, applied, late>>

\* stop, deferred in StartHTTPWorker: closes `in' once the run is over.
Stop ==
    /\ worker = "up"
    /\ emitted = Len(Script)
    /\ worker' = "stopping"
    /\ UNCHANGED <<emitted, in, batch, post, live, projection, history,
                   errors>>

\* run finds the channel closed and empty, has flushed, and ends.
Drained ==
    /\ worker = "stopping"
    /\ ~Posting
    /\ in = << >>
    /\ batch = << >>
    /\ worker' = "off"
    /\ UNCHANGED <<emitted, in, batch, post, live, projection, history,
                   errors>>

\* The worker process dies.
WorkerDies ==
    /\ worker \in {"up", "stopping"}
    /\ Fault
    /\ worker' = "dead"
    /\ in' = << >>
    /\ batch' = << >>
    /\ post' = [k \in DOMAIN post |->
                  [post[k] EXCEPT !.client = IF @ = "waiting" THEN "gone" ELSE @]]
    /\ late' = late \union UNION {ToSet(post[k].lines) : k \in DOMAIN post}
    /\ UNCHANGED <<emitted, live, projection, applied, counted>>

\* Seeded fault: a batch whose answer did not come is sent again.
GiveUpAndResend(k) ==
    /\ post[k].client = "waiting"
    /\ Fault
    /\ post' = [post EXCEPT ![k].client = "gone"]
    /\ batch' = post[k].lines
    /\ UNCHANGED <<worker, emitted, in, live, projection, history>>

\* The client's timeout, or a broken connection: run counts the whole batch as
\* dropped and goes on.
GiveUp(k) ==
    /\ post[k].client = "waiting"
    /\ Fault
    /\ post' = [post EXCEPT ![k].client = "gone"]
    /\ late' = late \union ToSet(post[k].lines)
    /\ counted' = counted \union ToSet(post[k].lines)
    /\ UNCHANGED <<shipper, live, projection, applied>>

(***************************************************************************)
(* The handler of post k.                                                  *)
(***************************************************************************)

\* foldEvent.
fold(e) ==
    CASE e.kind = "schedule_start"    -> applyScheduleStart
      [] e.kind = "task_start"        -> applyTaskStart(e.task)
      [] e.kind = "task_terminal"     -> applyTaskTerminal(e.task, e.ok)
      [] e.kind = "schedule_complete" -> applyScheduleComplete(e.ok)

\* The transaction fails when the foreign key of a tasks row has no runs row.
Orphan(e) == e.kind \in {"task_start", "task_terminal"} /\ runRow = "absent"

\* Apply of the next line commits: the line goes to the live sink next.
ApplyLine(k) ==
    /\ post[k].step = "apply"
    /\ post[k].lines # << >>
    /\ LET i == Head(post[k].lines) IN
       /\ ~Orphan(Script[i])
       /\ fold(Script[i])
       /\ applied' = Append(applied, i)
    /\ post' = [post EXCEPT ![k].step = "publish"]
    /\ UNCHANGED <<shipper, live, counted, late, errors>>

\* Apply fails: the line is counted as dropped, and the loop goes on.
ApplyFails(k) ==
    /\ post[k].step = "apply"
    /\ post[k].lines # << >>
    /\ LET i == Head(post[k].lines) IN
       /\ IF Orphan(Script[i]) THEN UNCHANGED errors ELSE Fault
       /\ counted' = counted \union {i}
    /\ post' = [post EXCEPT ![k].lines = Tail(@)]
    /\ UNCHANGED <<shipper, live, projection, applied, late>>

\* Seeded fault: a subscriber that does not read holds up the handler.
fanoutBlocking(i) ==
    /\ subscribed => Len(frames) < LiveBuffer
    /\ frames' = IF subscribed THEN Append(frames, i) ELSE frames
    /\ UNCHANGED subscribed

\* LiveSink.fanout: a full channel loses the frame.
fanout(i) ==
    /\ frames' = IF subscribed /\ Len(frames) < LiveBuffer
                 THEN Append(frames, i)
                 ELSE frames
    /\ UNCHANGED subscribed

\* The handler is done with the line.
NextLine(k) == post' = [post EXCEPT ![k].step = "apply", ![k].lines = Tail(@)]

Publish(k) ==
    /\ post[k].step = "publish"
    /\ fanout(Head(post[k].lines))
    /\ NextLine(k)
    /\ UNCHANGED <<shipper, projection, history, errors>>

\* The line does not go back into a record, or its encoder panics: the frame is
\* skipped.
rehydrateFails(k) ==
    /\ post[k].step = "publish"
    /\ NextLine(k)
    /\ UNCHANGED <<shipper, live, projection, history, errors>>

\* The answer, for a client that still waits for it.
Answer(k) ==
    /\ post[k].lines = << >>
    /\ post[k].client = "waiting"
    /\ post' = [post EXCEPT ![k].client = "answered"]
    /\ UNCHANGED <<shipper, live, projection, history, errors>>

\* The body of a client that is gone ends with a read error.
BodyEnds(k) ==
    /\ post[k].client = "gone"
    /\ post[k].step = "apply"
    /\ post[k].lines # << >>
    /\ post' = [post EXCEPT ![k].lines = << >>]
    /\ UNCHANGED <<shipper, live, projection, history, errors>>

\* streamLive writes a frame to its client, at the client's pace.
ReadFrame ==
    /\ frames # << >>
    /\ frames' = Tail(frames)
    /\ UNCHANGED <<shipper, post, subscribed, projection, history, errors>>

\* A client of the live stream comes, without replay, or goes, and its channel
\* is abandoned.
Subscribe(b) ==
    /\ subscribed = ~b
    /\ subscribed' = b
    /\ frames' = << >>
    /\ UNCHANGED <<shipper, post, projection, history, errors>>

Next ==
    \/ Handle \/ Take \/ Flush \/ Stop \/ Drained \/ WorkerDies
    \/ \E k \in DOMAIN post :
          \/ GiveUp(k)
          \/ ApplyLine(k) \/ ApplyFails(k) \/ Publish(k) \/ rehydrateFails(k)
          \/ Answer(k) \/ BodyEnds(k)
    \/ ReadFrame
    \/ \E b \in BOOLEAN : Subscribe(b)

\* The shipper's goroutine and the handlers go on; nobody has to read the live
\* stream.
Spec ==
    /\ Init /\ [][Next]_vars
    /\ WF_vars(Handle) /\ WF_vars(Take) /\ WF_vars(Flush)
    /\ WF_vars(Stop) /\ WF_vars(Drained)
    /\ \A k \in Events :
         WF_vars(/\ k \in DOMAIN post
                 /\ ApplyLine(k) \/ ApplyFails(k) \/ Publish(k) \/ Answer(k))

-----------------------------------------------------------------------------

\* An event is applied once at most, and after the events before it that are
\* applied, whatever is lost; only the lines of a batch that the client gave
\* up on, and whose handler goes on, may come late (post, handleIngestEvents).
AppliedInOrder ==
    \A m, n \in DOMAIN applied :
        m < n => \/ applied[m] < applied[n]
                 \/ applied[m] # applied[n] /\ applied[n] \in late

\* While its worker lives, an event is applied or shows up in a drop counter,
\* on the worker or in the producer's answer, although the subscriber of the
\* live stream may never read (run, stop, fanout).
NoSilentLoss ==
    \A i \in Events :
        emitted >= i ~> \/ i \in ToSet(applied) \union counted
                        \/ worker = "dead"

=============================================================================
