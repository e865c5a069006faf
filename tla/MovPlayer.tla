------------------------------ MODULE MovPlayer ------------------------------
(***************************************************************************)
(* The player of a looping video (Player, run_playback and the GStreamer   *)
(* pipeline of src/wallpaper.rs) and the consumer of its frames.           *)
(*                                                                         *)
(* Three threads share the Shared structure: the event worker, which runs  *)
(* an attempt, watches the pipeline and seeks it back to the start; the    *)
(* streaming thread of the pipeline, which runs the sample callback; and   *)
(* the thread of the consumer, which takes frames and joins the worker     *)
(* when it drops the player.                                               *)
(*                                                                         *)
(* A sample is the part of the video it comes from: the opening crossfade, *)
(* the middle, the lead before the end in which the loop is requested, or  *)
(* unknown for a buffer with no timestamp; a published frame is plain or   *)
(* blended with the frame held over the loop.  Durations are counted in    *)
(* ticks and an age stops at its timeout.                                  *)
(***************************************************************************)
EXTENDS WallpaperState, SequencesExt

CONSTANTS PosterLoads,                         \* what load_poster may answer
          AutomaticStartup, SoftwareStartup,   \* startup timeouts, in ticks
          FrameStall, SeekStall                \* stall timeouts, in ticks

ASSUME TimeoutAssumption ==
    /\ PosterLoads \subseteq BOOLEAN /\ PosterLoads # {}
    /\ AutomaticStartup \in Nat \ {0} /\ SoftwareStartup \in Nat \ {0}
    /\ FrameStall \in Nat \ {0} /\ SeekStall \in Nat \ {0}

VARIABLES
    consumer,        \* wallpaper::State
    joining,         \* the consumer is in Drop for Player
    signalled,       \* the watch channel has a value the consumer has not seen
    pending,         \* SharedState.pending
    failed,          \* Shared.failed
    last_frame,      \* whether SharedState.last_frame holds a frame
    frameAge,        \* ticks since last_frame_at
    openingAge,      \* ticks since awaiting_opening_since, or NotAwaiting
    transition,      \* whether SharedState.transition holds a frame
    loop_requested,  \* Shared.loop_requested
    stopping,        \* Player.stopping
    worker,          \* where the event worker is
    mode,            \* DecoderMode of the attempt
    startAge,        \* ticks since the attempt started
    outcome,         \* PlaybackOutcome of the attempt
    stream,          \* what the sample callback holds
    position,        \* how far the pipeline has played
    faulted,         \* PlaybackPipeline.faulted
    bus              \* messages on the bus of the pipeline

stateVars == <<last_frame, frameAge, openingAge, transition>>
consVars  == <<consumer, joining>>
pipeVars  == <<stream, position, faulted, bus>>
workVars  == <<worker, mode, outcome, stopping>>
vars == <<consVars, signalled, pending, failed, stateVars, loop_requested,
          workVars, startAge, pipeVars>>

Parts       == {"opening", "middle", "lead"}
Sample      == Parts \cup {"unknown"}
Frame       == {"plain", "blended"}
Rank(p)     == CASE p = "opening" -> 0 [] p = "middle" -> 1 [] p = "lead" -> 2
Idle        == [busy |-> FALSE, frame |-> NoFrame, taken |-> FALSE, request |-> FALSE]
NotAwaiting == SeekStall + 1
Playing     == worker \in {"monitor", "pop", "seek", "null"}

ASSUME MarkerAssumption ==
    NoFrame # Failed /\ NoFrame \notin Frame /\ Failed \notin Frame

startup_timeout(m) == IF m = "Automatic" THEN AutomaticStartup ELSE SoftwareStartup
MaxStartup == IF AutomaticStartup > SoftwareStartup THEN AutomaticStartup ELSE SoftwareStartup

TypeOK ==
    /\ consumer \in Consumer(Frame)
    /\ {joining, signalled, failed, transition, loop_requested, stopping, faulted}
         \subseteq BOOLEAN
    /\ pending \in Frame \cup {NoFrame, Failed} /\ last_frame \in BOOLEAN
    /\ frameAge \in 0..FrameStall /\ openingAge \in 0..NotAwaiting
    /\ startAge \in 0..MaxStartup
    /\ worker \in {"start", "attempt", "monitor", "pop", "seek", "null", "ended",
                   "failing", "done"}
    /\ mode \in {"Automatic", "Software"} /\ outcome \in {"none", "Stopped", "Failed"}
    /\ stream \in [busy : BOOLEAN, frame : Sample \cup {NoFrame}, taken : BOOLEAN,
                   request : BOOLEAN]
    /\ position \in Parts /\ bus \in Seq({"Loop", "Eos", "Error"})

-----------------------------------------------------------------------------
(* The streaming thread *)

\* loop_frame_action_KeepsPlaying: frames after the request are shown.
loop_frame_action_KeepsPlaying(frame) ==
    IF frame # "lead" \/ loop_requested THEN "Publish" ELSE "Request"

loop_frame_action(frame) ==
    CASE frame = "unknown" -> IF loop_requested THEN "Drop" ELSE "Publish"
      [] frame = "lead"    -> IF loop_requested THEN "Drop" ELSE "Request"
      [] OTHER             -> "Publish"

loop_requested_after(frame) ==
    CASE frame = "unknown" -> loop_requested
      [] frame = "lead"    -> TRUE
      [] OTHER             -> FALSE

\* new_sample, up to the point where publish_frame has taken the transition
\* out of the shared state and blends without the lock.
NewSample(frame) ==
    /\ Playing /\ ~stream.busy /\ ~failed
    /\ frame \in {"unknown"} \cup {part \in Parts : Rank(part) >= Rank(position)}
    /\ LET action == loop_frame_action(frame) IN
         /\ loop_requested' = loop_requested_after(frame)
         /\ position' = IF frame = "unknown" THEN position ELSE frame
         /\ IF action = "Drop" THEN UNCHANGED <<stream, transition>>
            ELSE /\ stream' = [busy |-> TRUE, frame |-> frame, taken |-> transition,
                               request |-> action = "Request"]
                 /\ transition' = FALSE
    /\ UNCHANGED <<consVars, signalled, pending, failed, last_frame, frameAge, openingAge,
                   workVars, startAge, faulted, bus>>

\* transition_progress and same_dimensions: whether the transition is still
\* under way for the frame; a frame with no timestamp goes by the clock.
KeepsTransition(frame, same) ==
    /\ same
    /\ frame \in {"opening", "unknown"}

\* The second half of publish_frame, notify, and request_loop_before_eos.
publish_frame(same, posted) ==
    /\ stream.busy /\ ~failed
    /\ LET blend == stream.taken /\ KeepsTransition(stream.frame, same) IN
         /\ transition' = (transition \/ blend)
         /\ pending' = IF blend THEN "blended" ELSE "plain"
    /\ last_frame' = TRUE /\ frameAge' = 0 /\ openingAge' = NotAwaiting
    /\ signalled' = TRUE
    /\ bus' = IF stream.request /\ posted THEN Append(bus, "Loop") ELSE bus
    /\ faulted' = (faulted \/ (stream.request /\ ~posted))
    /\ stream' = Idle
    /\ UNCHANGED <<consVars, failed, loop_requested, workVars, startAge, position>>

\* A sample that cannot be pulled or unpacked, or a pad that cannot be linked.
Fault ==
    /\ Playing /\ ~stream.busy /\ ~faulted
    /\ faulted' = TRUE
    /\ UNCHANGED <<consVars, signalled, pending, failed, stateVars, loop_requested,
                   workVars, startAge, stream, position, bus>>

\* The pipeline reports an error, or plays to the end of the video; messages
\* behind the first of these are never popped.
BusMessage(message) ==
    /\ Playing /\ ToSet(bus) \subseteq {"Loop"}
    /\ message = "Eos" => position = "lead" /\ ~stream.busy
    /\ bus' = Append(bus, message)
    /\ UNCHANGED <<consVars, signalled, pending, failed, stateVars, loop_requested,
                   workVars, startAge, stream, position, faulted>>

-----------------------------------------------------------------------------
(* The event worker *)

\* run_playback, top of its loop.
RunPlayback ==
    /\ worker = "start"
    /\ worker' = IF stopping THEN "done" ELSE "attempt"
    /\ loop_requested' = (stopping /\ loop_requested)
    /\ UNCHANGED <<consVars, signalled, pending, failed, stateVars, mode, outcome, stopping,
                   startAge, pipeVars>>

\* run_attempt: rewind, build_pipeline, set_state(Playing).
BeginAttempt(built) ==
    /\ worker = "attempt"
    /\ worker' = IF built THEN "monitor" ELSE "ended"
    /\ outcome' = IF built THEN "none" ELSE "Failed"
    /\ startAge' = 0 /\ position' = "opening" /\ faulted' = FALSE /\ bus' = <<>>
    /\ UNCHANGED <<consVars, signalled, pending, failed, stateVars, loop_requested, mode,
                   stopping, stream>>

\* playback_stall_AfterFirstFrame: only startup and seeks are timed.
playback_stall_AfterFirstFrame ==
    \/ openingAge = SeekStall
    \/ ~last_frame /\ startAge >= startup_timeout(mode)

playback_stall ==
    \/ openingAge = SeekStall
    \/ last_frame /\ frameAge = FrameStall
    \/ ~last_frame /\ startAge >= startup_timeout(mode)

\* monitor_pipeline: the tests of one turn, in their order.
Monitor ==
    /\ worker = "monitor"
    /\ outcome' = IF stopping \/ failed THEN "Stopped"
                  ELSE IF faulted \/ playback_stall THEN "Failed" ELSE "none"
    /\ worker' = IF outcome' = "none" THEN "pop" ELSE "null"
    /\ UNCHANGED <<consVars, signalled, pending, failed, stateVars, loop_requested, mode,
                   stopping, startAge, pipeVars>>

begin_loop_at == transition' = last_frame /\ openingAge' = 0

\* monitor_pipeline: timed_pop and the message it may return.
Pop ==
    /\ worker = "pop"
    /\ \/ /\ bus = <<>>
          /\ worker' = "monitor"
          /\ UNCHANGED <<outcome, bus, transition, openingAge>>
       \/ /\ bus # <<>>
          /\ bus' = Tail(bus)
          /\ IF Head(bus) = "Loop"
             THEN /\ begin_loop_at /\ worker' = "seek" /\ UNCHANGED outcome
             ELSE /\ worker' = "null" /\ outcome' = "Failed"
                  /\ UNCHANGED <<transition, openingAge>>
    /\ UNCHANGED <<consVars, signalled, pending, failed, last_frame, frameAge, loop_requested,
                   mode, stopping, startAge, stream, position, faulted>>

\* monitor_pipeline: pause, flushing seek to the start, play.  The flush waits
\* for the sample callback.
Seek(ok) ==
    /\ worker = "seek" /\ ~stream.busy
    /\ worker' = IF ok THEN "monitor" ELSE "null"
    /\ outcome' = IF ok THEN "none" ELSE "Failed"
    /\ position' = IF ok THEN "opening" ELSE position
    /\ UNCHANGED <<consVars, signalled, pending, failed, stateVars, loop_requested, mode,
                   stopping, startAge, stream, faulted, bus>>

\* run_attempt: set_state(Null) stops the streaming thread.
Null ==
    /\ worker = "null" /\ ~stream.busy
    /\ worker' = "ended" /\ bus' = <<>>
    /\ UNCHANGED <<consVars, signalled, pending, failed, stateVars, loop_requested, mode,
                   outcome, stopping, startAge, stream, position, faulted>>

should_retry_with_software == mode = "Automatic" /\ ~last_frame

\* run_playback after an attempt; fail_once begins by setting failed.
AfterAttempt ==
    /\ worker = "ended"
    /\ LET leave == outcome = "Stopped" \/ stopping IN
         /\ worker' = CASE leave -> "done"
                        [] ~leave /\ should_retry_with_software -> "start"
                        [] OTHER -> "failing"
         /\ mode' = IF ~leave /\ should_retry_with_software THEN "Software" ELSE mode
         /\ failed' = (failed \/ worker' = "failing")
    /\ UNCHANGED <<consVars, signalled, pending, stateVars, loop_requested, outcome, stopping,
                   startAge, pipeVars>>

\* fail_once after its diagnostic.
FailOnce ==
    /\ worker = "failing"
    /\ pending' = Failed /\ last_frame' = FALSE /\ transition' = FALSE
    /\ frameAge' = 0 /\ openingAge' = NotAwaiting
    /\ signalled' = TRUE /\ worker' = "done"
    /\ UNCHANGED <<consVars, failed, loop_requested, mode, outcome, stopping, startAge,
                   pipeVars>>

-----------------------------------------------------------------------------
(* The consumer *)

\* Drop for Player: stopping is set, then the worker is joined.
Dropping(c) ==
    /\ consumer' = c
    /\ joining' = (consumer.source /\ ~c.source)
    /\ stopping' = (stopping \/ joining')

\* The greeter's handler of WallpaperAllocated: finish_allocation, then
\* prepare_wallpaper_frame for an update that came during the upload.
WallpaperAllocated(ok) ==
    /\ ~joining /\ consumer.uploading # NoFrame
    /\ LET done == finish_allocation(consumer, failed, ok) IN
         IF Takes(done)
         THEN Dropping(prepare_latest(done, pending)) /\ pending' = NoFrame
         ELSE Dropping(done) /\ UNCHANGED pending
    /\ UNCHANGED <<signalled, failed, stateVars, loop_requested, worker, mode, outcome,
                   startAge, pipeVars>>

\* The greeter's handler of WallpaperFrameReady, sent for a changed signal.
WallpaperFrameReady ==
    /\ ~joining /\ consumer.kind = "login" /\ consumer.source /\ signalled
    /\ signalled' = FALSE
    /\ IF Takes(consumer)
       THEN Dropping(prepare_latest(consumer, pending)) /\ pending' = NoFrame
       ELSE UNCHANGED <<consVars, stopping, pending>>
    /\ UNCHANGED <<failed, stateVars, loop_requested, worker, mode, outcome, startAge,
                   pipeVars>>

\* The locker's receive_deferred, called in every turn of its runtime.
ReceiveDeferred ==
    /\ ~joining /\ consumer.kind = "lock" /\ consumer.source /\ pending # NoFrame
    /\ Dropping(receive_latest(consumer, pending)) /\ pending' = NoFrame
    /\ UNCHANGED <<signalled, failed, stateVars, loop_requested, worker, mode, outcome,
                   startAge, pipeVars>>

\* The consumer ends and drops its state.
Quit ==
    /\ ~joining /\ consumer.source
    /\ Dropping([consumer EXCEPT !.source = FALSE, !.allocating = FALSE, !.uploading = NoFrame])
    /\ UNCHANGED <<signalled, pending, failed, stateVars, loop_requested, worker, mode,
                   outcome, startAge, pipeVars>>

\* Drop for Player: join returns.
Joined ==
    /\ joining /\ worker = "done"
    /\ joining' = FALSE
    /\ UNCHANGED <<consumer, signalled, pending, failed, stateVars, loop_requested, workVars,
                   startAge, pipeVars>>

\* Time passes while the pipeline runs.
Tick ==
    LET older(age, limit) == IF age < limit THEN age + 1 ELSE age IN
    /\ Playing
    /\ frameAge' = older(frameAge, FrameStall)
    /\ openingAge' = IF openingAge = NotAwaiting THEN openingAge ELSE older(openingAge, SeekStall)
    /\ startAge' = older(startAge, startup_timeout(mode))
    /\ UNCHANGED <<consVars, signalled, pending, failed, last_frame, transition,
                   loop_requested, workVars, pipeVars>>

Finished == ~consumer.source /\ ~joining /\ worker = "done" /\ UNCHANGED vars

-----------------------------------------------------------------------------
Init ==
    /\ \E kind \in Kinds, loads \in PosterLoads :
         consumer = start(kind, IF loads THEN Poster ELSE NoFrame, TRUE)
    /\ joining = FALSE /\ signalled = FALSE /\ pending = NoFrame /\ failed = FALSE
    /\ last_frame = FALSE /\ frameAge = 0 /\ openingAge = NotAwaiting /\ transition = FALSE
    /\ loop_requested = FALSE /\ stopping = FALSE /\ worker = "start" /\ mode = "Automatic"
    /\ startAge = 0 /\ outcome = "none" /\ stream = Idle /\ position = "opening"
    /\ faulted = FALSE /\ bus = <<>>

Worker == RunPlayback \/ (\E ok \in BOOLEAN : BeginAttempt(ok)) \/ Monitor \/ Pop
          \/ (\E ok \in BOOLEAN : Seek(ok)) \/ Null \/ AfterAttempt \/ FailOnce

PublishFrame == \E same, posted \in BOOLEAN : publish_frame(same, posted)

Take == WallpaperFrameReady \/ ReceiveDeferred \/ Joined

Allocated == \E ok \in BOOLEAN : WallpaperAllocated(ok)

Next ==
    \/ Worker \/ PublishFrame \/ Take \/ Allocated \/ Tick \/ Quit \/ Finished
    \/ \E frame \in Sample : NewSample(frame)
    \/ Fault
    \/ \E message \in {"Eos", "Error"} : BusMessage(message)

\* Threads that can run do, the renderer answers an upload, and set_state(Null)
\* waits for the callback it finds running but for no later one.  Nothing is
\* assumed of the pipeline: it may stop producing frames at any point.
Fairness == WF_vars(Worker) /\ SF_vars(Null) /\ WF_vars(PublishFrame) /\ WF_vars(Take)
            /\ WF_vars(Allocated) /\ WF_vars(Tick)

Spec == Init /\ [][Next]_vars /\ Fairness

-----------------------------------------------------------------------------
(* Properties *)

\* A request to loop is only ever on the bus, or about to be acted upon, while
\* the video is in its lead: the request of one pass never seeks the next pass
\* back to its start (loop_frame_action lets one frame of a pass ask).
LoopRequestIsCurrent ==
    /\ (\E i \in DOMAIN bus : bus[i] = "Loop") \/ worker = "seek" =>
         loop_requested /\ position = "lead"
    /\ Cardinality({i \in DOMAIN bus : bus[i] = "Loop"}) <= 1

\* From begin_loop to the flushing seek, the held frame and the seek timeout
\* stay in place: no late frame of the old pass consumes the crossfade or
\* passes for the opening frame (begin_loop_at against publish_frame).
HeldFrameSurvivesSeek ==
    worker = "seek" => transition /\ openingAge # NotAwaiting

\* Of a step: once the worker has failed, an upload that completes shows no frame and the
\* greeter keeps the background it has (stop_after_terminal_failure).
NoFrameAfterFailure ==
    failed /\ consumer.kind = "login" => consumer'.frame = consumer.frame

\* A published failure is neither lost nor overwritten: it waits in pending
\* until the consumer has dropped the player (fail_once against publish_frame
\* and take_latest).
FailureIsKept == failed /\ worker = "done" /\ consumer.source => pending = Failed

\* A failure reaches the consumer, which drops the player: also when it was
\* signalled while a frame was being uploaded.
FailureIsTaken == failed ~> ~consumer.source

\* A playing wallpaper goes on showing new frames or is given up: however the
\* pipeline stalls, at startup, in the middle or after a seek, a timeout ends it.
VideoNeverFreezes ==
    (<>[](~last_frame \/ frameAge > 0)) => <>(worker = "done")

\* Dropping the player returns: the worker the consumer joins always ends.
JoinReturns == joining ~> ~joining
=============================================================================
