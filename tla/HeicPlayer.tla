----------------------------- MODULE HeicPlayer ------------------------------
(***************************************************************************)
(* The player of a dynamic HEIC wallpaper (HeicPlayer of src/wallpaper.rs):*)
(* the consumer, the supervisor thread that owns the decoder process, the  *)
(* pipe between them and the decoder process itself.                       *)
(*                                                                         *)
(* The decoder may hang, crash or write nonsense at any point, and the     *)
(* greeter that spawned it may be killed.  What it decodes and when is in  *)
(* DynamicPlayback; here its frames are numbered in the order it writes    *)
(* them.                                                                   *)
(***************************************************************************)
EXTENDS WallpaperState, Sequences

CONSTANTS Torn,        \* bytes on the pipe that are no whole valid frame
          PipeSize,    \* frames the pipe holds
          MaxFrames    \* bound of the model on the frames of the decoder

SizeAssumption ==
    /\ PipeSize \in Nat \ {0} /\ MaxFrames \in Nat
    /\ NoFrame # Failed /\ Torn # Failed
    /\ \A marker \in {NoFrame, Poster, Failed, Torn} : marker \notin 1..MaxFrames

VARIABLES
    consumer,      \* wallpaper::State
    pending_heic,  \* the greeter waits to learn its renderer
    signalled,     \* the watch channel has a value the consumer has not seen
    pending,       \* HeicShared.pending
    failed,        \* HeicShared.failed
    stopping,      \* HeicPlayer.stopping
    slot,          \* whether HeicPlayer.child holds the process
    supervisor,    \* where the supervisor thread is
    relayed,       \* frame read and not yet published
    reported,      \* whether the failure was written to stderr
    child,         \* the decoder process
    pipe,          \* what it has written and the supervisor not read
    reading,       \* whether the read end of the pipe is open
    written,       \* frames it has written
    host           \* whether the greeter or locker process lives

consVars == <<consumer, pending_heic>>
shareVars == <<signalled, pending, failed>>
childVars == <<pipe, reading, written>>
vars == <<consVars, shareVars, stopping, slot, supervisor, relayed, reported, child,
          childVars, host>>

Frame == 1..MaxFrames
Live  == {"starting", "opening", "decoding"}

TypeOK ==
    /\ consumer \in Consumer(Frame)
    /\ {pending_heic, signalled, failed, stopping, slot, reported, reading, host} \subseteq BOOLEAN
    /\ pending \in Frame \cup {NoFrame, Failed} /\ relayed \in Frame \cup {NoFrame}
    /\ supervisor \in {"none", "spawn", "publish", "check", "read", "relay", "break",
                       "kill", "reap", "wait", "report", "done"}
    /\ child \in Live \cup {"none", "zombie", "reaped"}
    /\ pipe \in Seq(Frame \cup {Failed, Torn}) /\ Len(pipe) <= PipeSize
    /\ written \in 0..MaxFrames

-----------------------------------------------------------------------------
(* Shared state *)

\* fail_heic: a terminal failure, published once.
fail_heic == failed' = TRUE /\ pending' = Failed /\ signalled' = TRUE

\* emit_heic_frame of a frame whose buffer was allocated.
emit_heic_frame ==
    IF failed THEN UNCHANGED shareVars
    ELSE pending' = relayed /\ signalled' = TRUE /\ UNCHANGED failed

Killed == IF child \in Live THEN "zombie" ELSE child

signal_heic_child == child' = IF slot THEN Killed ELSE child

-----------------------------------------------------------------------------
(* The supervisor: supervise_heic_worker *)

\* Command::spawn; a failure to spawn is published and reported.
Spawn(ok) ==
    /\ supervisor = "spawn"
    /\ IF ok THEN supervisor' = "publish" /\ child' = "starting" /\ reading' = TRUE
                  /\ UNCHANGED <<shareVars, reported>>
       ELSE supervisor' = "done" /\ fail_heic /\ reported' = TRUE
            /\ UNCHANGED <<child, reading>>
    /\ UNCHANGED <<consVars, stopping, slot, relayed, pipe, written, host>>

PublishChild ==
    /\ supervisor = "publish"
    /\ slot' = TRUE /\ supervisor' = "check"
    /\ UNCHANGED <<consVars, shareVars, stopping, relayed, reported, child, childVars, host>>

\* A cancellation that came before the child was published is honoured here.
CheckStopping ==
    /\ supervisor = "check"
    /\ supervisor' = IF stopping THEN "kill" ELSE "read"
    /\ UNCHANGED <<consVars, shareVars, stopping, slot, relayed, reported, child, childVars, host>>

\* run_heic_reader: one message, or the end of the stream.  Torn stands for a
\* short read, an unknown tag, a header expected_frame_bytes refuses and a
\* buffer that cannot be allocated.
Read ==
    /\ supervisor = "read"
    /\ pipe # <<>> \/ child \in {"zombie", "reaped"}
    /\ pipe' = IF pipe = <<>> THEN pipe ELSE Tail(pipe)
    /\ IF pipe # <<>> /\ Head(pipe) = Failed
       THEN fail_heic /\ supervisor' = "kill" /\ reading' = FALSE /\ UNCHANGED relayed
       ELSE /\ UNCHANGED <<shareVars, reading>>
            /\ IF pipe = <<>> \/ Head(pipe) = Torn
               THEN supervisor' = "break" /\ UNCHANGED relayed
               ELSE supervisor' = "relay" /\ relayed' = Head(pipe)
    /\ UNCHANGED <<consVars, stopping, slot, reported, child, written, host>>

\* Cancellation wins over a frame already read.
Relay ==
    /\ supervisor = "relay"
    /\ relayed' = NoFrame
    /\ IF stopping THEN supervisor' = "break" /\ UNCHANGED shareVars
       ELSE supervisor' = "read" /\ emit_heic_frame
    /\ UNCHANGED <<consVars, stopping, slot, reported, child, childVars, host>>

\* run_heic_reader after its loop; the read end is dropped with the reader.
BreakLoop ==
    /\ supervisor = "break"
    /\ supervisor' = "kill" /\ reading' = FALSE
    /\ IF stopping \/ failed THEN UNCHANGED shareVars ELSE fail_heic
    /\ UNCHANGED <<consVars, stopping, slot, relayed, reported, child, pipe, written, host>>

\* Drop for HeicWorkerGuard: signal_heic_child, then reap_heic_child.
Kill ==
    /\ supervisor = "kill"
    /\ supervisor' = "reap" /\ signal_heic_child /\ reading' = FALSE
    /\ UNCHANGED <<consVars, shareVars, stopping, slot, relayed, reported, pipe, written, host>>

\* reap_heic_child: the child leaves the slot before it is waited for.
reap_heic_child ==
    /\ supervisor = "reap"
    /\ supervisor' = "wait" /\ slot' = FALSE
    /\ UNCHANGED <<consVars, shareVars, stopping, relayed, reported, child, childVars, host>>

Wait ==
    /\ supervisor = "wait" /\ child \notin Live
    /\ supervisor' = "report" /\ child' = "reaped"
    /\ UNCHANGED <<consVars, shareVars, stopping, slot, relayed, reported, childVars, host>>

Report ==
    /\ supervisor = "report"
    /\ supervisor' = "done" /\ reported' = (reported \/ failed)
    /\ UNCHANGED <<consVars, shareVars, stopping, slot, relayed, child, childVars, host>>

-----------------------------------------------------------------------------
(* The decoder process: run_heic_worker *)

\* How the decoder ends: the supervisor's to reap, or init's.
Exit == IF host THEN "zombie" ELSE "reaped"

bind_to_parent ==
    /\ child = "starting"
    /\ child' = IF host THEN "opening" ELSE Exit
    /\ UNCHANGED <<consVars, shareVars, stopping, slot, supervisor, relayed, reported,
                   childVars, host>>

\* run_heic_with_sink: Document::open and the first clock sample.
Open(ok) ==
    /\ child = "opening"
    /\ child' = IF ok THEN "decoding" ELSE Exit
    /\ pipe' = IF ok \/ ~reading THEN pipe ELSE Append(pipe, Failed)
    /\ UNCHANGED <<consVars, shareVars, stopping, slot, supervisor, relayed, reported,
                   reading, written, host>>

\* ProcessSink::publish: it blocks on a full pipe and ends on a closed one.
Publish ==
    /\ child = "decoding"
    /\ IF reading
       THEN /\ Len(pipe) < PipeSize /\ written < MaxFrames
            /\ written' = written + 1 /\ pipe' = Append(pipe, written')
            /\ UNCHANGED child
       ELSE child' = Exit /\ UNCHANGED <<pipe, written>>
    /\ UNCHANGED <<consVars, shareVars, stopping, slot, supervisor, relayed, reported,
                   reading, host>>

\* The decoder crashes or is killed for its memory, perhaps within a frame.
Crash(within) ==
    /\ child \in Live
    /\ child' = Exit
    /\ within => child = "decoding" /\ reading /\ Len(pipe) < PipeSize
    /\ pipe' = IF within THEN Append(pipe, Torn) ELSE pipe
    /\ UNCHANGED <<consVars, shareVars, stopping, slot, supervisor, relayed, reported,
                   reading, written, host>>

\* The greeter is killed: its threads are gone, the read end is closed, and a
\* decoder that has asked for PR_SET_PDEATHSIG goes with it.
HostDies ==
    /\ host
    /\ host' = FALSE /\ reading' = FALSE /\ supervisor' = "none" /\ slot' = FALSE
    /\ consumer' = [consumer EXCEPT !.source = FALSE, !.allocating = FALSE, !.uploading = NoFrame]
    /\ pending_heic' = FALSE
    /\ child' = IF child \in {"starting", "none"} THEN child ELSE "reaped"
    /\ UNCHANGED <<shareVars, stopping, relayed, reported, pipe, written>>

-----------------------------------------------------------------------------
(* The consumer *)

\* Drop for HeicPlayer, when a step of the consumer gives the player up: it
\* signals and does not wait.
DropPlayer(c) ==
    /\ consumer' = c
    /\ IF consumer.source /\ ~c.source THEN stopping' = TRUE /\ signal_heic_child
       ELSE UNCHANGED <<stopping, child>>

\* apply_renderer_information: the deferred source starts unless the renderer
\* cannot show its frames, or the supervisor thread cannot be created.
RendererInformation(supported) ==
    /\ host /\ pending_heic
    /\ pending_heic' = FALSE
    /\ consumer' = [consumer EXCEPT !.source = supported]
    /\ supervisor' = IF supported THEN "spawn" ELSE supervisor
    /\ UNCHANGED <<shareVars, stopping, slot, relayed, reported, child, childVars, host>>

\* The greeter's WallpaperFrameReady and WallpaperAllocated.
WallpaperFrameReady ==
    /\ host /\ consumer.kind = "login" /\ consumer.source /\ signalled
    /\ signalled' = FALSE
    /\ IF Takes(consumer) THEN DropPlayer(prepare_latest(consumer, pending)) /\ pending' = NoFrame
       ELSE UNCHANGED <<consumer, stopping, child, pending>>
    /\ UNCHANGED <<pending_heic, failed, slot, supervisor, relayed, reported, childVars, host>>

WallpaperAllocated(ok) ==
    /\ host /\ consumer.uploading # NoFrame
    /\ LET done == finish_allocation(consumer, failed, ok) IN
         IF Takes(done) THEN DropPlayer(prepare_latest(done, pending)) /\ pending' = NoFrame
         ELSE DropPlayer(done) /\ UNCHANGED pending
    /\ UNCHANGED <<pending_heic, signalled, failed, slot, supervisor, relayed, reported,
                   childVars, host>>

\* The locker's receive_deferred.
ReceiveDeferred ==
    /\ host /\ consumer.kind = "lock" /\ consumer.source /\ pending # NoFrame
    /\ DropPlayer(receive_latest(consumer, pending)) /\ pending' = NoFrame
    /\ UNCHANGED <<pending_heic, signalled, failed, slot, supervisor, relayed, reported,
                   childVars, host>>

\* The consumer ends while its process goes on.
Quit ==
    /\ host /\ consumer.source
    /\ DropPlayer([consumer EXCEPT !.source = FALSE, !.allocating = FALSE, !.uploading = NoFrame])
    /\ UNCHANGED <<pending_heic, shareVars, slot, supervisor, relayed, reported, childVars, host>>

-----------------------------------------------------------------------------
\* The locker starts its source at once, the greeter when it knows its renderer.
Init ==
    /\ \E kind \in Kinds :
         /\ consumer = start(kind, Poster, kind = "lock")
         /\ pending_heic = (kind = "login")
         /\ supervisor = IF kind = "lock" THEN "spawn" ELSE "none"
    /\ signalled = FALSE /\ pending = NoFrame /\ failed = FALSE
    /\ stopping = FALSE /\ slot = FALSE /\ relayed = NoFrame /\ reported = FALSE
    /\ child = "none" /\ pipe = <<>> /\ reading = FALSE /\ written = 0 /\ host = TRUE

Supervisor == (\E ok \in BOOLEAN : Spawn(ok)) \/ PublishChild \/ CheckStopping \/ Read
              \/ Relay \/ BreakLoop \/ Kill \/ reap_heic_child \/ Wait \/ Report

Take == WallpaperFrameReady \/ ReceiveDeferred

Allocated == \E ok \in BOOLEAN : WallpaperAllocated(ok)

Decoder == (\E ok \in BOOLEAN : Open(ok)) \/ Publish
           \/ (\E within \in BOOLEAN : Crash(within))

Next ==
    \/ Supervisor \/ Take \/ Allocated \/ bind_to_parent \/ Decoder \/ Quit \/ HostDies
    \/ \E supported \in BOOLEAN : RendererInformation(supported)

\* The threads of the process run, the renderer answers and a started decoder
\* gets to bind_to_parent.  The decoder itself may hang for ever.
Fairness == WF_vars(Supervisor) /\ WF_vars(Take) /\ WF_vars(Allocated) /\ WF_vars(bind_to_parent)

Spec == Init /\ [][Next]_vars /\ Fairness

-----------------------------------------------------------------------------
(* Properties *)

\* A process in the slot has not been reaped, so the kill of a cancellation
\* never reaches a recycled process (signal_heic_child against reap_heic_child).
SlotHoldsUnreapedChild == slot => child \in Live \cup {"zombie"}

\* When the supervisor has returned, whatever the decoder and the consumer did,
\* the decoder is reaped and the slot is empty (HeicWorkerGuard).
SupervisorLeavesNoChild ==
    supervisor = "done" => child \in {"none", "reaped"} /\ ~slot

\* A failure the consumer could see was reported by the time the supervisor
\* returns, also when the consumer cancelled on seeing it.
PublishedFailureIsReported == supervisor = "done" /\ failed => reported

Order(frame) == IF frame \in {NoFrame, Poster} THEN 0 ELSE frame

\* Of a step: the background only moves on to later frames of the decoder; a failure, a
\* cancellation or a late upload never brings back an older frame or the poster.
BackgroundNeverRegresses ==
    consumer'.frame # consumer.frame => Order(consumer'.frame) > Order(consumer.frame)

\* A cancelled decoder is killed and reaped, even one that hangs in a decode
\* and whether it was cancelled before, while or after it was spawned.
CancelledDecoderIsReaped ==
    stopping ~> child \in {"none", "reaped"} /\ supervisor \in {"done", "none"}

\* The death of the decoder is a failure the consumer learns of.
DecoderDeathIsTaken == child = "zombie" ~> ~consumer.source

\* A decoder does not outlive the process that spawned it, also when that is
\* killed before the decoder has asked to die with it.
NoOrphan == ~host ~> child \in {"none", "reaped"}
=============================================================================
