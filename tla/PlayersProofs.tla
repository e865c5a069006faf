---------------------------- MODULE PlayersProofs ----------------------------
(***************************************************************************)
(* Proofs about the players of moving wallpapers, for any timeouts, any    *)
(* pipe and any number of frames.                                          *)
(*                                                                         *)
(* A video has one request to loop at a time, which is with the sample     *)
(* callback, then on the bus, then with the worker that seeks; from the    *)
(* request to the seek every sample is dropped, so that none of the old    *)
(* pass touches what is held for the next.  The frames of a decoder are in *)
(* order from what is shown, over what is uploaded, pending and relayed,   *)
(* to what is on the pipe.                                                 *)
(***************************************************************************)
EXTENDS MCPlayers, FiniteSetTheorems, SequenceTheorems, TLAPS

-----------------------------------------------------------------------------
(* The inductive invariants *)

\* A consumer uploads what it was given, and lacks a frame only without a poster.
ConsumerInv(c) ==
    /\ c.allocating <=> c.uploading # NoFrame
    /\ c.allocating => c.source /\ c.kind = "login"
    /\ c.frame = NoFrame => c.poster = NoFrame

\* The callback runs only while there is a pipeline.
StreamInv ==
    /\ ~stream.busy => stream = Idle
    /\ ~Playing => ~stream.busy /\ bus = << >>

OnBus == \E i \in 1 .. Len(bus) : bus[i] = "Loop"

\* Where the one request to loop is.
LoopInv ==
    /\ stream.request \/ OnBus \/ worker = "seek" => loop_requested /\ position = "lead"
    /\ OnBus \/ worker = "seek" => ~stream.busy
    /\ ~(OnBus /\ worker = "seek")
    /\ \A i, j \in 1 .. Len(bus) : bus[i] = "Loop" /\ bus[j] = "Loop" => i = j
    /\ OnBus => last_frame

FailureInv == failed => worker \in {"failing", "done"}

MovInv ==
    /\ TypeOK /\ ConsumerInv(consumer) /\ StreamInv /\ LoopInv /\ HeldFrameSurvivesSeek
    /\ FailureInv /\ FailureIsKept

\* Where the supervisor is says whose the decoder is.
SlotInv ==
    LET unreaped == Heic!Live \cup {"zombie"} IN
    /\ h_supervisor \in {"none", "spawn"} => ~h_slot /\ (h_host => h_child = "none")
    /\ h_supervisor = "publish" => ~h_slot /\ h_child \in unreaped
    /\ h_supervisor \in {"check", "read", "relay", "break", "kill", "reap"} =>
         h_slot /\ h_child \in unreaped
    /\ h_supervisor = "wait" => ~h_slot /\ h_child \in unreaped
    /\ h_supervisor = "report" => ~h_slot /\ h_child = "reaped"
    /\ h_supervisor = "done" => ~h_slot /\ h_child \in {"none", "reaped"}
    /\ ~h_host => h_supervisor = "none" /\ ~h_pending_heic
    /\ h_pending_heic => h_supervisor = "none" /\ ~h_consumer.source

\* A decoder that is not decoding has written nothing.
PipeInv ==
    h_child \in {"none", "starting", "opening"} => h_pipe = << >> /\ h_written = 0

\* The latest frame that is shown or uploaded, that the consumer was given, and that
\* the supervisor has read.
Uploaded == IF h_consumer.uploading # NoFrame THEN h_consumer.uploading
            ELSE Heic!Order(h_consumer.frame)
Given    == IF h_pending \in Heic!Frame THEN h_pending ELSE Uploaded
Got      == IF h_relayed # NoFrame THEN h_relayed ELSE Given

OrderInv ==
    /\ h_consumer.uploading # NoFrame => Heic!Order(h_consumer.frame) < h_consumer.uploading
    /\ h_pending \in Heic!Frame => Uploaded < h_pending
    /\ h_relayed # NoFrame => Given < h_relayed
    /\ Got <= h_written
    /\ \A i \in 1 .. Len(h_pipe) :
           h_pipe[i] \in Heic!Frame => Got < h_pipe[i] /\ h_pipe[i] <= h_written
    /\ \A i, j \in 1 .. Len(h_pipe) :
           i < j /\ h_pipe[i] \in Heic!Frame /\ h_pipe[j] \in Heic!Frame => h_pipe[i] < h_pipe[j]

HeicInv ==
    /\ Heic!TypeOK /\ ConsumerInv(h_consumer) /\ SlotInv /\ PipeInv /\ OrderInv
    /\ Heic!PublishedFailureIsReported

PartInv ==
    /\ part = "mov" => MovInv
    /\ part = "heic" => HeicInv

-----------------------------------------------------------------------------
(* The video player *)

\* What TypeOK says of each variable.
LEMMA MovTypes ==
    ASSUME TypeOK
    PROVE  /\ consumer \in Consumer(Frame) /\ joining \in BOOLEAN /\ signalled \in BOOLEAN
           /\ failed \in BOOLEAN /\ transition \in BOOLEAN /\ loop_requested \in BOOLEAN
           /\ stopping \in BOOLEAN /\ faulted \in BOOLEAN
           /\ bus \in Seq({"Loop", "Eos", "Error"}) /\ Len(bus) \in Nat
  BY DEF TypeOK

\* Ages begin within their limits.
LEMMA Ages ==
    /\ 0 \in 0 .. FrameStall /\ 0 \in 0 .. MaxStartup /\ 0 \in 0 .. NotAwaiting
    /\ NotAwaiting \in 0 .. NotAwaiting /\ 0 # NotAwaiting /\ SeekStall \in 0 .. NotAwaiting
    /\ NotAwaiting \in Nat /\ SeekStall \in Nat /\ NotAwaiting = SeekStall + 1
<1>1. SeekStall \in Nat /\ FrameStall \in Nat /\ MaxStartup \in Nat
  BY TimeoutAssumption DEF MaxStartup
<1>2. QED
  BY <1>1 DEF NotAwaiting

\* A sample is dropped while the loop is requested (new_sample).
LEMMA SampleKeeps ==
    ASSUME MovInv, NEW f \in Sample, NewSample(f)
    PROVE  MovInv'
<1>1. TypeOK'
  <2>1. loop_requested' \in BOOLEAN
    BY DEF MovInv, TypeOK, NewSample, loop_requested_after
  <2>2. position' \in Parts
    BY DEF MovInv, TypeOK, NewSample, Sample
  <2>3. /\ stream' \in [busy : BOOLEAN, frame : Sample \cup {NoFrame}, taken : BOOLEAN,
                        request : BOOLEAN]
        /\ transition' \in BOOLEAN
    <3>1. CASE loop_frame_action(f) = "Drop"
      BY <3>1 DEF MovInv, TypeOK, NewSample
    <3>2. CASE loop_frame_action(f) # "Drop"
      <4>1. /\ stream' = [busy |-> TRUE, frame |-> f, taken |-> transition,
                          request |-> loop_frame_action(f) = "Request"]
            /\ transition' = FALSE
        BY <3>2 DEF NewSample
      <4>2. transition \in BOOLEAN /\ (loop_frame_action(f) = "Request") \in BOOLEAN
        BY MovTypes DEF MovInv
      <4>3. QED
        BY <4>1, <4>2
    <3>3. QED
      BY <3>1, <3>2
  <2>4. QED
    BY <2>1, <2>2, <2>3 DEF MovInv, TypeOK, NewSample, consVars, workVars
<1>2. ConsumerInv(consumer)'
  BY DEF MovInv, ConsumerInv, NewSample, consVars, pipeVars, workVars, Sample, Parts, Rank,
         loop_frame_action, loop_requested_after
<1>3. StreamInv'
  BY DEF MovInv, StreamInv, Playing, Idle, NewSample, consVars, pipeVars, workVars, Sample,
         Parts, Rank, loop_frame_action, loop_requested_after
<1>4. LoopInv'
  BY DEF MovInv, TypeOK, LoopInv, StreamInv, Playing, Idle, OnBus, NewSample, consVars,
         pipeVars, workVars, Sample, Parts, Rank, loop_frame_action, loop_requested_after
<1>5. HeldFrameSurvivesSeek'
  <2>1. SUFFICES ASSUME worker' = "seek"
                 PROVE  transition' /\ openingAge' # NotAwaiting
    BY DEF HeldFrameSurvivesSeek
  <2>2. worker = "seek" /\ openingAge' = openingAge
    BY <2>1 DEF NewSample, workVars
  <2>3. loop_requested /\ position = "lead" /\ transition /\ openingAge # NotAwaiting
    BY <2>2 DEF MovInv, LoopInv, HeldFrameSurvivesSeek
  <2>4. f \in {"unknown", "lead"}
    BY <2>3 DEF NewSample, Rank, Parts, Sample
  <2>5. loop_frame_action(f) = "Drop"
    BY <2>3, <2>4 DEF loop_frame_action
  <2>6. transition' = transition
    BY <2>5 DEF NewSample
  <2>7. QED
    BY <2>2, <2>3, <2>6
<1>6. FailureInv' /\ FailureIsKept'
  BY MarkerAssumption DEF MovInv, TypeOK, FailureInv, FailureIsKept, StreamInv, Playing,
                          NewSample, consVars, pipeVars, workVars, Sample, Parts, Rank,
                          loop_frame_action, loop_requested_after
<1>7. QED
  BY <1>1, <1>2, <1>3, <1>4, <1>5, <1>6 DEF MovInv

\* A frame is published, and asks for the loop at most once (publish_frame).
LEMMA PublishKeeps ==
    ASSUME MovInv, NEW same \in BOOLEAN, NEW posted \in BOOLEAN, publish_frame(same, posted)
    PROVE  MovInv'
<1>1. TypeOK'
  BY TimeoutAssumption DEF MovInv, TypeOK, publish_frame, consVars, pipeVars, workVars, Frame,
                           KeepsTransition, NotAwaiting, Idle
<1>2. ConsumerInv(consumer)'
  BY DEF MovInv, ConsumerInv, publish_frame, consVars, pipeVars, workVars, Frame,
         KeepsTransition, NotAwaiting, Idle
<1>3. StreamInv'
  BY DEF MovInv, StreamInv, Playing, Idle, publish_frame, consVars, pipeVars, workVars, Frame,
         KeepsTransition, NotAwaiting
<1>4. LoopInv'
  BY DEF MovInv, TypeOK, LoopInv, StreamInv, Playing, Idle, OnBus, publish_frame, consVars,
         pipeVars, workVars, Frame, KeepsTransition, NotAwaiting
<1>5. HeldFrameSurvivesSeek'
  BY DEF MovInv, TypeOK, HeldFrameSurvivesSeek, LoopInv, NotAwaiting, publish_frame, consVars,
         pipeVars, workVars, Frame, KeepsTransition, Idle
<1>6. FailureInv' /\ FailureIsKept'
  BY MarkerAssumption DEF MovInv, TypeOK, FailureInv, FailureIsKept, StreamInv, Playing,
                          publish_frame, consVars, pipeVars, workVars, Frame, KeepsTransition,
                          NotAwaiting, Idle
<1>7. QED
  BY <1>1, <1>2, <1>3, <1>4, <1>5, <1>6 DEF MovInv

\* The pipeline is marked as faulted (Fault).
LEMMA FaultKeeps ==
    ASSUME MovInv, Fault
    PROVE  MovInv'
<1>1. TypeOK'
  BY TimeoutAssumption DEF MovInv, TypeOK, Fault, consVars, stateVars, pipeVars, workVars
<1>2. ConsumerInv(consumer)'
  BY DEF MovInv, ConsumerInv, Fault, consVars, stateVars, pipeVars, workVars
<1>3. StreamInv'
  BY DEF MovInv, StreamInv, Playing, Idle, Fault, consVars, stateVars, pipeVars, workVars
<1>4. LoopInv'
  BY DEF MovInv, TypeOK, LoopInv, StreamInv, Playing, Idle, OnBus, Fault, consVars, stateVars,
         pipeVars, workVars
<1>5. HeldFrameSurvivesSeek'
  BY DEF MovInv, TypeOK, HeldFrameSurvivesSeek, LoopInv, NotAwaiting, Fault, consVars,
         stateVars, pipeVars, workVars
<1>6. FailureInv' /\ FailureIsKept'
  BY MarkerAssumption DEF MovInv, TypeOK, FailureInv, FailureIsKept, StreamInv, Playing, Fault,
                          consVars, stateVars, pipeVars, workVars
<1>7. QED
  BY <1>1, <1>2, <1>3, <1>4, <1>5, <1>6 DEF MovInv

\* The pipeline reports its end or an error (BusMessage).
LEMMA BusKeeps ==
    ASSUME MovInv, NEW m \in {"Eos", "Error"}, BusMessage(m)
    PROVE  MovInv'
<1>1. TypeOK'
  BY TimeoutAssumption DEF MovInv, TypeOK, BusMessage, consVars, stateVars, pipeVars, workVars
<1>2. ConsumerInv(consumer)'
  BY DEF MovInv, ConsumerInv, BusMessage, consVars, stateVars, pipeVars, workVars
<1>3. StreamInv'
  BY DEF MovInv, StreamInv, Playing, Idle, BusMessage, consVars, stateVars, pipeVars, workVars
<1>4. LoopInv'
  BY DEF MovInv, TypeOK, LoopInv, StreamInv, Playing, Idle, OnBus, BusMessage, consVars,
         stateVars, pipeVars, workVars
<1>5. HeldFrameSurvivesSeek'
  BY DEF MovInv, TypeOK, HeldFrameSurvivesSeek, LoopInv, NotAwaiting, BusMessage, consVars,
         stateVars, pipeVars, workVars
<1>6. FailureInv' /\ FailureIsKept'
  BY MarkerAssumption DEF MovInv, TypeOK, FailureInv, FailureIsKept, StreamInv, Playing,
                          BusMessage, consVars, stateVars, pipeVars, workVars
<1>7. QED
  BY <1>1, <1>2, <1>3, <1>4, <1>5, <1>6 DEF MovInv

\* run_playback begins with no pipeline.
LEMMA RunKeeps ==
    ASSUME MovInv, RunPlayback
    PROVE  MovInv'
<1>1. TypeOK'
  BY TimeoutAssumption DEF MovInv, TypeOK, RunPlayback, consVars, stateVars, pipeVars, workVars
<1>2. ConsumerInv(consumer)'
  BY DEF MovInv, ConsumerInv, RunPlayback, consVars, stateVars, pipeVars, workVars
<1>3. StreamInv'
  BY DEF MovInv, StreamInv, Playing, Idle, RunPlayback, consVars, stateVars, pipeVars, workVars
<1>4. LoopInv'
  BY DEF MovInv, TypeOK, LoopInv, StreamInv, Playing, Idle, OnBus, RunPlayback, consVars,
         stateVars, pipeVars, workVars
<1>5. HeldFrameSurvivesSeek'
  BY DEF MovInv, TypeOK, HeldFrameSurvivesSeek, LoopInv, NotAwaiting, RunPlayback, consVars,
         stateVars, pipeVars, workVars
<1>6. FailureInv' /\ FailureIsKept'
  BY MarkerAssumption DEF MovInv, TypeOK, FailureInv, FailureIsKept, StreamInv, Playing,
                          RunPlayback, consVars, stateVars, pipeVars, workVars
<1>7. QED
  BY <1>1, <1>2, <1>3, <1>4, <1>5, <1>6 DEF MovInv

\* run_attempt begins with an empty bus.
LEMMA AttemptKeeps ==
    ASSUME MovInv, NEW ok \in BOOLEAN, BeginAttempt(ok)
    PROVE  MovInv'
<1>1. TypeOK'
  <2>1. bus' = << >> /\ bus' \in Seq({"Loop", "Eos", "Error"})
    BY DEF BeginAttempt
  <2>2. startAge' \in 0 .. MaxStartup
    BY Ages DEF BeginAttempt
  <2>3. QED
    BY <2>1, <2>2 DEF MovInv, TypeOK, BeginAttempt, consVars, stateVars, Parts
<1>2. ConsumerInv(consumer)'
  BY DEF MovInv, ConsumerInv, BeginAttempt, consVars, stateVars, pipeVars, workVars, Parts,
         MaxStartup
<1>3. StreamInv'
  BY DEF MovInv, StreamInv, Playing, Idle, BeginAttempt, consVars, stateVars, pipeVars,
         workVars, Parts, MaxStartup
<1>4. LoopInv'
  BY DEF MovInv, TypeOK, LoopInv, StreamInv, Playing, Idle, OnBus, BeginAttempt, consVars,
         stateVars, pipeVars, workVars, Parts, MaxStartup
<1>5. HeldFrameSurvivesSeek'
  BY DEF MovInv, TypeOK, HeldFrameSurvivesSeek, LoopInv, NotAwaiting, BeginAttempt, consVars,
         stateVars, pipeVars, workVars, Parts, MaxStartup
<1>6. FailureInv' /\ FailureIsKept'
  BY MarkerAssumption DEF MovInv, TypeOK, FailureInv, FailureIsKept, StreamInv, Playing,
                          BeginAttempt, consVars, stateVars, pipeVars, workVars, Parts,
                          MaxStartup
<1>7. QED
  BY <1>1, <1>2, <1>3, <1>4, <1>5, <1>6 DEF MovInv

\* A turn of monitor_pipeline.
LEMMA MonitorKeeps ==
    ASSUME MovInv, Monitor
    PROVE  MovInv'
<1>1. TypeOK'
  BY TimeoutAssumption DEF MovInv, TypeOK, Monitor, consVars, stateVars, pipeVars, workVars
<1>2. ConsumerInv(consumer)'
  BY DEF MovInv, ConsumerInv, Monitor, consVars, stateVars, pipeVars, workVars
<1>3. StreamInv'
  BY DEF MovInv, StreamInv, Playing, Idle, Monitor, consVars, stateVars, pipeVars, workVars
<1>4. LoopInv'
  BY DEF MovInv, TypeOK, LoopInv, StreamInv, Playing, Idle, OnBus, Monitor, consVars,
         stateVars, pipeVars, workVars
<1>5. HeldFrameSurvivesSeek'
  BY DEF MovInv, TypeOK, HeldFrameSurvivesSeek, LoopInv, NotAwaiting, Monitor, consVars,
         stateVars, pipeVars, workVars
<1>6. FailureInv' /\ FailureIsKept'
  BY MarkerAssumption DEF MovInv, TypeOK, FailureInv, FailureIsKept, StreamInv, Playing,
                          Monitor, consVars, stateVars, pipeVars, workVars
<1>7. QED
  BY <1>1, <1>2, <1>3, <1>4, <1>5, <1>6 DEF MovInv

\* The request goes from the bus to the worker (monitor_pipeline).
LEMMA PopKeeps ==
    ASSUME MovInv, Pop
    PROVE  MovInv'
<1>1. CASE bus = << >>
  <2>1. worker' = "monitor" /\ worker = "pop" /\ bus' = bus
        /\ UNCHANGED <<outcome, transition, openingAge, consVars, signalled, pending, failed,
                      last_frame, frameAge, loop_requested, mode, stopping, startAge, stream,
                      position, faulted>>
    BY <1>1 DEF Pop
  <2>2. QED
    BY <2>1 DEF MovInv, TypeOK, ConsumerInv, StreamInv, LoopInv, OnBus, Playing,
                HeldFrameSurvivesSeek, FailureInv, FailureIsKept, consVars
<1>2. CASE bus # << >>
  <2>1. /\ bus \in Seq({"Loop", "Eos", "Error"}) /\ Tail(bus) \in Seq({"Loop", "Eos", "Error"})
        /\ Len(bus) \in Nat \ {0} /\ Len(Tail(bus)) = Len(bus) - 1 /\ Head(bus) = bus[1]
        /\ \A i \in 1 .. Len(Tail(bus)) : Tail(bus)[i] = bus[i + 1] /\ i + 1 \in 1 .. Len(bus)
    BY <1>2, MovTypes DEF MovInv
  <2>2. /\ worker = "pop" /\ bus' = Tail(bus)
        /\ UNCHANGED <<consVars, signalled, pending, failed, last_frame, frameAge,
                      loop_requested, mode, stopping, startAge, stream, position, faulted>>
    BY <1>2 DEF Pop
  <2>3. CASE Head(bus) = "Loop"
    <3>1. worker' = "seek" /\ transition' = last_frame /\ openingAge' = 0 /\ outcome' = outcome
      BY <1>2, <2>3 DEF Pop, begin_loop_at
    <3>2. 1 \in 1 .. Len(bus) /\ OnBus
      BY <2>1, <2>3 DEF OnBus
    <3>3. ~OnBus'
      <4>1. ASSUME NEW i \in 1 .. Len(Tail(bus)), Tail(bus)[i] = "Loop"
            PROVE  FALSE
        <5>1. bus[i + 1] = "Loop" /\ i + 1 \in 1 .. Len(bus) /\ bus[1] = "Loop"
          BY <2>1, <2>3, <4>1
        <5>2. i + 1 = 1
          BY <3>2, <5>1 DEF MovInv, LoopInv
        <5>3. QED
          BY <5>2
      <4>2. QED
        BY <2>2, <4>1 DEF OnBus
    <3>4. last_frame /\ loop_requested /\ position = "lead" /\ ~stream.busy
      BY <3>2 DEF MovInv, LoopInv
    <3>5. TypeOK'
      BY <2>1, <2>2, <3>1, Ages DEF MovInv, TypeOK, consVars
    <3>6. ConsumerInv(consumer)' /\ StreamInv'
      BY <2>2, <3>1 DEF MovInv, ConsumerInv, StreamInv, Playing, consVars
    <3>7. LoopInv'
      <4>1. \A i, j \in 1 .. Len(bus') : bus'[i] = "Loop" /\ bus'[j] = "Loop" => i = j
        BY <3>3 DEF OnBus
      <4>2. QED
        BY <2>2, <3>1, <3>3, <3>4, <4>1 DEF LoopInv
    <3>8. HeldFrameSurvivesSeek'
      BY <3>1, <3>4, Ages DEF HeldFrameSurvivesSeek
    <3>9. FailureInv' /\ FailureIsKept'
      BY <2>2, <3>1 DEF MovInv, FailureInv, FailureIsKept, consVars
    <3>10. QED
      BY <3>5, <3>6, <3>7, <3>8, <3>9 DEF MovInv
  <2>4. CASE Head(bus) # "Loop"
    <3>1. /\ worker' = "null" /\ outcome' = "Failed"
          /\ UNCHANGED <<transition, openingAge>>
      BY <1>2, <2>4 DEF Pop
    <3>2. OnBus' => OnBus
      BY <2>1, <2>2 DEF OnBus
    <3>3. TypeOK'
      BY <2>1, <2>2, <3>1 DEF MovInv, TypeOK, consVars
    <3>4. ConsumerInv(consumer)' /\ StreamInv'
      BY <2>2, <3>1 DEF MovInv, ConsumerInv, StreamInv, Playing, consVars
    <3>5. LoopInv'
      <4>1. ASSUME NEW i \in 1 .. Len(bus'), NEW j \in 1 .. Len(bus'),
                   bus'[i] = "Loop", bus'[j] = "Loop"
            PROVE  i = j
        <5>1. /\ i + 1 \in 1 .. Len(bus) /\ j + 1 \in 1 .. Len(bus)
              /\ bus[i + 1] = "Loop" /\ bus[j + 1] = "Loop"
          BY <2>1, <2>2, <4>1
        <5>2. i + 1 = j + 1
          BY <5>1 DEF MovInv, LoopInv
        <5>3. QED
          BY <5>2
      <4>2. QED
        BY <2>2, <3>1, <3>2, <4>1 DEF MovInv, LoopInv
    <3>6. HeldFrameSurvivesSeek'
      BY <3>1 DEF HeldFrameSurvivesSeek
    <3>7. FailureInv' /\ FailureIsKept'
      BY <2>2, <3>1 DEF MovInv, FailureInv, FailureIsKept, consVars
    <3>8. QED
      BY <3>3, <3>4, <3>5, <3>6, <3>7 DEF MovInv
  <2>5. QED
    BY <2>3, <2>4
<1>3. QED
  BY <1>1, <1>2

\* The flushing seek ends the pass (monitor_pipeline).
LEMMA SeekKeeps ==
    ASSUME MovInv, NEW ok \in BOOLEAN, Seek(ok)
    PROVE  MovInv'
<1>1. TypeOK'
  BY TimeoutAssumption DEF MovInv, TypeOK, Seek, consVars, stateVars, pipeVars, workVars, Parts
<1>2. ConsumerInv(consumer)'
  BY DEF MovInv, ConsumerInv, Seek, consVars, stateVars, pipeVars, workVars, Parts
<1>3. StreamInv'
  BY DEF MovInv, StreamInv, Playing, Idle, Seek, consVars, stateVars, pipeVars, workVars, Parts
<1>4. LoopInv'
  BY DEF MovInv, TypeOK, LoopInv, StreamInv, Playing, Idle, OnBus, Seek, consVars, stateVars,
         pipeVars, workVars, Parts
<1>5. HeldFrameSurvivesSeek'
  BY DEF MovInv, TypeOK, HeldFrameSurvivesSeek, LoopInv, NotAwaiting, Seek, consVars,
         stateVars, pipeVars, workVars, Parts
<1>6. FailureInv' /\ FailureIsKept'
  BY MarkerAssumption DEF MovInv, TypeOK, FailureInv, FailureIsKept, StreamInv, Playing, Seek,
                          consVars, stateVars, pipeVars, workVars, Parts
<1>7. QED
  BY <1>1, <1>2, <1>3, <1>4, <1>5, <1>6 DEF MovInv

\* set_state(Null) ends the pipeline.
LEMMA NullKeeps ==
    ASSUME MovInv, Null
    PROVE  MovInv'
<1>1. TypeOK'
  BY TimeoutAssumption DEF MovInv, TypeOK, Null, consVars, stateVars, pipeVars, workVars
<1>2. ConsumerInv(consumer)'
  BY DEF MovInv, ConsumerInv, Null, consVars, stateVars, pipeVars, workVars
<1>3. StreamInv'
  BY DEF MovInv, StreamInv, Playing, Idle, Null, consVars, stateVars, pipeVars, workVars
<1>4. LoopInv'
  BY DEF MovInv, TypeOK, LoopInv, StreamInv, Playing, Idle, OnBus, Null, consVars, stateVars,
         pipeVars, workVars
<1>5. HeldFrameSurvivesSeek'
  BY DEF MovInv, TypeOK, HeldFrameSurvivesSeek, LoopInv, NotAwaiting, Null, consVars,
         stateVars, pipeVars, workVars
<1>6. FailureInv' /\ FailureIsKept'
  BY MarkerAssumption DEF MovInv, TypeOK, FailureInv, FailureIsKept, StreamInv, Playing, Null,
                          consVars, stateVars, pipeVars, workVars
<1>7. QED
  BY <1>1, <1>2, <1>3, <1>4, <1>5, <1>6 DEF MovInv

\* run_playback after an attempt.
LEMMA AfterKeeps ==
    ASSUME MovInv, AfterAttempt
    PROVE  MovInv'
<1>1. TypeOK'
  BY TimeoutAssumption DEF MovInv, TypeOK, AfterAttempt, consVars, stateVars, pipeVars,
                           workVars, should_retry_with_software
<1>2. ConsumerInv(consumer)'
  BY DEF MovInv, ConsumerInv, AfterAttempt, consVars, stateVars, pipeVars, workVars,
         should_retry_with_software
<1>3. StreamInv'
  BY DEF MovInv, StreamInv, Playing, Idle, AfterAttempt, consVars, stateVars, pipeVars,
         workVars, should_retry_with_software
<1>4. LoopInv'
  BY DEF MovInv, TypeOK, LoopInv, StreamInv, Playing, Idle, OnBus, AfterAttempt, consVars,
         stateVars, pipeVars, workVars, should_retry_with_software
<1>5. HeldFrameSurvivesSeek'
  BY DEF MovInv, TypeOK, HeldFrameSurvivesSeek, LoopInv, NotAwaiting, AfterAttempt, consVars,
         stateVars, pipeVars, workVars, should_retry_with_software
<1>6. FailureInv' /\ FailureIsKept'
  BY MarkerAssumption DEF MovInv, TypeOK, FailureInv, FailureIsKept, StreamInv, Playing,
                          AfterAttempt, consVars, stateVars, pipeVars, workVars,
                          should_retry_with_software
<1>7. QED
  BY <1>1, <1>2, <1>3, <1>4, <1>5, <1>6 DEF MovInv

\* fail_once publishes the failure.
LEMMA FailKeeps ==
    ASSUME MovInv, FailOnce
    PROVE  MovInv'
<1>1. TypeOK'
  <2>1. frameAge' \in 0 .. FrameStall /\ openingAge' \in 0 .. NotAwaiting
    BY Ages DEF FailOnce
  <2>2. QED
    BY <2>1 DEF MovInv, TypeOK, FailOnce, consVars, pipeVars
<1>2. ConsumerInv(consumer)'
  BY DEF MovInv, ConsumerInv, FailOnce, consVars, pipeVars, workVars, NotAwaiting
<1>3. StreamInv'
  BY DEF MovInv, StreamInv, Playing, Idle, FailOnce, consVars, pipeVars, workVars, NotAwaiting
<1>4. LoopInv'
  BY DEF MovInv, TypeOK, LoopInv, StreamInv, Playing, Idle, OnBus, FailOnce, consVars,
         pipeVars, workVars, NotAwaiting
<1>5. HeldFrameSurvivesSeek'
  BY DEF MovInv, TypeOK, HeldFrameSurvivesSeek, LoopInv, NotAwaiting, FailOnce, consVars,
         pipeVars, workVars
<1>6. FailureInv' /\ FailureIsKept'
  BY MarkerAssumption DEF MovInv, TypeOK, FailureInv, FailureIsKept, StreamInv, Playing,
                          FailOnce, consVars, pipeVars, workVars, NotAwaiting
<1>7. QED
  BY <1>1, <1>2, <1>3, <1>4, <1>5, <1>6 DEF MovInv

\* Time passes.
LEMMA TickKeeps ==
    ASSUME MovInv, Tick
    PROVE  MovInv'
<1>1. TypeOK'
  BY TimeoutAssumption DEF MovInv, TypeOK, Tick, consVars, pipeVars, workVars, NotAwaiting,
                           MaxStartup, startup_timeout
<1>2. ConsumerInv(consumer)'
  BY DEF MovInv, ConsumerInv, Tick, consVars, pipeVars, workVars, NotAwaiting, startup_timeout
<1>3. StreamInv'
  BY DEF MovInv, StreamInv, Playing, Idle, Tick, consVars, pipeVars, workVars, NotAwaiting,
         startup_timeout
<1>4. LoopInv'
  BY DEF MovInv, TypeOK, LoopInv, StreamInv, Playing, Idle, OnBus, Tick, consVars, pipeVars,
         workVars, NotAwaiting, MaxStartup, startup_timeout
<1>5. HeldFrameSurvivesSeek'
  <2>1. openingAge # NotAwaiting => openingAge' # NotAwaiting
    <3>1. openingAge \in 0 .. NotAwaiting /\ NotAwaiting = SeekStall + 1 /\ SeekStall \in Nat
      BY Ages DEF MovInv, TypeOK
    <3>2. openingAge # NotAwaiting =>
            openingAge' = IF openingAge < SeekStall THEN openingAge + 1 ELSE openingAge
      BY DEF Tick
    <3>3. QED
      BY <3>1, <3>2
  <2>2. QED
    BY <2>1 DEF MovInv, HeldFrameSurvivesSeek, Tick, workVars
<1>6. FailureInv' /\ FailureIsKept'
  BY MarkerAssumption DEF MovInv, TypeOK, FailureInv, FailureIsKept, StreamInv, Playing, Tick,
                          consVars, pipeVars, workVars, NotAwaiting, MaxStartup,
                          startup_timeout
<1>7. QED
  BY <1>1, <1>2, <1>3, <1>4, <1>5, <1>6 DEF MovInv

\* join returns (Drop for Player).
LEMMA JoinedKeeps ==
    ASSUME MovInv, Joined
    PROVE  MovInv'
<1>1. TypeOK'
  BY TimeoutAssumption DEF MovInv, TypeOK, Joined, consVars, stateVars, pipeVars, workVars
<1>2. ConsumerInv(consumer)'
  BY DEF MovInv, ConsumerInv, Joined, consVars, stateVars, pipeVars, workVars
<1>3. StreamInv'
  BY DEF MovInv, StreamInv, Playing, Idle, Joined, consVars, stateVars, pipeVars, workVars
<1>4. LoopInv'
  BY DEF MovInv, TypeOK, LoopInv, StreamInv, Playing, Idle, OnBus, Joined, consVars, stateVars,
         pipeVars, workVars
<1>5. HeldFrameSurvivesSeek'
  BY DEF MovInv, TypeOK, HeldFrameSurvivesSeek, LoopInv, NotAwaiting, Joined, consVars,
         stateVars, pipeVars, workVars
<1>6. FailureInv' /\ FailureIsKept'
  BY MarkerAssumption DEF MovInv, TypeOK, FailureInv, FailureIsKept, StreamInv, Playing,
                          Joined, consVars, stateVars, pipeVars, workVars
<1>7. QED
  BY <1>1, <1>2, <1>3, <1>4, <1>5, <1>6 DEF MovInv

\* What a step of the consumer makes of its record: c is after it, d before.
Follows(d, c) ==
    /\ c.kind = d.kind /\ c.poster = d.poster
    /\ c.source => d.source

\* stop_playback gives the player up and keeps the frame.
LEMMA Stopped ==
    ASSUME NEW F, NEW c \in Consumer(F), c.frame = NoFrame => c.poster = NoFrame
    PROVE  /\ stop_playback(c) \in Consumer(F) /\ Follows(c, stop_playback(c))
           /\ ~stop_playback(c).source /\ ~stop_playback(c).allocating
           /\ stop_playback(c).uploading = c.uploading
           /\ stop_playback(c).frame = c.frame
  BY DEF Consumer, stop_playback, Follows

\* prepare_latest uploads a frame and stops at a failure.
LEMMA Prepared ==
    ASSUME NEW F, NoFrame \notin F, Failed \notin F, NoFrame # Failed,
           NEW c \in Consumer(F), ConsumerInv(c), Takes(c), c.kind = "login",
           NEW update \in F \cup {NoFrame, Failed}
    PROVE  /\ prepare_latest(c, update) \in Consumer(F)
           /\ ConsumerInv(prepare_latest(c, update)) /\ Follows(c, prepare_latest(c, update))
           /\ prepare_latest(c, update).source <=> update # Failed
           /\ prepare_latest(c, update).frame = c.frame
           /\ prepare_latest(c, update).uploading = IF update = Failed THEN NoFrame ELSE update
<1>1. c.source /\ ~c.allocating /\ c.uploading = NoFrame /\ c.allocating \in BOOLEAN
  BY DEF Takes, ConsumerInv, Consumer
<1>2. CASE update = NoFrame
  BY <1>1, <1>2 DEF prepare_latest, Follows
<1>3. CASE update = Failed
  <2>1. prepare_latest(c, update) = stop_playback(c)
    BY <1>3 DEF prepare_latest
  <2>2. c.frame = NoFrame => c.poster = NoFrame
    BY DEF ConsumerInv
  <2>3. /\ stop_playback(c) \in Consumer(F) /\ Follows(c, stop_playback(c))
        /\ ~stop_playback(c).source /\ ~stop_playback(c).allocating
        /\ stop_playback(c).uploading = c.uploading /\ stop_playback(c).frame = c.frame
    BY <2>2, Stopped
  <2>4. ConsumerInv(stop_playback(c))
    BY <1>1, <2>2, <2>3 DEF ConsumerInv, Follows
  <2>5. QED
    BY <1>1, <1>3, <2>1, <2>3, <2>4
<1>4. CASE update \in F
  <2>1. prepare_latest(c, update) = [c EXCEPT !.allocating = TRUE, !.uploading = update]
    BY <1>4 DEF prepare_latest
  <2>2. QED
    BY <1>1, <1>4, <2>1 DEF ConsumerInv, Consumer, Follows
<1>5. QED
  BY <1>2, <1>3, <1>4

\* receive_latest shows a frame and stops at a failure.
LEMMA Received ==
    ASSUME NEW F, NoFrame \notin F, Failed \notin F, NoFrame # Failed,
           NEW c \in Consumer(F), ConsumerInv(c), ~c.allocating, c.source,
           NEW update \in F \cup {Failed}
    PROVE  /\ receive_latest(c, update) \in Consumer(F)
           /\ ConsumerInv(receive_latest(c, update)) /\ Follows(c, receive_latest(c, update))
           /\ receive_latest(c, update).source <=> update # Failed
           /\ receive_latest(c, update).frame = IF update = Failed THEN c.frame ELSE update
           /\ receive_latest(c, update).uploading = NoFrame
<1>1. c.uploading = NoFrame /\ c.allocating \in BOOLEAN
  BY DEF ConsumerInv, Consumer
<1>2. CASE update = Failed
  <2>1. receive_latest(c, update) = stop_playback(c)
    BY <1>2 DEF receive_latest
  <2>2. c.frame = NoFrame => c.poster = NoFrame
    BY DEF ConsumerInv
  <2>3. /\ stop_playback(c) \in Consumer(F) /\ Follows(c, stop_playback(c))
        /\ ~stop_playback(c).source /\ ~stop_playback(c).allocating
        /\ stop_playback(c).uploading = c.uploading /\ stop_playback(c).frame = c.frame
    BY <2>2, Stopped
  <2>4. ConsumerInv(stop_playback(c))
    BY <1>1, <2>2, <2>3 DEF ConsumerInv, Follows
  <2>5. QED
    BY <1>1, <1>2, <2>1, <2>3, <2>4
<1>3. CASE update \in F
  <2>1. receive_latest(c, update) = [c EXCEPT !.frame = update, !.adopted = c.adopted \/ c.source]
    BY <1>3 DEF receive_latest, Adopt
  <2>2. QED
    BY <1>1, <1>3, <2>1 DEF ConsumerInv, Consumer, Follows
<1>4. QED
  BY <1>2, <1>3

\* finish_allocation shows the frame it uploaded unless the player failed.
LEMMA FinishedUpload ==
    ASSUME NEW F, NoFrame \notin F,
           NEW c \in Consumer(F), ConsumerInv(c), c.uploading # NoFrame,
           NEW broken \in BOOLEAN, NEW ok \in BOOLEAN
    PROVE  LET d == finish_allocation(c, broken, ok) IN
           /\ d \in Consumer(F) /\ ConsumerInv(d) /\ Follows(c, d)
           /\ ~d.allocating /\ d.uploading = NoFrame
           /\ d.frame = IF broken \/ ~ok THEN c.frame ELSE c.uploading
<1> DEFINE done == [c EXCEPT !.allocating = FALSE, !.uploading = NoFrame]
<1>1. c.allocating /\ c.source /\ c.uploading \in F
  BY DEF ConsumerInv, Consumer
<1>2. /\ done \in Consumer(F) /\ done.frame = c.frame /\ done.poster = c.poster
      /\ done.kind = c.kind /\ done.source = c.source /\ ~done.allocating
      /\ done.uploading = NoFrame /\ done.adopted = c.adopted
  BY DEF Consumer
<1>3. c.frame = NoFrame => c.poster = NoFrame
  BY DEF ConsumerInv
<1>4. CASE broken \/ ~ok
  <2>1. finish_allocation(c, broken, ok) = stop_playback(done)
    BY <1>1, <1>4 DEF finish_allocation
  <2> HIDE DEF done
  <2>2. QED
    BY <1>2, <1>3, <1>4, <2>1, Stopped DEF ConsumerInv, Follows
<1>5. CASE ~(broken \/ ~ok)
  <2>1. finish_allocation(c, broken, ok)
          = [done EXCEPT !.frame = c.uploading, !.adopted = done.adopted \/ done.source]
    BY <1>1, <1>5 DEF finish_allocation, Adopt
  <2> HIDE DEF done
  <2>2. QED
    BY <1>1, <1>2, <1>3, <1>5, <2>1 DEF ConsumerInv, Follows, Consumer
<1>6. QED
  BY <1>4, <1>5

\* A step of the consumer, which may drop the player (Drop for Player).
LEMMA ConsumerStep ==
    ASSUME MovInv, NEW c \in Consumer(Frame), ConsumerInv(c), Dropping(c),
           pending' \in Frame \cup {NoFrame, Failed}, signalled' \in BOOLEAN,
           failed /\ worker = "done" /\ c.source => pending' = Failed,
           UNCHANGED <<failed, stateVars, loop_requested, worker, mode, outcome, startAge,
                       pipeVars>>
    PROVE  MovInv'
<1>1. c.source \in BOOLEAN /\ consumer.source \in BOOLEAN
  BY DEF MovInv, TypeOK, Consumer
<1>2. consumer' = c /\ joining' \in BOOLEAN /\ stopping' \in BOOLEAN
  BY <1>1, MovTypes DEF Dropping, MovInv
<1>3. TypeOK'
  BY <1>2 DEF MovInv, TypeOK, stateVars, pipeVars
<1>4. ConsumerInv(consumer)'
  BY <1>2 DEF ConsumerInv
<1>5. StreamInv' /\ LoopInv' /\ HeldFrameSurvivesSeek'
  BY DEF MovInv, StreamInv, LoopInv, OnBus, HeldFrameSurvivesSeek, Playing, stateVars, pipeVars
<1>6. FailureInv' /\ FailureIsKept'
  BY <1>2 DEF MovInv, FailureInv, FailureIsKept
<1>7. QED
  BY <1>3, <1>4, <1>5, <1>6 DEF MovInv

\* What the lemmas on a consumer's record need of this player's frames.
LEMMA MovFrames ==
    ASSUME MovInv
    PROVE  /\ NoFrame \notin Frame /\ Failed \notin Frame /\ NoFrame # Failed
           /\ consumer \in Consumer(Frame) /\ ConsumerInv(consumer)
           /\ pending \in Frame \cup {NoFrame, Failed} /\ failed \in BOOLEAN
           /\ signalled \in BOOLEAN
           /\ failed /\ worker = "done" /\ consumer.source => pending = Failed
  BY MarkerAssumption, MovTypes DEF MovInv, TypeOK, FailureIsKept

\* The greeter's handler of WallpaperAllocated, in which no failure gets lost; once the
\* worker has failed the frame stays.
LEMMA AllocatedKeeps ==
    ASSUME MovInv, NEW ok \in BOOLEAN, WallpaperAllocated(ok)
    PROVE  MovInv' /\ (failed => consumer'.frame = consumer.frame)
<1> DEFINE d == finish_allocation(consumer, failed, ok)
<1>1. /\ d \in Consumer(Frame) /\ ConsumerInv(d) /\ Follows(consumer, d)
      /\ d.frame = IF failed \/ ~ok THEN consumer.frame ELSE consumer.uploading
      /\ ~d.allocating /\ d.kind = "login"
  <2>1. consumer.uploading # NoFrame /\ consumer.kind = "login"
    BY MovFrames DEF WallpaperAllocated, ConsumerInv
  <2>2. QED
    BY <2>1, MovFrames, FinishedUpload DEF Follows
<1>2. UNCHANGED <<signalled, failed, stateVars, loop_requested, worker, mode, outcome, startAge,
                  pipeVars>>
  BY DEF WallpaperAllocated
<1>3. CASE Takes(d)
  <2> DEFINE c == prepare_latest(d, pending)
  <2>1. Dropping(c) /\ pending' = NoFrame
    BY <1>3 DEF WallpaperAllocated
  <2> HIDE DEF d
  <2>2. /\ c \in Consumer(Frame) /\ ConsumerInv(c) /\ Follows(d, c)
        /\ (c.source <=> pending # Failed) /\ c.frame = d.frame
    BY <1>1, <1>3, MovFrames, Prepared
  <2> HIDE DEF c
  <2>3. failed /\ worker = "done" /\ c.source => pending' = Failed
    BY <1>1, <2>2, MovFrames DEF Follows
  <2>4. MovInv'
    BY <1>2, <2>1, <2>2, <2>3, MovFrames, ConsumerStep
  <2>5. QED
    BY <1>1, <2>1, <2>2, <2>4 DEF Dropping
<1>4. CASE ~Takes(d)
  <2>1. Dropping(d) /\ pending' = pending
    BY <1>4 DEF WallpaperAllocated
  <2> HIDE DEF d
  <2>2. failed /\ worker = "done" /\ d.source => pending' = Failed
    BY <1>1, <2>1, MovFrames DEF Follows
  <2>3. MovInv'
    BY <1>1, <1>2, <2>1, <2>2, MovFrames, ConsumerStep
  <2>4. QED
    BY <1>1, <2>1, <2>3 DEF Dropping
<1>5. QED
  BY <1>3, <1>4

\* The greeter's handler of WallpaperFrameReady.
LEMMA ReadyKeeps ==
    ASSUME MovInv, WallpaperFrameReady
    PROVE  MovInv' /\ consumer'.frame = consumer.frame
<1>1. /\ UNCHANGED <<failed, stateVars, loop_requested, worker, mode, outcome, startAge,
                     pipeVars>>
      /\ signalled' = FALSE /\ consumer.source /\ consumer.kind = "login"
  BY DEF WallpaperFrameReady
<1>2. CASE Takes(consumer)
  <2> DEFINE c == prepare_latest(consumer, pending)
  <2>1. Dropping(c) /\ pending' = NoFrame
    BY <1>2 DEF WallpaperFrameReady
  <2>2. /\ c \in Consumer(Frame) /\ ConsumerInv(c)
        /\ (c.source <=> pending # Failed) /\ c.frame = consumer.frame
    BY <1>1, <1>2, MovFrames, Prepared
  <2> HIDE DEF c
  <2>3. failed /\ worker = "done" /\ c.source => pending' = Failed
    BY <1>1, <2>2, MovFrames
  <2>4. MovInv'
    BY <1>1, <2>1, <2>2, <2>3, MovFrames, ConsumerStep
  <2>5. QED
    BY <2>1, <2>2, <2>4 DEF Dropping
<1>3. CASE ~Takes(consumer)
  <2>1. UNCHANGED <<consVars, stopping, pending>>
    BY <1>3 DEF WallpaperFrameReady
  <2>2. TypeOK'
    <3>1. signalled' \in BOOLEAN
      BY <1>1
    <3>2. UNCHANGED <<failed, stateVars, loop_requested, worker, mode, outcome, startAge,
                        pipeVars>>
      BY <1>1
    <3>3. QED
      BY <2>1, <3>1, <3>2 DEF MovInv, TypeOK, consVars, stateVars, pipeVars
  <2>3. ConsumerInv(consumer)' /\ StreamInv' /\ LoopInv' /\ HeldFrameSurvivesSeek'
    BY <1>1, <2>1 DEF MovInv, ConsumerInv, StreamInv, LoopInv, OnBus, Playing,
                      HeldFrameSurvivesSeek, consVars, stateVars, pipeVars
  <2>4. FailureInv' /\ FailureIsKept'
    BY <1>1, <2>1 DEF MovInv, FailureInv, FailureIsKept, consVars
  <2>5. QED
    BY <1>1, <2>1, <2>2, <2>3, <2>4 DEF MovInv, consVars
<1>4. QED
  BY <1>2, <1>3

\* The locker's receive_deferred.
LEMMA DeferredKeeps ==
    ASSUME MovInv, ReceiveDeferred
    PROVE  MovInv' /\ consumer.kind = "lock"
<1> DEFINE c == receive_latest(consumer, pending)
<1>1. /\ UNCHANGED <<signalled, failed, stateVars, loop_requested, worker, mode, outcome,
                     startAge, pipeVars>>
      /\ pending # NoFrame /\ pending' = NoFrame /\ consumer.source /\ Dropping(c)
      /\ consumer.kind = "lock"
  BY DEF ReceiveDeferred
<1>2. pending \in Frame \cup {Failed} /\ ~consumer.allocating
  BY <1>1, MovFrames DEF ConsumerInv
<1>3. c \in Consumer(Frame) /\ ConsumerInv(c) /\ (c.source <=> pending # Failed)
  BY <1>1, <1>2, MovFrames, Received
<1> HIDE DEF c
<1>4. failed /\ worker = "done" /\ c.source => pending' = Failed
  BY <1>1, <1>3, MovFrames
<1>5. QED
  BY <1>1, <1>3, <1>4, MovFrames, ConsumerStep

\* The consumer ends.
LEMMA QuitKeeps ==
    ASSUME MovInv, Quit
    PROVE  MovInv' /\ consumer'.frame = consumer.frame
<1> DEFINE c == [consumer EXCEPT !.source = FALSE, !.allocating = FALSE, !.uploading = NoFrame]
<1>1. c \in Consumer(Frame) /\ ConsumerInv(c) /\ ~c.source /\ c.frame = consumer.frame
  BY MovFrames DEF Consumer, ConsumerInv
<1>2. /\ Dropping(c)
      /\ UNCHANGED <<signalled, pending, failed, stateVars, loop_requested, worker, mode,
                     outcome, startAge, pipeVars>>
  BY DEF Quit
<1> HIDE DEF c
<1>3. MovInv'
  BY <1>1, <1>2, MovFrames, ConsumerStep
<1>4. QED
  BY <1>1, <1>2, <1>3 DEF Dropping

\* A player starts with no pipeline (Player::start).
LEMMA MovInit == Init => MovInv
<1> SUFFICES ASSUME Init PROVE MovInv
  OBVIOUS
<1>1. consumer \in Consumer(Frame) /\ ConsumerInv(consumer)
  BY DEF Init, start, Consumer, ConsumerInv, Kinds
<1>2. /\ stream \in [busy : BOOLEAN, frame : Sample \cup {NoFrame}, taken : BOOLEAN,
                     request : BOOLEAN]
      /\ stream = Idle /\ ~stream.busy /\ ~stream.request
  BY DEF Init, Idle
<1>3. bus = << >> /\ bus \in Seq({"Loop", "Eos", "Error"}) /\ ~OnBus
  BY DEF Init, OnBus
<1>4. TypeOK
  BY <1>1, <1>2, <1>3, Ages DEF Init, TypeOK, Parts
<1>5. StreamInv /\ LoopInv /\ HeldFrameSurvivesSeek /\ FailureInv /\ FailureIsKept
  BY <1>2, <1>3 DEF Init, StreamInv, LoopInv, HeldFrameSurvivesSeek, FailureInv, FailureIsKept,
                    OnBus
<1>6. QED
  BY <1>1, <1>4, <1>5 DEF MovInv

\* Every step of the player, and the frame of the greeter after a failure.
LEMMA MovStep ==
    ASSUME MovInv, Next
    PROVE  MovInv' /\ NoFrameAfterFailure
<1>1. CASE Worker
  <2>1. MovInv'
    BY <1>1, RunKeeps, AttemptKeeps, MonitorKeeps, PopKeeps, SeekKeeps, NullKeeps, AfterKeeps,
       FailKeeps DEF Worker
  <2>2. consumer' = consumer
    BY <1>1 DEF Worker, RunPlayback, BeginAttempt, Monitor, Pop, Seek, Null, AfterAttempt,
                FailOnce, consVars
  <2>3. QED
    BY <2>1, <2>2 DEF NoFrameAfterFailure
<1>2. CASE PublishFrame
  BY <1>2, PublishKeeps DEF PublishFrame, publish_frame, consVars, NoFrameAfterFailure
<1>3. CASE Take
  BY <1>3, ReadyKeeps, DeferredKeeps, JoinedKeeps DEF Take, Joined, NoFrameAfterFailure
<1>4. CASE Allocated
  BY <1>4, AllocatedKeeps DEF Allocated, NoFrameAfterFailure
<1>5. CASE Tick
  BY <1>5, TickKeeps DEF Tick, consVars, NoFrameAfterFailure
<1>6. CASE Quit
  BY <1>6, QuitKeeps DEF NoFrameAfterFailure
<1>7. CASE UNCHANGED vars
  BY <1>7 DEF MovInv, TypeOK, ConsumerInv, StreamInv, LoopInv, OnBus, Playing,
              HeldFrameSurvivesSeek, FailureInv, FailureIsKept, NoFrameAfterFailure, vars,
              consVars, stateVars, workVars, pipeVars
<1>8. CASE \E f \in Sample : NewSample(f)
  BY <1>8, SampleKeeps DEF NewSample, consVars, NoFrameAfterFailure
<1>9. CASE Fault
  BY <1>9, FaultKeeps DEF Fault, consVars, NoFrameAfterFailure
<1>10. CASE \E m \in {"Eos", "Error"} : BusMessage(m)
  BY <1>10, BusKeeps DEF BusMessage, consVars, NoFrameAfterFailure
<1>11. QED
  BY <1>1, <1>2, <1>3, <1>4, <1>5, <1>6, <1>7, <1>8, <1>9, <1>10 DEF Next, Finished

\* At most one request is on the bus.
LEMMA MovImplies ==
    ASSUME MovInv
    PROVE  TypeOK /\ LoopRequestIsCurrent /\ HeldFrameSurvivesSeek /\ FailureIsKept
<1>1. DOMAIN bus = 1 .. Len(bus)
  BY MovTypes DEF MovInv
<1> DEFINE requests == {i \in DOMAIN bus : bus[i] = "Loop"}
<1>2. \A i, j \in requests : i = j
  BY <1>1 DEF MovInv, LoopInv
<1>3. Cardinality(requests) <= 1
  <2>1. CASE requests = {}
    BY <2>1, FS_EmptySet
  <2>2. CASE requests # {}
    <3>1. PICK i \in requests : TRUE
      BY <2>2
    <3>2. requests = {i}
      BY <1>2, <3>1
    <3> HIDE DEF requests
    <3>3. QED
      BY <3>2, FS_Singleton
  <2>3. QED
    BY <2>1, <2>2
<1>4. (\E i \in DOMAIN bus : bus[i] = "Loop") \/ worker = "seek" =>
        loop_requested /\ position = "lead"
  BY <1>1 DEF MovInv, LoopInv, OnBus
<1>5. QED
  BY <1>3, <1>4 DEF MovInv, LoopRequestIsCurrent

-----------------------------------------------------------------------------
(* The player of a dynamic image *)

\* What Heic!TypeOK says of each variable, and the places of the order as numbers.
LEMMA HeicTypes ==
    ASSUME HeicInv
    PROVE  /\ h_consumer \in Consumer(Heic!Frame) /\ ConsumerInv(h_consumer)
           /\ h_signalled \in BOOLEAN /\ h_failed \in BOOLEAN /\ h_stopping \in BOOLEAN
           /\ h_slot \in BOOLEAN /\ h_host \in BOOLEAN
           /\ h_pipe \in Seq(Heic!Frame \cup {Failed, Torn}) /\ Len(h_pipe) \in Nat
           /\ h_pending \in Heic!Frame \cup {NoFrame, Failed}
           /\ h_relayed \in Heic!Frame \cup {NoFrame}
           /\ h_written \in Nat /\ Heic!Frame \subseteq Nat
           /\ NoFrame \notin Heic!Frame /\ Failed \notin Heic!Frame /\ NoFrame # Failed
           /\ Torn \notin Heic!Frame /\ Poster \notin Heic!Frame
           /\ Heic!Order(h_consumer.frame) \in Nat /\ Uploaded \in Nat /\ Given \in Nat
           /\ Got \in Nat
<1>1. /\ Heic!Frame \subseteq Nat /\ NoFrame \notin Heic!Frame /\ Failed \notin Heic!Frame
      /\ NoFrame # Failed /\ Torn \notin Heic!Frame /\ Poster \notin Heic!Frame
      /\ h_written \in Nat
  BY HeicAssumption DEF HeicInv, Heic!TypeOK, Heic!SizeAssumption, Heic!Frame
<1>2. /\ h_consumer \in Consumer(Heic!Frame) /\ ConsumerInv(h_consumer)
  BY DEF HeicInv, Heic!TypeOK, Heic!Consumer, Consumer, Heic!Kinds, Kinds
<1>3. Heic!Order(h_consumer.frame) \in Nat /\ Uploaded \in Nat
  BY <1>1, <1>2 DEF Consumer, Heic!Order, Uploaded
<1>4. Given \in Nat /\ Got \in Nat
  BY <1>1, <1>3 DEF Given, Got, HeicInv, Heic!TypeOK
<1>5. QED
  BY <1>1, <1>2, <1>3, <1>4 DEF HeicInv, Heic!TypeOK

\* Command::spawn of the decoder, which may fail.
LEMMA SpawnKeeps ==
    ASSUME HeicInv, NEW ok \in BOOLEAN, Heic!Spawn(ok)
    PROVE  HeicInv'
<1>1. Heic!TypeOK'
  BY HeicAssumption DEF HeicInv, Heic!TypeOK, Heic!Live, Heic!SizeAssumption, Heic!Spawn,
                        Heic!consVars, Heic!shareVars, Heic!fail_heic
<1>2. ConsumerInv(h_consumer)'
  BY DEF HeicInv, ConsumerInv, Heic!Spawn, Heic!consVars, Heic!shareVars, Heic!fail_heic
<1>3. SlotInv'
  BY DEF HeicInv, SlotInv, Heic!Live, Heic!Spawn, Heic!consVars, Heic!shareVars, Heic!fail_heic
<1>4. PipeInv'
  BY DEF HeicInv, PipeInv, SlotInv, Heic!Live, Heic!Spawn, Heic!consVars, Heic!shareVars,
         Heic!fail_heic
<1>5. OrderInv'
  BY HeicTypes DEF HeicInv, OrderInv, Uploaded, Given, Got, Heic!Spawn, Heic!consVars,
                   Heic!shareVars, Heic!fail_heic
<1>6. Heic!PublishedFailureIsReported'
  BY DEF HeicInv, Heic!PublishedFailureIsReported, Heic!Spawn, Heic!consVars, Heic!shareVars,
         Heic!fail_heic
<1>7. QED
  BY <1>1, <1>2, <1>3, <1>4, <1>5, <1>6 DEF HeicInv

\* The child goes into the slot.
LEMMA PublishChildKeeps ==
    ASSUME HeicInv, Heic!PublishChild
    PROVE  HeicInv'
<1>1. Heic!TypeOK'
  BY HeicAssumption DEF HeicInv, Heic!TypeOK, Heic!Live, Heic!SizeAssumption,
                        Heic!PublishChild, Heic!consVars, Heic!shareVars, Heic!childVars
<1>2. ConsumerInv(h_consumer)'
  BY DEF HeicInv, ConsumerInv, Heic!PublishChild, Heic!consVars, Heic!shareVars, Heic!childVars
<1>3. SlotInv'
  BY DEF HeicInv, SlotInv, Heic!Live, Heic!PublishChild, Heic!consVars, Heic!shareVars,
         Heic!childVars
<1>4. PipeInv'
  BY DEF HeicInv, PipeInv, SlotInv, Heic!Live, Heic!PublishChild, Heic!consVars,
         Heic!shareVars, Heic!childVars
<1>5. OrderInv'
  BY HeicTypes DEF HeicInv, OrderInv, Uploaded, Given, Got, Heic!PublishChild, Heic!consVars,
                   Heic!shareVars, Heic!childVars
<1>6. Heic!PublishedFailureIsReported'
  BY DEF HeicInv, Heic!PublishedFailureIsReported, Heic!PublishChild, Heic!consVars,
         Heic!shareVars, Heic!childVars
<1>7. QED
  BY <1>1, <1>2, <1>3, <1>4, <1>5, <1>6 DEF HeicInv

\* A cancellation before that is honoured.
LEMMA CheckKeeps ==
    ASSUME HeicInv, Heic!CheckStopping
    PROVE  HeicInv'
<1>1. Heic!TypeOK'
  BY HeicAssumption DEF HeicInv, Heic!TypeOK, Heic!Live, Heic!SizeAssumption,
                        Heic!CheckStopping, Heic!consVars, Heic!shareVars, Heic!childVars
<1>2. ConsumerInv(h_consumer)'
  BY DEF HeicInv, ConsumerInv, Heic!CheckStopping, Heic!consVars, Heic!shareVars,
         Heic!childVars
<1>3. SlotInv'
  BY DEF HeicInv, SlotInv, Heic!Live, Heic!CheckStopping, Heic!consVars, Heic!shareVars,
         Heic!childVars
<1>4. PipeInv'
  BY DEF HeicInv, PipeInv, SlotInv, Heic!Live, Heic!CheckStopping, Heic!consVars,
         Heic!shareVars, Heic!childVars
<1>5. OrderInv'
  BY HeicTypes DEF HeicInv, OrderInv, Uploaded, Given, Got, Heic!CheckStopping, Heic!consVars,
                   Heic!shareVars, Heic!childVars
<1>6. Heic!PublishedFailureIsReported'
  BY DEF HeicInv, Heic!PublishedFailureIsReported, Heic!CheckStopping, Heic!consVars,
         Heic!shareVars, Heic!childVars
<1>7. QED
  BY <1>1, <1>2, <1>3, <1>4, <1>5, <1>6 DEF HeicInv

\* run_heic_reader takes one message off the pipe.
LEMMA ReadKeeps ==
    ASSUME HeicInv, Heic!Read
    PROVE  HeicInv'
<1>1. Heic!TypeOK'
  <2>1. /\ h_pipe \in Seq(Heic!Frame \cup {Failed, Torn}) /\ Len(h_pipe) \in Nat
        /\ Len(h_pipe) <= PipeSize /\ PipeSize \in Nat
    BY HeicAssumption DEF HeicInv, Heic!TypeOK, Heic!SizeAssumption
  <2>2. /\ h_pipe' \in Seq(Heic!Frame \cup {Failed, Torn}) /\ Len(h_pipe') <= PipeSize
        /\ h_pipe # << >> => Head(h_pipe) \in Heic!Frame \cup {Failed, Torn}
    <3>1. CASE h_pipe = << >>
      BY <2>1, <3>1 DEF Heic!Read
    <3>2. CASE h_pipe # << >>
      BY <2>1, <3>2 DEF Heic!Read
    <3>3. QED
      BY <3>1, <3>2
  <2>3. CASE h_pipe # << >> /\ Head(h_pipe) = Failed
    BY <2>2, <2>3 DEF HeicInv, Heic!TypeOK, Heic!Read, Heic!fail_heic, Heic!consVars
  <2>4. CASE ~(h_pipe # << >> /\ Head(h_pipe) = Failed)
    BY <2>2, <2>4 DEF HeicInv, Heic!TypeOK, Heic!Read, Heic!consVars, Heic!shareVars
  <2>5. QED
    BY <2>3, <2>4
<1>2. ConsumerInv(h_consumer)'
  BY DEF HeicInv, ConsumerInv, Heic!Read, Heic!consVars, Heic!shareVars, Heic!fail_heic
<1>3. SlotInv'
  BY DEF HeicInv, SlotInv, Heic!Live, Heic!Read, Heic!consVars, Heic!shareVars, Heic!fail_heic
<1>4. PipeInv'
  BY DEF HeicInv, PipeInv, SlotInv, Heic!Live, Heic!Read, Heic!consVars, Heic!shareVars,
         Heic!fail_heic
<1>5. OrderInv'
  BY HeicTypes DEF HeicInv, OrderInv, Uploaded, Given, Got, Heic!Read, Heic!consVars,
                   Heic!shareVars, Heic!fail_heic
<1>6. Heic!PublishedFailureIsReported'
  BY DEF HeicInv, Heic!PublishedFailureIsReported, Heic!Read, Heic!consVars, Heic!shareVars,
         Heic!fail_heic
<1>7. QED
  BY <1>1, <1>2, <1>3, <1>4, <1>5, <1>6 DEF HeicInv

\* A frame becomes the pending one (emit_heic_frame).
LEMMA RelayKeeps ==
    ASSUME HeicInv, Heic!Relay
    PROVE  HeicInv'
<1>1. Heic!TypeOK'
  BY HeicAssumption DEF HeicInv, Heic!TypeOK, Heic!Live, Heic!SizeAssumption, Heic!Relay,
                        Heic!consVars, Heic!shareVars, Heic!childVars, Heic!emit_heic_frame
<1>2. ConsumerInv(h_consumer)'
  BY DEF HeicInv, ConsumerInv, Heic!Relay, Heic!consVars, Heic!shareVars, Heic!childVars,
         Heic!emit_heic_frame
<1>3. SlotInv'
  BY DEF HeicInv, SlotInv, Heic!Live, Heic!Relay, Heic!consVars, Heic!shareVars,
         Heic!childVars, Heic!emit_heic_frame
<1>4. PipeInv'
  BY DEF HeicInv, PipeInv, SlotInv, Heic!Live, Heic!Relay, Heic!consVars, Heic!shareVars,
         Heic!childVars, Heic!emit_heic_frame
<1>5. OrderInv'
  BY HeicTypes DEF HeicInv, OrderInv, Uploaded, Given, Got, Heic!Relay, Heic!consVars,
                   Heic!shareVars, Heic!childVars, Heic!emit_heic_frame
<1>6. Heic!PublishedFailureIsReported'
  BY DEF HeicInv, Heic!PublishedFailureIsReported, Heic!Relay, Heic!consVars, Heic!shareVars,
         Heic!childVars, Heic!emit_heic_frame
<1>7. QED
  BY <1>1, <1>2, <1>3, <1>4, <1>5, <1>6 DEF HeicInv

\* The reader ends.
LEMMA BreakKeeps ==
    ASSUME HeicInv, Heic!BreakLoop
    PROVE  HeicInv'
<1>1. Heic!TypeOK'
  BY HeicAssumption DEF HeicInv, Heic!TypeOK, Heic!Live, Heic!SizeAssumption, Heic!BreakLoop,
                        Heic!consVars, Heic!shareVars, Heic!fail_heic
<1>2. ConsumerInv(h_consumer)'
  BY DEF HeicInv, ConsumerInv, Heic!BreakLoop, Heic!consVars, Heic!shareVars, Heic!fail_heic
<1>3. SlotInv'
  BY DEF HeicInv, SlotInv, Heic!Live, Heic!BreakLoop, Heic!consVars, Heic!shareVars,
         Heic!fail_heic
<1>4. PipeInv'
  BY DEF HeicInv, PipeInv, SlotInv, Heic!Live, Heic!BreakLoop, Heic!consVars, Heic!shareVars,
         Heic!fail_heic
<1>5. OrderInv'
  BY HeicTypes DEF HeicInv, OrderInv, Uploaded, Given, Got, Heic!BreakLoop, Heic!consVars,
                   Heic!shareVars, Heic!fail_heic
<1>6. Heic!PublishedFailureIsReported'
  BY DEF HeicInv, Heic!PublishedFailureIsReported, Heic!BreakLoop, Heic!consVars,
         Heic!shareVars, Heic!fail_heic
<1>7. QED
  BY <1>1, <1>2, <1>3, <1>4, <1>5, <1>6 DEF HeicInv

\* The guard kills the child in the slot (signal_heic_child).
LEMMA KillKeeps ==
    ASSUME HeicInv, Heic!Kill
    PROVE  HeicInv'
<1>1. Heic!TypeOK'
  BY HeicAssumption DEF HeicInv, Heic!TypeOK, Heic!Live, Heic!SizeAssumption, Heic!Kill,
                        Heic!consVars, Heic!shareVars, Heic!signal_heic_child, Heic!Killed
<1>2. ConsumerInv(h_consumer)'
  BY DEF HeicInv, ConsumerInv, Heic!Kill, Heic!consVars, Heic!shareVars,
         Heic!signal_heic_child, Heic!Killed
<1>3. SlotInv'
  BY DEF HeicInv, SlotInv, Heic!Live, Heic!Kill, Heic!consVars, Heic!shareVars,
         Heic!signal_heic_child, Heic!Killed
<1>4. PipeInv'
  BY DEF HeicInv, PipeInv, SlotInv, Heic!Live, Heic!Kill, Heic!consVars, Heic!shareVars,
         Heic!signal_heic_child, Heic!Killed
<1>5. OrderInv'
  BY HeicTypes DEF HeicInv, OrderInv, Uploaded, Given, Got, Heic!Kill, Heic!consVars,
                   Heic!shareVars, Heic!signal_heic_child, Heic!Killed
<1>6. Heic!PublishedFailureIsReported'
  BY DEF HeicInv, Heic!PublishedFailureIsReported, Heic!Kill, Heic!consVars, Heic!shareVars,
         Heic!signal_heic_child, Heic!Killed
<1>7. QED
  BY <1>1, <1>2, <1>3, <1>4, <1>5, <1>6 DEF HeicInv

\* The child leaves the slot before it is waited for (reap_heic_child).
LEMMA ReapKeeps ==
    ASSUME HeicInv, Heic!reap_heic_child
    PROVE  HeicInv'
<1>1. Heic!TypeOK'
  BY HeicAssumption DEF HeicInv, Heic!TypeOK, Heic!Live, Heic!SizeAssumption,
                        Heic!reap_heic_child, Heic!consVars, Heic!shareVars, Heic!childVars
<1>2. ConsumerInv(h_consumer)'
  BY DEF HeicInv, ConsumerInv, Heic!reap_heic_child, Heic!consVars, Heic!shareVars,
         Heic!childVars
<1>3. SlotInv'
  BY DEF HeicInv, SlotInv, Heic!Live, Heic!reap_heic_child, Heic!consVars, Heic!shareVars,
         Heic!childVars
<1>4. PipeInv'
  BY DEF HeicInv, PipeInv, SlotInv, Heic!Live, Heic!reap_heic_child, Heic!consVars,
         Heic!shareVars, Heic!childVars
<1>5. OrderInv'
  BY HeicTypes DEF HeicInv, OrderInv, Uploaded, Given, Got, Heic!reap_heic_child,
                   Heic!consVars, Heic!shareVars, Heic!childVars
<1>6. Heic!PublishedFailureIsReported'
  BY DEF HeicInv, Heic!PublishedFailureIsReported, Heic!reap_heic_child, Heic!consVars,
         Heic!shareVars, Heic!childVars
<1>7. QED
  BY <1>1, <1>2, <1>3, <1>4, <1>5, <1>6 DEF HeicInv

\* The child is waited for.
LEMMA WaitKeeps ==
    ASSUME HeicInv, Heic!Wait
    PROVE  HeicInv'
<1>1. Heic!TypeOK'
  BY HeicAssumption DEF HeicInv, Heic!TypeOK, Heic!Live, Heic!SizeAssumption, Heic!Wait,
                        Heic!consVars, Heic!shareVars, Heic!childVars
<1>2. ConsumerInv(h_consumer)'
  BY DEF HeicInv, ConsumerInv, Heic!Wait, Heic!consVars, Heic!shareVars, Heic!childVars
<1>3. SlotInv'
  BY DEF HeicInv, SlotInv, Heic!Live, Heic!Wait, Heic!consVars, Heic!shareVars, Heic!childVars
<1>4. PipeInv'
  BY DEF HeicInv, PipeInv, SlotInv, Heic!Live, Heic!Wait, Heic!consVars, Heic!shareVars,
         Heic!childVars
<1>5. OrderInv'
  BY HeicTypes DEF HeicInv, OrderInv, Uploaded, Given, Got, Heic!Wait, Heic!consVars,
                   Heic!shareVars, Heic!childVars
<1>6. Heic!PublishedFailureIsReported'
  BY DEF HeicInv, Heic!PublishedFailureIsReported, Heic!Wait, Heic!consVars, Heic!shareVars,
         Heic!childVars
<1>7. QED
  BY <1>1, <1>2, <1>3, <1>4, <1>5, <1>6 DEF HeicInv

\* A failure is reported.
LEMMA ReportKeeps ==
    ASSUME HeicInv, Heic!Report
    PROVE  HeicInv'
<1>1. Heic!TypeOK'
  BY HeicAssumption DEF HeicInv, Heic!TypeOK, Heic!Live, Heic!SizeAssumption, Heic!Report,
                        Heic!consVars, Heic!shareVars, Heic!childVars
<1>2. ConsumerInv(h_consumer)'
  BY DEF HeicInv, ConsumerInv, Heic!Report, Heic!consVars, Heic!shareVars, Heic!childVars
<1>3. SlotInv'
  BY DEF HeicInv, SlotInv, Heic!Live, Heic!Report, Heic!consVars, Heic!shareVars,
         Heic!childVars
<1>4. PipeInv'
  BY DEF HeicInv, PipeInv, SlotInv, Heic!Live, Heic!Report, Heic!consVars, Heic!shareVars,
         Heic!childVars
<1>5. OrderInv'
  BY HeicTypes DEF HeicInv, OrderInv, Uploaded, Given, Got, Heic!Report, Heic!consVars,
                   Heic!shareVars, Heic!childVars
<1>6. Heic!PublishedFailureIsReported'
  BY DEF HeicInv, Heic!PublishedFailureIsReported, Heic!Report, Heic!consVars, Heic!shareVars,
         Heic!childVars
<1>7. QED
  BY <1>1, <1>2, <1>3, <1>4, <1>5, <1>6 DEF HeicInv

\* The decoder asks to die with its parent (bind_to_parent).
LEMMA BindKeeps ==
    ASSUME HeicInv, Heic!bind_to_parent
    PROVE  HeicInv'
<1>1. Heic!TypeOK'
  BY HeicAssumption DEF HeicInv, Heic!TypeOK, Heic!Live, Heic!SizeAssumption,
                        Heic!bind_to_parent, Heic!consVars, Heic!shareVars, Heic!childVars,
                        Heic!Exit
<1>2. ConsumerInv(h_consumer)'
  BY DEF HeicInv, ConsumerInv, Heic!bind_to_parent, Heic!consVars, Heic!shareVars,
         Heic!childVars, Heic!Exit
<1>3. SlotInv'
  BY DEF HeicInv, SlotInv, Heic!Live, Heic!bind_to_parent, Heic!consVars, Heic!shareVars,
         Heic!childVars, Heic!Exit
<1>4. PipeInv'
  BY DEF HeicInv, PipeInv, SlotInv, Heic!Live, Heic!bind_to_parent, Heic!consVars,
         Heic!shareVars, Heic!childVars, Heic!Exit
<1>5. OrderInv'
  BY HeicTypes DEF HeicInv, OrderInv, Uploaded, Given, Got, Heic!bind_to_parent, Heic!consVars,
                   Heic!shareVars, Heic!childVars, Heic!Exit
<1>6. Heic!PublishedFailureIsReported'
  BY DEF HeicInv, Heic!PublishedFailureIsReported, Heic!bind_to_parent, Heic!consVars,
         Heic!shareVars, Heic!childVars, Heic!Exit
<1>7. QED
  BY <1>1, <1>2, <1>3, <1>4, <1>5, <1>6 DEF HeicInv

\* The decoder opens its file, or says that it cannot.
LEMMA OpenKeeps ==
    ASSUME HeicInv, NEW ok \in BOOLEAN, Heic!Open(ok)
    PROVE  HeicInv'
<1>1. Heic!TypeOK'
  <2>1. h_pipe = << >> /\ PipeSize \in Nat \ {0}
    BY HeicAssumption DEF HeicInv, PipeInv, Heic!Open, Heic!SizeAssumption
  <2>2. h_pipe' = << >> \/ h_pipe' = Append(<< >>, Failed)
    BY <2>1 DEF Heic!Open
  <2>3. h_pipe' \in Seq(Heic!Frame \cup {Failed, Torn}) /\ Len(h_pipe') <= PipeSize
    <3>1. << >> \in Seq(Heic!Frame \cup {Failed, Torn}) /\ Len(<< >>) = 0
      OBVIOUS
    <3>2. /\ Append(<< >>, Failed) \in Seq(Heic!Frame \cup {Failed, Torn})
          /\ Len(Append(<< >>, Failed)) = 1
      BY <3>1, AppendProperties
    <3>3. 0 <= PipeSize /\ 1 <= PipeSize
      BY <2>1
    <3>4. CASE h_pipe' = << >>
      BY <3>1, <3>3, <3>4
    <3>5. CASE h_pipe' = Append(<< >>, Failed)
      BY <3>2, <3>3, <3>5, Zenon
    <3>6. QED
      BY <2>2, <3>4, <3>5
  <2>4. h_child' \in Heic!Live \cup {"none", "zombie", "reaped"}
    BY DEF Heic!Open, Heic!Exit, Heic!Live
  <2>5. QED
    BY <2>3, <2>4 DEF HeicInv, Heic!TypeOK, Heic!Open, Heic!consVars, Heic!shareVars
<1>2. ConsumerInv(h_consumer)'
  BY DEF HeicInv, ConsumerInv, Heic!Open, Heic!consVars, Heic!shareVars, Heic!Exit
<1>3. SlotInv'
  BY DEF HeicInv, SlotInv, Heic!Live, Heic!Open, Heic!consVars, Heic!shareVars, Heic!Exit
<1>4. PipeInv'
  BY DEF HeicInv, PipeInv, SlotInv, Heic!Live, Heic!Open, Heic!consVars, Heic!shareVars,
         Heic!Exit
<1>5. OrderInv'
  BY HeicTypes DEF HeicInv, OrderInv, Uploaded, Given, Got, Heic!Open, Heic!consVars,
                   Heic!shareVars, Heic!Exit
<1>6. Heic!PublishedFailureIsReported'
  BY DEF HeicInv, Heic!PublishedFailureIsReported, Heic!Open, Heic!consVars, Heic!shareVars,
         Heic!Exit
<1>7. QED
  BY <1>1, <1>2, <1>3, <1>4, <1>5, <1>6 DEF HeicInv

\* The decoder writes its next frame (ProcessSink::publish).
LEMMA WriteKeeps ==
    ASSUME HeicInv, Heic!Publish
    PROVE  HeicInv'
<1>1. CASE h_reading
  <2>1. /\ h_written \in Nat /\ h_written < MaxFrames /\ h_written' = h_written + 1
        /\ h_written' \in Heic!Frame /\ h_written' \in 0 .. MaxFrames
    BY <1>1, HeicAssumption DEF Heic!Publish, HeicInv, Heic!TypeOK, Heic!SizeAssumption,
                                Heic!Frame
  <2>2. /\ h_pipe \in Seq(Heic!Frame \cup {Failed, Torn}) /\ Len(h_pipe) \in Nat
        /\ PipeSize \in Nat /\ Len(h_pipe) < PipeSize /\ h_pipe' = Append(h_pipe, h_written')
    BY <1>1, HeicAssumption DEF Heic!Publish, HeicInv, Heic!TypeOK, Heic!SizeAssumption
  <2>3. /\ h_pipe' \in Seq(Heic!Frame \cup {Failed, Torn}) /\ Len(h_pipe') = Len(h_pipe) + 1
        /\ \A i \in 1 .. Len(h_pipe) : h_pipe'[i] = h_pipe[i]
        /\ h_pipe'[Len(h_pipe) + 1] = h_written'
    BY <2>1, <2>2
  <2>4. /\ h_child = "decoding" /\ h_child' = h_child
        /\ UNCHANGED <<h_consumer, h_pending_heic, h_signalled, h_pending, h_failed, h_stopping,
                      h_slot, h_supervisor, h_relayed, h_reported, h_reading, h_host>>
    BY <1>1 DEF Heic!Publish, Heic!consVars, Heic!shareVars
  <2>5. Heic!TypeOK'
    BY <2>1, <2>2, <2>3, <2>4 DEF HeicInv, Heic!TypeOK
  <2>6. PipeInv' /\ SlotInv' /\ ConsumerInv(h_consumer)' /\ Heic!PublishedFailureIsReported'
    BY <2>4 DEF HeicInv, PipeInv, SlotInv, ConsumerInv, Heic!PublishedFailureIsReported
  <2>7. OrderInv'
    <3>1. Got' = Got /\ Uploaded' = Uploaded /\ Given' = Given /\ Got \in Nat /\ Got <= h_written
      BY <2>4, HeicTypes DEF Got, Given, Uploaded, HeicInv, OrderInv
    <3>2. ASSUME NEW i \in 1 .. Len(h_pipe'), h_pipe'[i] \in Heic!Frame
          PROVE  Got < h_pipe'[i] /\ h_pipe'[i] <= h_written'
      <4>1. CASE i = Len(h_pipe) + 1
        BY <2>1, <2>3, <3>1, <4>1
      <4>2. CASE i # Len(h_pipe) + 1
        <5>1. i \in 1 .. Len(h_pipe) /\ h_pipe'[i] = h_pipe[i]
          BY <2>2, <2>3, <4>2
        <5>2. Got < h_pipe[i] /\ h_pipe[i] <= h_written /\ h_pipe[i] \in Nat
          BY <3>2, <5>1, HeicTypes DEF HeicInv, OrderInv
        <5>3. QED
          BY <2>1, <5>1, <5>2
      <4>3. QED
        BY <4>1, <4>2
    <3>3. ASSUME NEW i \in 1 .. Len(h_pipe'), NEW j \in 1 .. Len(h_pipe'), i < j,
                 h_pipe'[i] \in Heic!Frame, h_pipe'[j] \in Heic!Frame
          PROVE  h_pipe'[i] < h_pipe'[j]
      <4>1. i \in 1 .. Len(h_pipe) /\ h_pipe'[i] = h_pipe[i]
        BY <2>2, <2>3, <3>3
      <4>2. CASE j = Len(h_pipe) + 1
        <5>1. h_pipe[i] <= h_written /\ h_pipe[i] \in Nat
          BY <3>3, <4>1, HeicTypes DEF HeicInv, OrderInv
        <5>2. QED
          BY <2>1, <2>3, <4>1, <4>2, <5>1
      <4>3. CASE j # Len(h_pipe) + 1
        <5>1. j \in 1 .. Len(h_pipe) /\ h_pipe'[j] = h_pipe[j]
          BY <2>2, <2>3, <4>3
        <5>2. QED
          BY <3>3, <4>1, <5>1 DEF HeicInv, OrderInv
      <4>4. QED
        BY <4>2, <4>3
    <3>4. Got' <= h_written'
      BY <2>1, <3>1
    <3>5. QED
      BY <2>4, <3>1, <3>2, <3>3, <3>4 DEF HeicInv, OrderInv
  <2>8. QED
    BY <2>5, <2>6, <2>7 DEF HeicInv
<1>2. CASE ~h_reading
  <2>1. /\ h_child = "decoding" /\ h_child' = Heic!Exit
        /\ UNCHANGED <<h_consumer, h_pending_heic, h_signalled, h_pending, h_failed, h_stopping,
                      h_slot, h_supervisor, h_relayed, h_reported, h_pipe, h_reading, h_written,
                      h_host>>
    BY <1>2 DEF Heic!Publish, Heic!consVars, Heic!shareVars
  <2>2. Heic!TypeOK' /\ PipeInv' /\ ConsumerInv(h_consumer)'
    BY <2>1 DEF HeicInv, Heic!TypeOK, PipeInv, ConsumerInv, Heic!Exit
  <2>3. SlotInv'
    BY <2>1 DEF HeicInv, SlotInv, Heic!Exit, Heic!Live
  <2>4. OrderInv' /\ Heic!PublishedFailureIsReported'
    BY <2>1 DEF HeicInv, OrderInv, Uploaded, Given, Got, Heic!PublishedFailureIsReported
  <2>5. QED
    BY <2>2, <2>3, <2>4 DEF HeicInv
<1>3. QED
  BY <1>1, <1>2

\* The decoder dies, perhaps within a frame.
LEMMA CrashKeeps ==
    ASSUME HeicInv, NEW within \in BOOLEAN, Heic!Crash(within)
    PROVE  HeicInv'
<1>1. Heic!TypeOK'
  BY HeicAssumption DEF HeicInv, Heic!TypeOK, Heic!Live, Heic!SizeAssumption, Heic!Crash,
                        Heic!consVars, Heic!shareVars, Heic!Exit
<1>2. ConsumerInv(h_consumer)'
  BY DEF HeicInv, ConsumerInv, Heic!Crash, Heic!consVars, Heic!shareVars, Heic!Exit
<1>3. SlotInv'
  BY DEF HeicInv, SlotInv, Heic!Live, Heic!Crash, Heic!consVars, Heic!shareVars, Heic!Exit
<1>4. PipeInv'
  BY DEF HeicInv, PipeInv, SlotInv, Heic!Live, Heic!Crash, Heic!consVars, Heic!shareVars,
         Heic!Exit
<1>5. OrderInv'
  BY HeicTypes DEF HeicInv, OrderInv, Uploaded, Given, Got, Heic!Crash, Heic!consVars,
                   Heic!shareVars, Heic!Exit
<1>6. Heic!PublishedFailureIsReported'
  BY DEF HeicInv, Heic!PublishedFailureIsReported, Heic!Crash, Heic!consVars, Heic!shareVars,
         Heic!Exit
<1>7. QED
  BY <1>1, <1>2, <1>3, <1>4, <1>5, <1>6 DEF HeicInv

\* The process of the player is killed.
LEMMA HostKeeps ==
    ASSUME HeicInv, Heic!HostDies
    PROVE  HeicInv'
<1>1. Heic!TypeOK'
  BY HeicAssumption DEF HeicInv, Heic!TypeOK, Heic!Live, Heic!SizeAssumption, Heic!HostDies,
                        Heic!shareVars, Heic!Consumer
<1>2. ConsumerInv(h_consumer)'
  BY DEF HeicInv, ConsumerInv, Heic!HostDies, Heic!shareVars
<1>3. SlotInv'
  BY DEF HeicInv, SlotInv, Heic!Live, Heic!HostDies, Heic!shareVars
<1>4. PipeInv'
  BY DEF HeicInv, PipeInv, SlotInv, Heic!Live, Heic!HostDies, Heic!shareVars
<1>5. OrderInv'
  BY HeicTypes DEF HeicInv, OrderInv, Uploaded, Given, Got, Heic!HostDies, Heic!shareVars,
                   Consumer
<1>6. Heic!PublishedFailureIsReported'
  BY DEF HeicInv, Heic!PublishedFailureIsReported, Heic!HostDies, Heic!shareVars
<1>7. QED
  BY <1>1, <1>2, <1>3, <1>4, <1>5, <1>6 DEF HeicInv

\* The greeter learns its renderer (apply_renderer_information).
LEMMA RendererKeeps ==
    ASSUME HeicInv, NEW yes \in BOOLEAN, Heic!RendererInformation(yes)
    PROVE  HeicInv'
<1>1. Heic!TypeOK'
  BY HeicAssumption DEF HeicInv, Heic!TypeOK, Heic!Live, Heic!SizeAssumption,
                        Heic!RendererInformation, Heic!shareVars, Heic!childVars, Heic!Consumer
<1>2. ConsumerInv(h_consumer)'
  BY HeicTypes DEF HeicInv, ConsumerInv, SlotInv, Consumer, Heic!RendererInformation
<1>3. SlotInv'
  BY DEF HeicInv, SlotInv, Heic!Live, Heic!RendererInformation, Heic!shareVars, Heic!childVars
<1>4. PipeInv'
  BY DEF HeicInv, PipeInv, SlotInv, Heic!Live, Heic!RendererInformation, Heic!shareVars,
         Heic!childVars
<1>5. OrderInv'
  BY HeicTypes DEF HeicInv, OrderInv, Uploaded, Given, Got, Heic!RendererInformation,
                   Heic!shareVars, Heic!childVars, Consumer
<1>6. Heic!PublishedFailureIsReported'
  BY DEF HeicInv, Heic!PublishedFailureIsReported, Heic!RendererInformation, Heic!shareVars,
         Heic!childVars
<1>7. QED
  BY <1>1, <1>2, <1>3, <1>4, <1>5, <1>6 DEF HeicInv

\* HeicPlayer uses the same operators on its consumer.
LEMMA SameOperators ==
    ASSUME NEW c, NEW update, NEW broken, NEW ok
    PROVE  /\ Heic!prepare_latest(c, update) = prepare_latest(c, update)
           /\ Heic!receive_latest(c, update) = receive_latest(c, update)
           /\ Heic!finish_allocation(c, broken, ok) = finish_allocation(c, broken, ok)
           /\ Heic!Takes(c) <=> Takes(c)
  BY DEF Heic!prepare_latest, prepare_latest, Heic!receive_latest, receive_latest,
         Heic!finish_allocation, finish_allocation, Heic!Takes, Takes, Heic!stop_playback,
         stop_playback, Heic!Adopt, Adopt

\* The order is kept when the consumer moves on to what it was given.
LEMMA OrderKept ==
    ASSUME HeicInv, h_consumer' \in Consumer(Heic!Frame), h_pending' \in {h_pending, NoFrame},
           h_consumer'.uploading # NoFrame =>
               Heic!Order(h_consumer'.frame) < h_consumer'.uploading,
           Uploaded' <= Given, h_pending' \in Heic!Frame => Uploaded' <= Uploaded,
           UNCHANGED <<h_relayed, h_pipe, h_written>>
    PROVE  OrderInv'
<1>1. Uploaded' \in Nat /\ Heic!Order(h_consumer'.frame) \in Nat
  BY HeicTypes DEF Uploaded, Heic!Order, Consumer
<1>2. Given' \in Nat /\ Given' <= Given /\ (h_pending' \in Heic!Frame => Uploaded' < h_pending')
  <2>1. CASE h_pending' \in Heic!Frame
    <3>1. h_pending' = h_pending /\ Given' = h_pending /\ Given = h_pending
      BY <2>1, HeicTypes DEF Given
    <3>2. Uploaded < h_pending
      BY <2>1, <3>1 DEF HeicInv, OrderInv
    <3>3. QED
      BY <1>1, <2>1, <3>1, <3>2, HeicTypes
  <2>2. CASE h_pending' \notin Heic!Frame
    <3>1. Given' = Uploaded'
      BY <2>2 DEF Given
    <3>2. QED
      BY <1>1, <2>2, <3>1
  <2>3. QED
    BY <2>1, <2>2
<1>3. Got' \in Nat /\ Got' <= Got /\ (h_relayed' # NoFrame => Given' < h_relayed')
  <2>1. CASE h_relayed # NoFrame
    <3>1. h_relayed \in Nat /\ Given < h_relayed /\ Got = h_relayed /\ Got' = h_relayed
      BY <2>1, HeicTypes DEF Got, HeicInv, OrderInv
    <3>2. QED
      BY <1>2, <3>1, HeicTypes
  <2>2. CASE h_relayed = NoFrame
    BY <1>2, <2>2 DEF Got
  <2>3. QED
    BY <2>1, <2>2
<1>4. Got' <= h_written'
  BY <1>3, HeicTypes DEF HeicInv, OrderInv
<1>5. ASSUME NEW i \in 1 .. Len(h_pipe), h_pipe[i] \in Heic!Frame
      PROVE  Got' < h_pipe[i] /\ h_pipe[i] <= h_written
  <2>1. Got < h_pipe[i] /\ h_pipe[i] <= h_written /\ h_pipe[i] \in Nat
    BY <1>5, HeicTypes DEF HeicInv, OrderInv
  <2>2. QED
    BY <1>3, <2>1, HeicTypes
<1>6. QED
  BY <1>2, <1>3, <1>4, <1>5 DEF HeicInv, OrderInv

\* A step of the consumer, which may drop the player (Drop for HeicPlayer).
LEMMA HeicConsumerStep ==
    ASSUME HeicInv, NEW c \in Consumer(Heic!Frame), ConsumerInv(c), Follows(h_consumer, c),
           Heic!DropPlayer(c), h_pending' \in {h_pending, NoFrame}, h_signalled' \in BOOLEAN,
           c.uploading # NoFrame => Heic!Order(c.frame) < c.uploading,
           Uploaded' <= Given, h_pending' \in Heic!Frame => Uploaded' <= Uploaded,
           UNCHANGED <<h_pending_heic, h_failed, h_slot, h_supervisor, h_relayed, h_reported,
                       Heic!childVars, h_host>>
    PROVE  HeicInv'
<1>1. /\ h_consumer' = c /\ h_stopping' \in BOOLEAN
      /\ h_child' \in {h_child, IF h_slot THEN Heic!Killed ELSE h_child}
  BY HeicTypes DEF Heic!DropPlayer, Heic!signal_heic_child
<1>2. UNCHANGED <<h_pipe, h_reading, h_written>>
  BY DEF Heic!childVars
<1>3. Heic!TypeOK'
  <2>1. c \in Heic!Consumer(Heic!Frame)
    BY DEF Consumer, Heic!Consumer, Kinds, Heic!Kinds
  <2>2. h_child' \in Heic!Live \cup {"none", "zombie", "reaped"}
    BY <1>1 DEF HeicInv, Heic!TypeOK, Heic!Killed
  <2>3. QED
    BY <1>1, <1>2, <2>1, <2>2 DEF HeicInv, Heic!TypeOK
<1>4. ConsumerInv(h_consumer)'
  BY <1>1 DEF ConsumerInv
<1>5. SlotInv'
  BY <1>1 DEF HeicInv, SlotInv, Heic!Killed, Heic!Live, Follows
<1>6. PipeInv'
  BY <1>1, <1>2 DEF HeicInv, PipeInv, Heic!Killed
<1>7. OrderInv'
  BY <1>1, <1>2, OrderKept
<1>8. QED
  BY <1>3, <1>4, <1>5, <1>6, <1>7 DEF HeicInv, Heic!PublishedFailureIsReported

\* The greeter's handler of WallpaperFrameReady.
LEMMA HeicReadyKeeps ==
    ASSUME HeicInv, Heic!WallpaperFrameReady
    PROVE  HeicInv' /\ h_consumer'.frame = h_consumer.frame
<1>1. /\ h_signalled' = FALSE /\ h_signalled' \in BOOLEAN
      /\ h_consumer.source /\ h_consumer.kind = "login"
      /\ UNCHANGED <<h_pending_heic, h_failed, h_slot, h_supervisor, h_relayed, h_reported,
                     Heic!childVars, h_host>>
  BY DEF Heic!WallpaperFrameReady
<1>2. CASE Takes(h_consumer)
  <2> DEFINE c == prepare_latest(h_consumer, h_pending)
  <2>1. Heic!DropPlayer(c) /\ h_pending' = NoFrame /\ h_consumer' = c
    BY <1>2, SameOperators DEF Heic!WallpaperFrameReady, Heic!DropPlayer
  <2>2. /\ c \in Consumer(Heic!Frame) /\ ConsumerInv(c) /\ Follows(h_consumer, c)
        /\ c.frame = h_consumer.frame
        /\ c.uploading = IF h_pending = Failed THEN NoFrame ELSE h_pending
    BY <1>1, <1>2, HeicTypes, Prepared
  <2> HIDE DEF c
  <2>3. h_consumer.uploading = NoFrame /\ Uploaded = Heic!Order(h_consumer.frame)
    BY <1>2, HeicTypes DEF Takes, ConsumerInv, Consumer, Uploaded
  <2>4. c.uploading # NoFrame => c.uploading = h_pending /\ h_pending \in Heic!Frame
    BY <2>2, HeicTypes
  <2>5. c.uploading # NoFrame => Heic!Order(c.frame) < c.uploading
    BY <2>2, <2>3, <2>4 DEF HeicInv, OrderInv
  <2>6. Uploaded' <= Given
    BY <2>1, <2>2, <2>3, <2>4, HeicTypes DEF Uploaded, Given
  <2>7. h_pending' \notin Heic!Frame
    BY <2>1, HeicTypes
  <2>8. HeicInv'
    BY <1>1, <2>1, <2>2, <2>5, <2>6, <2>7, HeicConsumerStep
  <2>9. QED
    BY <2>1, <2>2, <2>8
<1>3. CASE ~Takes(h_consumer)
  <2>1. UNCHANGED <<h_consumer, h_stopping, h_child, h_pending>>
    BY <1>3, SameOperators DEF Heic!WallpaperFrameReady
  <2>2. Heic!TypeOK'
    <3>1. h_signalled' \in BOOLEAN
      BY <1>1
    <3>2. UNCHANGED <<h_pending_heic, h_failed, h_slot, h_supervisor, h_relayed, h_reported,
                      Heic!childVars, h_host>>
      BY <1>1
    <3>3. QED
      BY <2>1, <3>1, <3>2 DEF HeicInv, Heic!TypeOK, Heic!childVars
  <2>3. ConsumerInv(h_consumer)' /\ SlotInv' /\ PipeInv' /\ Heic!PublishedFailureIsReported'
    BY <1>1, <2>1 DEF HeicInv, ConsumerInv, SlotInv, PipeInv, Heic!PublishedFailureIsReported,
                      Heic!childVars
  <2>4. OrderInv'
    BY <1>1, <2>1 DEF HeicInv, OrderInv, Uploaded, Given, Got, Heic!childVars
  <2>5. QED
    BY <2>1, <2>2, <2>3, <2>4 DEF HeicInv
<1>4. QED
  BY <1>2, <1>3

\* The greeter's handler of WallpaperAllocated: what it shows is later than what was
\* shown, and what it uploads next is later still.
LEMMA HeicAllocatedKeeps ==
    ASSUME HeicInv, NEW ok \in BOOLEAN, Heic!WallpaperAllocated(ok)
    PROVE  HeicInv' /\ Heic!BackgroundNeverRegresses
<1> DEFINE d == finish_allocation(h_consumer, h_failed, ok)
<1>1. /\ h_consumer.uploading # NoFrame /\ h_consumer.kind = "login"
      /\ h_signalled' = h_signalled
      /\ UNCHANGED <<h_pending_heic, h_failed, h_slot, h_supervisor, h_relayed, h_reported,
                     Heic!childVars, h_host>>
  BY HeicTypes DEF Heic!WallpaperAllocated, ConsumerInv
<1>2. /\ d \in Consumer(Heic!Frame) /\ ConsumerInv(d) /\ Follows(h_consumer, d)
      /\ ~d.allocating /\ d.uploading = NoFrame
      /\ d.frame \in {h_consumer.frame, h_consumer.uploading}
  BY <1>1, HeicTypes, FinishedUpload
<1>3. /\ Uploaded = h_consumer.uploading /\ Heic!Order(h_consumer.frame) < Uploaded
      /\ h_consumer.uploading \in Heic!Frame /\ Uploaded \in Nat
  BY <1>1, HeicTypes DEF Uploaded, HeicInv, OrderInv, Consumer
<1>4. Heic!Order(h_consumer.uploading) = h_consumer.uploading
  BY <1>3, HeicTypes DEF Heic!Order
<1>5. /\ Heic!Order(d.frame) \in Nat /\ Heic!Order(d.frame) <= Uploaded
      /\ d.frame # h_consumer.frame => Heic!Order(d.frame) > Heic!Order(h_consumer.frame)
  BY <1>2, <1>3, <1>4, HeicTypes
<1>6. Uploaded <= Given
  BY <1>3, HeicTypes DEF Given, HeicInv, OrderInv
<1>7. CASE Takes(d)
  <2> DEFINE c == prepare_latest(d, h_pending)
  <2>1. Heic!DropPlayer(c) /\ h_pending' = NoFrame /\ h_consumer' = c
    BY <1>7, SameOperators DEF Heic!WallpaperAllocated, Heic!DropPlayer
  <2> HIDE DEF d
  <2>2. /\ c \in Consumer(Heic!Frame) /\ ConsumerInv(c) /\ Follows(d, c)
        /\ c.frame = d.frame
        /\ c.uploading = IF h_pending = Failed THEN NoFrame ELSE h_pending
    BY <1>1, <1>2, <1>7, HeicTypes, Prepared DEF Follows
  <2> HIDE DEF c
  <2>3. c.uploading # NoFrame => /\ c.uploading = h_pending /\ h_pending \in Heic!Frame
                                 /\ Uploaded < h_pending /\ Given = h_pending /\ h_pending \in Nat
    BY <2>2, HeicTypes DEF HeicInv, OrderInv, Given
  <2>4. c.uploading # NoFrame => Heic!Order(c.frame) < c.uploading
    BY <1>3, <1>5, <2>2, <2>3
  <2>5. Uploaded' <= Given
    <3>1. Uploaded' = IF c.uploading # NoFrame THEN c.uploading ELSE Heic!Order(c.frame)
      BY <2>1 DEF Uploaded
    <3>2. QED
      BY <1>3, <1>5, <1>6, <2>2, <2>3, <3>1, HeicTypes
  <2>6. Follows(h_consumer, c) /\ h_pending' \notin Heic!Frame
    BY <1>2, <2>1, <2>2, HeicTypes DEF Follows
  <2>7. HeicInv'
    BY <1>1, <2>1, <2>2, <2>4, <2>5, <2>6, HeicTypes, HeicConsumerStep
  <2>8. QED
    BY <1>5, <2>1, <2>2, <2>7 DEF Heic!BackgroundNeverRegresses
<1>8. CASE ~Takes(d)
  <2>1. Heic!DropPlayer(d) /\ h_pending' = h_pending /\ h_consumer' = d
    BY <1>8, SameOperators DEF Heic!WallpaperAllocated, Heic!DropPlayer
  <2> HIDE DEF d
  <2>2. Uploaded' = Heic!Order(d.frame)
    BY <1>2, <2>1 DEF Uploaded
  <2>3. Uploaded' <= Uploaded /\ Uploaded' <= Given
    BY <1>3, <1>5, <1>6, <2>2, HeicTypes
  <2>4. HeicInv'
    BY <1>1, <1>2, <2>1, <2>3, HeicTypes, HeicConsumerStep
  <2>5. QED
    BY <1>5, <2>1, <2>4 DEF Heic!BackgroundNeverRegresses
<1>9. QED
  BY <1>7, <1>8

\* The locker's receive_deferred shows a later frame.
LEMMA HeicDeferredKeeps ==
    ASSUME HeicInv, Heic!ReceiveDeferred
    PROVE  HeicInv' /\ Heic!BackgroundNeverRegresses
<1> DEFINE c == receive_latest(h_consumer, h_pending)
<1>1. /\ h_consumer.kind = "lock" /\ h_consumer.source /\ h_pending # NoFrame
      /\ h_pending' = NoFrame /\ h_signalled' = h_signalled
      /\ UNCHANGED <<h_pending_heic, h_failed, h_slot, h_supervisor, h_relayed, h_reported,
                     Heic!childVars, h_host>>
  BY DEF Heic!ReceiveDeferred
<1>2. Heic!DropPlayer(c) /\ h_consumer' = c
  BY SameOperators DEF Heic!ReceiveDeferred, Heic!DropPlayer
<1>3. /\ ~h_consumer.allocating /\ h_consumer.uploading = NoFrame
      /\ h_pending \in Heic!Frame \cup {Failed} /\ Uploaded = Heic!Order(h_consumer.frame)
  BY <1>1, HeicTypes DEF ConsumerInv, Consumer, Uploaded
<1>4. /\ c \in Consumer(Heic!Frame) /\ ConsumerInv(c) /\ Follows(h_consumer, c)
      /\ c.frame = IF h_pending = Failed THEN h_consumer.frame ELSE h_pending
      /\ c.uploading = NoFrame
  BY <1>1, <1>3, HeicTypes, Received
<1> HIDE DEF c
<1>5. h_pending \in Heic!Frame => /\ Heic!Order(h_pending) = h_pending /\ Given = h_pending
                                  /\ Uploaded < h_pending /\ h_pending \in Nat
  BY HeicTypes DEF Heic!Order, Given, HeicInv, OrderInv
<1>6. Uploaded' = Heic!Order(c.frame)
  BY <1>2, <1>4 DEF Uploaded
<1>7. Uploaded' <= Given
  <2>1. CASE h_pending = Failed
    BY <1>3, <1>4, <1>6, <2>1, HeicTypes DEF Given
  <2>2. CASE h_pending \in Heic!Frame
    BY <1>4, <1>5, <1>6, <2>2, HeicTypes
  <2>3. QED
    BY <1>3, <2>1, <2>2
<1>8. h_pending' \notin Heic!Frame
  BY <1>1, HeicTypes
<1>9. HeicInv'
  BY <1>1, <1>2, <1>4, <1>7, <1>8, HeicTypes, HeicConsumerStep
<1>10. Heic!BackgroundNeverRegresses
  BY <1>2, <1>3, <1>4, <1>5, HeicTypes DEF Heic!BackgroundNeverRegresses
<1>11. QED
  BY <1>9, <1>10

\* The consumer ends while its process goes on.
LEMMA HeicQuitKeeps ==
    ASSUME HeicInv, Heic!Quit
    PROVE  HeicInv' /\ h_consumer'.frame = h_consumer.frame
<1> DEFINE c == [h_consumer EXCEPT !.source = FALSE, !.allocating = FALSE, !.uploading = NoFrame]
<1>1. /\ Heic!DropPlayer(c) /\ h_consumer' = c /\ h_signalled' = h_signalled
      /\ h_pending' = h_pending
      /\ UNCHANGED <<h_pending_heic, h_failed, h_slot, h_supervisor, h_relayed, h_reported,
                     Heic!childVars, h_host>>
  BY DEF Heic!Quit, Heic!DropPlayer, Heic!shareVars
<1>2. /\ c \in Consumer(Heic!Frame) /\ ConsumerInv(c) /\ Follows(h_consumer, c)
      /\ c.uploading = NoFrame /\ c.frame = h_consumer.frame
  BY HeicTypes DEF Consumer, ConsumerInv, Follows
<1> HIDE DEF c
<1>3. Uploaded' = Heic!Order(h_consumer.frame)
  BY <1>1, <1>2 DEF Uploaded
<1>4. Heic!Order(h_consumer.frame) <= Uploaded
  BY HeicTypes DEF Uploaded, HeicInv, OrderInv
<1>5. Uploaded <= Given
  BY HeicTypes DEF Given, HeicInv, OrderInv
<1>6. Uploaded' <= Uploaded /\ Uploaded' <= Given
  BY <1>3, <1>4, <1>5, HeicTypes
<1>7. HeicInv'
  BY <1>1, <1>2, <1>6, HeicTypes, HeicConsumerStep
<1>8. QED
  BY <1>1, <1>2, <1>7

\* The locker's player starts at once, the greeter's when it knows its renderer.
LEMMA HeicInit == Heic!Init => HeicInv
<1> SUFFICES ASSUME Heic!Init PROVE HeicInv
  OBVIOUS
<1>1. PICK kind \in Heic!Kinds :
        /\ h_consumer = Heic!start(kind, Poster, kind = "lock")
        /\ h_pending_heic = (kind = "login")
        /\ h_supervisor = IF kind = "lock" THEN "spawn" ELSE "none"
  BY DEF Heic!Init
<1>2. /\ h_consumer \in Heic!Consumer(Heic!Frame) /\ ConsumerInv(h_consumer)
      /\ h_consumer.uploading = NoFrame /\ h_consumer.frame = Poster
      /\ (h_consumer.source <=> kind = "lock")
  BY <1>1 DEF Heic!start, Heic!Consumer, ConsumerInv
<1>3. /\ h_pipe = << >> /\ h_pipe \in Seq(Heic!Frame \cup {Failed, Torn}) /\ Len(h_pipe) = 0
      /\ Len(h_pipe) <= PipeSize /\ 0 \in 0 .. MaxFrames
  BY HeicAssumption DEF Heic!Init, Heic!SizeAssumption
<1>4. Heic!TypeOK
  BY <1>1, <1>2, <1>3 DEF Heic!Init, Heic!TypeOK, Heic!Kinds
<1>5. SlotInv /\ PipeInv /\ Heic!PublishedFailureIsReported
  BY <1>1, <1>2 DEF Heic!Init, Heic!Kinds, SlotInv, PipeInv, Heic!PublishedFailureIsReported
<1>6. OrderInv
  <2>1. NoFrame \notin Heic!Frame
    BY HeicAssumption DEF Heic!SizeAssumption, Heic!Frame
  <2>2. Uploaded = 0 /\ Given = 0 /\ Got = 0
    BY <1>2, <2>1 DEF Heic!Init, Uploaded, Given, Got, Heic!Order
  <2>3. QED
    BY <1>2, <1>3, <2>1, <2>2 DEF Heic!Init, OrderInv
<1>7. QED
  BY <1>2, <1>4, <1>5, <1>6 DEF HeicInv

\* Every step of the player, and the background of its consumer.
LEMMA HeicStep ==
    ASSUME HeicInv, Heic!Next
    PROVE  HeicInv' /\ Heic!BackgroundNeverRegresses
<1>1. CASE Heic!Supervisor
  <2>1. HeicInv'
    BY <1>1, SpawnKeeps, PublishChildKeeps, CheckKeeps, ReadKeeps, RelayKeeps, BreakKeeps,
       KillKeeps, ReapKeeps, WaitKeeps, ReportKeeps DEF Heic!Supervisor
  <2>2. h_consumer' = h_consumer
    BY <1>1 DEF Heic!Supervisor, Heic!Spawn, Heic!PublishChild, Heic!CheckStopping, Heic!Read,
                Heic!Relay, Heic!BreakLoop, Heic!Kill, Heic!reap_heic_child, Heic!Wait,
                Heic!Report, Heic!consVars
  <2>3. QED
    BY <2>1, <2>2 DEF Heic!BackgroundNeverRegresses
<1>2. CASE Heic!Take
  BY <1>2, HeicReadyKeeps, HeicDeferredKeeps DEF Heic!Take, Heic!BackgroundNeverRegresses
<1>3. CASE Heic!Allocated
  BY <1>3, HeicAllocatedKeeps DEF Heic!Allocated
<1>4. CASE Heic!bind_to_parent
  BY <1>4, BindKeeps DEF Heic!bind_to_parent, Heic!consVars, Heic!BackgroundNeverRegresses
<1>5. CASE Heic!Decoder
  <2>1. HeicInv'
    BY <1>5, OpenKeeps, WriteKeeps, CrashKeeps DEF Heic!Decoder
  <2>2. h_consumer' = h_consumer
    BY <1>5 DEF Heic!Decoder, Heic!Open, Heic!Publish, Heic!Crash, Heic!consVars
  <2>3. QED
    BY <2>1, <2>2 DEF Heic!BackgroundNeverRegresses
<1>6. CASE Heic!Quit
  BY <1>6, HeicQuitKeeps DEF Heic!BackgroundNeverRegresses
<1>7. CASE Heic!HostDies
  <2>1. h_consumer'.frame = h_consumer.frame
    BY <1>7, HeicTypes DEF Heic!HostDies, Consumer
  <2>2. QED
    BY <1>7, <2>1, HostKeeps DEF Heic!BackgroundNeverRegresses
<1>8. CASE \E yes \in BOOLEAN : Heic!RendererInformation(yes)
  <2>1. h_consumer'.frame = h_consumer.frame
    BY <1>8, HeicTypes DEF Heic!RendererInformation, Consumer
  <2>2. QED
    BY <1>8, <2>1, RendererKeeps DEF Heic!BackgroundNeverRegresses
<1>9. QED
  BY <1>1, <1>2, <1>3, <1>4, <1>5, <1>6, <1>7, <1>8 DEF Heic!Next

\* What the invariant says of the slot and of a supervisor that is done.
LEMMA HeicImplies ==
    ASSUME HeicInv
    PROVE  /\ Heic!TypeOK /\ Heic!SlotHoldsUnreapedChild /\ Heic!SupervisorLeavesNoChild
           /\ Heic!PublishedFailureIsReported
  BY DEF HeicInv, SlotInv, Heic!TypeOK, Heic!SlotHoldsUnreapedChild, Heic!SupervisorLeavesNoChild

-----------------------------------------------------------------------------
(* Both *)

\* A player that stands still keeps its invariant.
LEMMA StandStill ==
    ASSUME PartInv, UNCHANGED mcVars
    PROVE  PartInv'
<1>1. CASE part = "mov"
  <2>1. MovInv /\ part' = "mov"
    BY <1>1 DEF PartInv, mcVars
  <2>2. MovInv'
    BY <2>1 DEF MovInv, TypeOK, ConsumerInv, StreamInv, LoopInv, OnBus, Playing,
                HeldFrameSurvivesSeek, FailureInv, FailureIsKept, mcVars, vars, consVars,
                stateVars, workVars, pipeVars
  <2>3. QED
    BY <2>1, <2>2 DEF PartInv
<1>2. CASE part = "heic"
  <2>1. HeicInv /\ part' = "heic"
    BY <1>2 DEF PartInv, mcVars
  <2>2. HeicInv'
    BY <2>1 DEF HeicInv, Heic!TypeOK, ConsumerInv, SlotInv, PipeInv, OrderInv, Uploaded, Given,
                Got, Heic!PublishedFailureIsReported, mcVars, heicVars
  <2>3. QED
    BY <2>1, <2>2 DEF PartInv
<1>3. CASE part \notin {"mov", "heic"}
  BY <1>3 DEF PartInv, mcVars
<1>4. QED
  BY <1>1, <1>2, <1>3

\* A step of the players keeps the invariant and lets no background regress.
LEMMA PlayersStep ==
    ASSUME PartInv, [MCNext]_mcVars
    PROVE  /\ PartInv'
           /\ [/\ part = "mov" => NoFrameAfterFailure
               /\ part = "heic" => Heic!BackgroundNeverRegresses]_mcVars
<1>1. CASE part = "mov" /\ Next /\ UNCHANGED <<part, heicVars>>
  BY <1>1, MovStep DEF PartInv
<1>2. CASE part = "heic" /\ Heic!Next /\ UNCHANGED <<part, vars>>
  BY <1>2, HeicStep DEF PartInv
<1>3. CASE UNCHANGED mcVars
  BY <1>3, StandStill
<1>4. QED
  BY <1>1, <1>2, <1>3 DEF MCNext

\* The inductive invariant of both players: the one request to loop and what is held
\* for it (begin_loop_at, publish_frame), whose the decoder is (HeicWorkerGuard), and
\* the order of frames from the pipe to the screen.
THEOREM Invariance == MCSpec => []PartInv
<1>1. MCInit => PartInv
  BY MovInit, HeicInit DEF MCInit, PartInv
<1>2. PartInv /\ [MCNext]_mcVars => PartInv'
  BY PlayersStep
<1>3. QED
  BY <1>1, <1>2, PTL DEF MCSpec

\* What threads and processes hand to each other stays valid: requests to loop, the held
\* frame, a failure, and the process that a cancellation kills.
THEOREM Handovers == MCSpec => []HandoversAreCurrent
<1>1. PartInv => HandoversAreCurrent
  BY MovImplies, HeicImplies DEF PartInv, HandoversAreCurrent
<1>2. QED
  BY <1>1, Invariance, PTL

\* No frame shows after a failure, and no older frame comes back (finish_allocation,
\* stop_playback, emit_heic_frame).
THEOREM Background == MCSpec => BackgroundNeverRegresses
<1>1. PartInv /\ [MCNext]_mcVars =>
        [/\ part = "mov" => NoFrameAfterFailure
         /\ part = "heic" => Heic!BackgroundNeverRegresses]_mcVars
  BY PlayersStep
<1>2. QED
  BY <1>1, Invariance, PTL DEF MCSpec, BackgroundNeverRegresses
=============================================================================
