-------------------------- MODULE DynamicPlayback ----------------------------
(***************************************************************************)
(* Playback of a dynamic wallpaper (src/dynamic_wallpaper/playback.rs): an *)
(* image is selected by the time of day, decoded elsewhere, and dissolves  *)
(* in when it was decoded soon after its boundary.                         *)
(*                                                                         *)
(* The operators are the methods of Playback on its record; the actions    *)
(* are the consumer's (run_heic_with_sink of src/wallpaper.rs, and the     *)
(* desktop runtime, whose decodes overlap with its other calls), the       *)
(* decoder's, and those of a clock that is set, changes its zone or is     *)
(* suspended.                                                              *)
(*                                                                         *)
(* Instants are kept as the time since them and deadlines as the time to   *)
(* them, so that time may pass for ever.  A frame is an image and how much *)
(* of it has dissolved in; a generation is any number no request still     *)
(* holds.                                                                  *)
(***************************************************************************)
EXTENDS DynamicSchedule

CONSTANTS
    Image,          \* images of the file
    Primary,        \* its primary image
    TimePoints,     \* its h24 schedule, sorted
    SolarPoints,    \* the mapped solar schedule, sorted
    Dissolve,       \* DISSOLVE_DURATION
    RetryAfter,     \* RESYNCHRONIZE_AFTER
    Tolerance,      \* CLOCK_TOLERANCE_NANOSECONDS, in seconds
    Broken,         \* images that never decode
    Flaky,          \* images that sometimes do not
    MaxInflight,    \* bound of the model on decodes that overlap
    MaxJumps,       \* bound of the model on changes of the clock
    None

VARIABLES
    playback,    \* the Playback record
    reduced,     \* reduced_motion
    now,         \* the time of day
    drift,       \* how far wall clock and monotonic clock moved apart since last_clock
    forced,      \* a changed utc offset, or a suspend the consumer detected
    uptime,      \* monotonic time, as far as a dissolve can tell
    jumps,       \* changes of the clock so far
    inflight,    \* requests the decoder works on
    shown        \* the frame the consumer was last given

clockVars == <<now, drift, forced, uptime, jumps>>
vars == <<playback, reduced, clockVars, inflight, shown>>

NotTimed   == Dissolve + 1
Full(i)    == [image |-> i, weight |-> Dissolve]
Frame      == [image : Image, weight : 0..Dissolve]
Generation == 1..MaxInflight + 2
Request    == [generation : Generation, image : Image]
Pending    == [request : Request, started : 0..NotTimed, dispatched : BOOLEAN]
Transition == [to : Image, started : 0..Dissolve, weight : 0..Dissolve]
Modes      == {"Static", "Time", "Solar"}

PlaybackAssumption ==
    /\ Primary \in Image /\ Broken \subseteq Image /\ Flaky \subseteq Image
    /\ SecondsPerDay \in Nat \ {0}
    /\ {TimePoints, SolarPoints} \subseteq Seq([image : Image, boundary : 0 .. SecondsPerDay])
    /\ Len(TimePoints) > 0 /\ Len(SolarPoints) > 0
    /\ Dissolve \in Nat \ {0} /\ RetryAfter \in Nat \ {0} /\ Tolerance \in Nat
    /\ MaxInflight \in Nat \ {0} /\ MaxJumps \in Nat
    /\ None \notin Frame \cup Transition

TypeOK ==
    /\ playback \in [mode : Modes, selected : Image, pending : Pending \cup {None},
                     presented : Frame \cup {None}, presented_image : Image \cup {None},
                     transition : Transition \cup {None}, retry : 0..RetryAfter]
    /\ reduced \in BOOLEAN /\ forced \in BOOLEAN
    /\ now \in Second /\ uptime \in 0..Dissolve
    /\ drift \in -(Tolerance + 1)..(Tolerance + 1) /\ jumps \in 0..MaxJumps
    /\ inflight \in SUBSET Request /\ Cardinality(inflight) <= MaxInflight
    /\ shown \in Frame \cup {None}

-----------------------------------------------------------------------------
(* Methods of Playback *)

Points(mode) == IF mode = "Solar" THEN SolarPoints ELSE TimePoints

\* The selection and the time since its boundary, over the day.
Selection == [mode \in Modes |-> [second \in Second |-> selected_point(Points(mode), second).image]]
Elapsed   == [mode \in Modes |-> [second \in Second |-> boundary_start(Points(mode), second)]]

frame(p) ==
    IF p.transition # None THEN [image |-> p.transition.to, weight |-> p.transition.weight]
    ELSE p.presented

next_generation(p) ==
    CHOOSE g \in Generation :
        /\ p.pending # None => g # p.pending.request.generation
        /\ \A r \in inflight : g # r.generation

PendingDecode(p, image, started) ==
    [request |-> [generation |-> next_generation(p), image |-> image],
     started |-> started, dispatched |-> FALSE]

retry_due(p) == p.retry = 0

\* boundary_start of the selected point; a boundary before the monotonic clock
\* began, or further back than a dissolve, leaves nothing to dissolve.
Started(p) ==
    LET elapsed == Elapsed[p.mode][now] IN
    IF reduced \/ p.mode = "Static" \/ elapsed > uptime \/ elapsed >= Dissolve
    THEN NotTimed ELSE elapsed

Discontinuity == forced \/ drift > Tolerance \/ drift < -Tolerance

\* A dissolve cut short by a new selection stays as the frame it had reached.
Interrupted(p) ==
    IF p.transition = None THEN p
    ELSE [p EXCEPT !.presented = frame(p), !.presented_image = None, !.transition = None]

\* A dissolve cut short by a discontinuity jumps to its end.
Snapped(p) ==
    IF p.transition = None THEN p
    ELSE [p EXCEPT !.presented = Full(p.transition.to),
                   !.presented_image = p.transition.to, !.transition = None]

\* synchronize_inner
synchronize(p) ==
    LET selection == IF p.mode = "Static" THEN p.selected
                     ELSE Selection[p.mode][now]
        missing(q) == q.pending = None /\ q.presented_image # selection /\ retry_due(q)
        request(q, started) ==
            [q EXCEPT !.pending = PendingDecode(p, selection, started), !.retry = 0]
    IN  IF selection # p.selected
        THEN [request(Interrupted(p), IF Discontinuity THEN NotTimed ELSE Started(p))
                EXCEPT !.selected = selection]
        ELSE IF Discontinuity
        THEN LET q == Snapped(p) IN
             IF q.pending # None /\ q.pending.request.image = selection
             THEN [q EXCEPT !.pending = PendingDecode(p, selection, NotTimed)]
             ELSE IF missing(q) THEN request(q, NotTimed)
             ELSE q
        ELSE IF p.transition = None /\ missing(p) THEN request(p, Started(p))
        ELSE p

\* advance_transition_KeepsBlend: the dissolve ends with its last blend.
advance_transition_KeepsBlend(p) ==
    IF p.transition = None THEN p
    ELSE IF p.transition.started >= Dissolve
    THEN [Snapped(p) EXCEPT !.presented = frame(p)]
    ELSE [p EXCEPT !.transition.weight = p.transition.started]

\* advance_transition
advance_transition(p) ==
    IF p.transition = None THEN p
    ELSE IF p.transition.started >= Dissolve THEN Snapped(p)
    ELSE [p EXCEPT !.transition.weight = p.transition.started]

queue_primary_fallback(p, failed_image) ==
    IF p.presented # None \/ failed_image = Primary THEN p
    ELSE [p EXCEPT !.pending = PendingDecode(p, Primary, NotTimed)]

\* Matches_Any: any result completes the pending request.
Matches_Any(p, request) == p.pending # None

\* complete_decode ignores a result no dispatched request waits for.
Matches(p, request) ==
    p.pending # None /\ p.pending.request = request /\ p.pending.dispatched

\* complete_decode of a result that is not ignored; decoded is FALSE for an
\* error and for a frame valid_frame refuses, blended whether the frames are
\* of one size and the blend fits in memory.
complete_decode(p, request, decoded, blended) ==
    LET taken == [p EXCEPT !.pending = None]
        settled == [taken EXCEPT !.retry = IF request.image = p.selected THEN 0 ELSE @]
    IN  IF ~decoded
        THEN queue_primary_fallback([taken EXCEPT !.retry = RetryAfter], request.image)
        ELSE IF p.presented = None \/ p.pending.started >= Dissolve \/ ~blended
        THEN [settled EXCEPT !.transition = None, !.presented = Full(request.image),
                             !.presented_image = request.image]
        ELSE advance_transition(
               [settled EXCEPT !.presented = None, !.presented_image = None,
                               !.transition = [to |-> request.image, weight |-> 0,
                                               started |-> p.pending.started]])

-----------------------------------------------------------------------------
(* The consumer *)

Synchronized == drift' = 0 /\ forced' = FALSE /\ UNCHANGED <<now, uptime, jumps>>

Publish(p, changed) == shown' = IF changed THEN frame(p) ELSE shown

\* SynchronizeOutcome.presentation_changed: a snapped dissolve is the one
\* change of a synchronize that is published.
Snaps(p, q) == p.transition # None /\ q.selected = p.selected /\ q.transition = None

\* apply_heic_schedule with its publication; also the desktop's timer.
Synchronize == \E p \in {synchronize(playback)} :
    /\ p # playback \/ Discontinuity
    /\ playback' = p /\ Publish(p, Snaps(playback, p)) /\ Synchronized
    /\ UNCHANGED <<reduced, inflight>>

Advance == \E p \in {advance_transition(playback)} :
    /\ playback.transition # None /\ p # playback
    /\ playback' = p /\ Publish(p, TRUE)
    /\ UNCHANGED <<reduced, clockVars, inflight>>

\* take_decode_request, the request given to the decoder.
TakeDecodeRequest ==
    /\ playback.pending # None /\ ~playback.pending.dispatched
    /\ Cardinality(inflight) < MaxInflight
    /\ playback' = [playback EXCEPT !.pending.dispatched = TRUE]
    /\ inflight' = inflight \cup {playback.pending.request}
    /\ UNCHANGED <<reduced, clockVars, shown>>

\* finish_heic_decode: synchronize to the time after the decode, then complete.
finish_heic_decode(request, decoded, blended) ==
    /\ request \in inflight
    /\ IF decoded THEN request.image \notin Broken ELSE request.image \in Broken \cup Flaky
    /\ \E p \in {synchronize(playback)} : \E q \in
            {IF Matches(p, request) THEN complete_decode(p, request, decoded, blended) ELSE p} :
         /\ playback' = q
         /\ Publish(q, Snaps(playback, p) \/ (Matches(p, request) /\ decoded))
    /\ inflight' = inflight \ {request} /\ Synchronized
    /\ UNCHANGED reduced

\* The desktop adopts the schedule of a location it learned.
set_solar_schedule ==
    /\ playback.mode = "Time"
    /\ \E p \in {synchronize([playback EXCEPT !.mode = "Solar"])} :
         playback' = p /\ Publish(p, Snaps(playback, p))
    /\ Synchronized /\ UNCHANGED <<reduced, inflight>>

-----------------------------------------------------------------------------
(* The clock *)

Older(age, limit) == IF age < limit THEN age + 1 ELSE age
Aged(timed) == [timed EXCEPT !.started = Older(@, Dissolve)]

Tick ==
    /\ now' = (now + 1) % SecondsPerDay
    /\ uptime' = Older(uptime, Dissolve)
    /\ playback' =
         [playback EXCEPT
            !.retry = IF @ = 0 THEN 0 ELSE @ - 1,
            !.transition = IF @ = None THEN @ ELSE Aged(@),
            !.pending = IF @ = None \/ @.started >= Dissolve THEN @ ELSE Aged(@)]
    /\ UNCHANGED <<reduced, drift, forced, jumps, inflight, shown>>

\* The wall clock moves without the monotonic one: it is set or adjusted, its
\* zone changes, or the machine was suspended; the last two are noticed.
Jump(seconds, noticed) ==
    /\ jumps < MaxJumps /\ jumps' = jumps + 1
    /\ now' = (now + seconds) % SecondsPerDay
    /\ drift' = LET d == drift + seconds IN
                IF d > Tolerance THEN Tolerance + 1
                ELSE IF d < -Tolerance THEN -(Tolerance + 1) ELSE d
    /\ forced' = (forced \/ noticed)
    /\ UNCHANGED <<playback, reduced, uptime, inflight, shown>>

-----------------------------------------------------------------------------
\* Playback::new: the first selection and its request.
Init ==
    /\ now \in Second /\ reduced \in BOOLEAN
    /\ drift = 0 /\ forced = FALSE /\ uptime = 0 /\ jumps = 0
    /\ inflight = {} /\ shown = None
    /\ \E mode \in {"Static", "Time"}, static \in Image :
         LET image == IF mode = "Static" THEN static ELSE Selection["Time"][now]
         IN  playback = [mode |-> mode, selected |-> image,
                         pending |-> [request |-> [generation |-> 1, image |-> image],
                                      started |-> NotTimed, dispatched |-> FALSE],
                         presented |-> None, presented_image |-> None, transition |-> None,
                         retry |-> 0]

Finish == \E r \in inflight, decoded, blended \in BOOLEAN :
              finish_heic_decode(r, decoded, blended)

Next ==
    \/ Synchronize \/ Advance \/ TakeDecodeRequest \/ Finish \/ set_solar_schedule \/ Tick
    \/ \E seconds \in -(Tolerance + 1)..(Tolerance + 1), noticed \in BOOLEAN :
         Jump(seconds, noticed)

\* The consumer's loop and the decoder run, and time passes.
Fairness == WF_vars(Synchronize) /\ WF_vars(Advance) /\ WF_vars(TakeDecodeRequest)
            /\ WF_vars(Finish) /\ WF_vars(Tick)

Spec == Init /\ [][Next]_vars /\ Fairness

-----------------------------------------------------------------------------
(* Properties *)

\* presented_image never names an image that is not on screen in full, so the
\* missing selection is asked for again (synchronize_inner compares with it).
PresentedImageIsOnScreen ==
    playback.presented_image # None =>
        playback.presented = Full(playback.presented_image) /\ playback.transition = None

\* The consumer has been given the frame that playback presents: every change
\* of it, by a decode, a dissolve step or a snap, was published.
ConsumerShowsFrame == shown = frame(playback)

\* Of a step: a new image comes on screen only while it is selected, however
\* late its decode returns and whatever the clock did meanwhile; the one
\* exception is the primary image of a screen that has shown nothing yet.
OnlySelectedAppears ==
    LET f == frame(playback) g == frame(playback') IN
    g # f /\ (f = None \/ g.image # f.image) =>
        g.image = playback'.selected \/ (f = None /\ g.image = Primary)

\* A selected image that decodes is shown in full, unless the selection moves
\* on, also after failed decodes, jumps of the clock and interrupted dissolves.
SelectedIsShown ==
    \A i \in Image \ Broken :
        playback.selected = i ~> shown = Full(i) \/ playback.selected # i

\* With a primary image that decodes, a blank screen gets a picture before the
\* selection moves on also when the selected image is broken
\* (queue_primary_fallback).
SomethingIsShown ==
    \A i \in Broken : Primary \notin Broken /\ playback.selected = i
                      ~> shown # None \/ playback.selected # i
=============================================================================
