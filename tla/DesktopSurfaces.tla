--------------------------- MODULE DesktopSurfaces ---------------------------
(***************************************************************************)
(* The layer-shell surfaces of the desktop wallpaper                       *)
(* (src/desktop_wallpaper.rs): one background surface per output, painted  *)
(* into at most two shared-memory buffers and paced by frame callbacks     *)
(* while the picture dissolves.                                            *)
(*                                                                         *)
(* The event loop dispatches what the compositor sent (one action each) and*)
(* then runs maintain, one action for all surfaces.  The playback is left  *)
(* to DynamicPlayback: here its picture changes, or dissolves for a number *)
(* of steps.  Pictures and geometry generations are kept as whether a      *)
(* buffer, or what is on screen, still has the latest one; commits are told*)
(* apart by their parity.                                                  *)
(***************************************************************************)
EXTENDS Integers, Sequences, FiniteSets

CONSTANTS
    Output,        \* outputs that come and go
    Size,          \* logical sizes of a surface
    Scale,         \* integer scales of an output
    MaxDimension,  \* MAX_SURFACE_DIMENSION
    Steps,         \* samples of a dissolve
    MaxEvents,     \* bound of the model on changes from outside
    None

SurfacesAssumption ==
    /\ Size \subseteq Nat \ {0} /\ Scale \subseteq Nat \ {0} /\ 1 \in Scale
    /\ Steps \in Nat \ {0} /\ MaxEvents \in Nat /\ MaxDimension \in Nat

VARIABLES
    logical,    \* output -> the size its OutputInfo yields, 0 if none; None when gone
    surfaces,   \* output -> its Surface, or None
    shown,      \* output -> what the compositor shows of it, or None
    dissolve,   \* steps the dissolve has to go, 0 when not transitioning
    events      \* changes from outside so far

vars == <<logical, surfaces, shown, dissolve, events>>

BufferCount == 2    \* BUFFER_COUNT

Presentation == [redraw : BOOLEAN, geometry_redraw : BOOLEAN, frame_pending : BOOLEAN,
                 frame_ready : BOOLEAN, disabled : BOOLEAN]
Buffer == [size : Nat, current : BOOLEAN, held : BOOLEAN]
OnScreen == [size : Nat, current : BOOLEAN, latest : BOOLEAN, commit : {0, 1}]

TypeOK ==
    /\ logical \in [Output -> Size \cup {0, None}]
    /\ \A o \in Output : surfaces[o] # None =>
         /\ surfaces[o].hints \in Size \cup {0, None}
         /\ surfaces[o].size \in Size \cup {None} /\ surfaces[o].scale \in Scale
         /\ surfaces[o].presentation \in Presentation
         /\ surfaces[o].callback \in BOOLEAN
         /\ surfaces[o].buffers \in Seq(Buffer) /\ Len(surfaces[o].buffers) <= BufferCount
    /\ shown \in [Output -> OnScreen \cup {None}]
    /\ dissolve \in 0..Steps /\ events \in 0..MaxEvents

-----------------------------------------------------------------------------
(* PresentationState *)

NewPresentation == [redraw |-> TRUE, geometry_redraw |-> FALSE, frame_pending |-> FALSE,
                    frame_ready |-> FALSE, disabled |-> FALSE]

geometry_changed(p) == [p EXCEPT !.redraw = TRUE, !.geometry_redraw = TRUE, !.disabled = FALSE]

\* playback_changed_UnlessPending: the callback to come is taken for a redraw.
playback_changed_UnlessPending(p) ==
    [p EXCEPT !.redraw = @ \/ (~p.disabled /\ ~p.frame_pending)]

playback_changed(p) == [p EXCEPT !.redraw = @ \/ ~p.disabled]

frame_arrived(p) == [p EXCEPT !.frame_pending = FALSE, !.frame_ready = ~p.disabled]

render_eligible(p, configured) ==
    ~p.disabled /\ p.redraw /\ (~p.frame_pending \/ p.geometry_redraw) /\ configured

next_action(p, transitioning, configured) ==
    IF p.frame_ready /\ ~p.disabled /\ ~p.redraw /\ transitioning THEN "Rearm"
    ELSE IF render_eligible(p, configured) THEN "Render"
    ELSE "Idle"

disable(p) == [p EXCEPT !.redraw = FALSE, !.geometry_redraw = FALSE,
                        !.frame_ready = FALSE, !.disabled = TRUE]

-----------------------------------------------------------------------------
(* Surface geometry *)

\* resolve_configure_size: a zero hint leaves the choice to the output, or
\* else to the previous size.
resolve_configure_size(hint, previous, output) ==
    IF hint # 0 THEN hint ELSE IF output # 0 THEN output ELSE previous

\* A new geometry_generation: no buffer has it yet.
Generation(s) == [s EXCEPT !.buffers = [i \in DOMAIN @ |-> [@[i] EXCEPT !.current = FALSE]]]

Stale(o) == shown' = [shown EXCEPT ![o] = IF @ = None THEN @ ELSE [@ EXCEPT !.current = FALSE]]

\* refresh_surface_geometry(index, true), for an output of the given size.
refresh_surface_geometry(o, surface, output) ==
    LET size == IF surface.hints = None THEN None
                ELSE resolve_configure_size(surface.hints, surface.size, output)
        sized == IF size = surface.size THEN surface
                 ELSE Generation([surface EXCEPT !.size = size])
    IN  IF size = None THEN surfaces' = [surfaces EXCEPT ![o] = surface] /\ UNCHANGED shown
        ELSE /\ surfaces' = [surfaces EXCEPT ![o] =
                   [sized EXCEPT !.presentation = geometry_changed(@)]]
             /\ IF size = surface.size THEN UNCHANGED shown ELSE Stale(o)

NewSurface == [hints |-> None, size |-> None, scale |-> 1, buffers |-> <<>>,
               presentation |-> NewPresentation, callback |-> FALSE]

-----------------------------------------------------------------------------
(* Events of the compositor *)

Outside == events < MaxEvents /\ events' = events + 1

\* new_output and update_output, through add_surface.
add_surface(o, size) ==
    /\ Outside /\ logical' = [logical EXCEPT ![o] = size]
    /\ IF surfaces[o] = None
       THEN surfaces' = [surfaces EXCEPT ![o] = NewSurface] /\ UNCHANGED shown
       ELSE refresh_surface_geometry(o, surfaces[o], size)
    /\ UNCHANGED dissolve

Remove(o) ==
    /\ surfaces' = [surfaces EXCEPT ![o] = None]
    /\ shown' = [shown EXCEPT ![o] = None]

output_destroyed(o) ==
    /\ Outside /\ logical[o] # None
    /\ logical' = [logical EXCEPT ![o] = None] /\ Remove(o)
    /\ UNCHANGED dissolve

closed(o) ==
    /\ Outside /\ surfaces[o] # None /\ Remove(o)
    /\ UNCHANGED <<logical, dissolve>>

configure(o, hint) ==
    /\ Outside /\ surfaces[o] # None
    /\ refresh_surface_geometry(o, [surfaces[o] EXCEPT !.hints = hint],
                                IF logical[o] = None THEN 0 ELSE logical[o])
    /\ UNCHANGED <<logical, dissolve>>

scale_factor_changed(o, scale) ==
    /\ Outside /\ surfaces[o] # None /\ surfaces[o].scale # scale
    /\ surfaces' = [surfaces EXCEPT ![o] =
         Generation([surfaces[o] EXCEPT !.scale = scale, !.presentation = geometry_changed(@)])]
    /\ Stale(o) /\ UNCHANGED <<logical, dissolve>>

transform_changed(o) ==
    /\ Outside /\ surfaces[o] # None
    /\ surfaces' = [surfaces EXCEPT ![o] =
         Generation([surfaces[o] EXCEPT !.presentation = geometry_changed(@)])]
    /\ Stale(o) /\ UNCHANGED <<logical, dissolve>>

\* frame: the compositor answers an outstanding callback.
frame(o) ==
    /\ surfaces[o] # None /\ surfaces[o].callback
    /\ surfaces' = [surfaces EXCEPT ![o] =
         [surfaces[o] EXCEPT !.callback = FALSE, !.presentation = frame_arrived(@)]]
    /\ UNCHANGED <<logical, shown, dissolve, events>>

\* wl_buffer.release
Release(o) ==
    /\ surfaces[o] # None
    /\ \E i \in DOMAIN surfaces[o].buffers :
         /\ surfaces[o].buffers[i].held
         /\ surfaces' = [surfaces EXCEPT ![o].buffers[i].held = FALSE]
    /\ UNCHANGED <<logical, shown, dissolve, events>>

-----------------------------------------------------------------------------
(* maintain *)

First(S) == CHOOSE i \in S : \A j \in S : i <= j

\* What is left of BufferCount buffers, or fewer, when those at K are kept.
Keep(buffers, K) ==
    IF K = DOMAIN buffers THEN buffers
    ELSE IF K = {} THEN << >> ELSE <<buffers[First(K)]>>

\* The buffers render keeps: those of the current geometry, and those the
\* compositor still reads.
Retained(s, size) ==
    Keep(s.buffers, {i \in DOMAIN s.buffers :
        (s.buffers[i].size = size /\ s.buffers[i].current) \/ s.buffers[i].held})

\* buffer_decision: the index of the first released buffer, the next index to
\* allocate one, or 0 to wait.
buffer_decision(buffers) ==
    LET released == {i \in DOMAIN buffers : ~buffers[i].held}
    IN  IF released # {} THEN First(released)
        ELSE IF Len(buffers) < BufferCount THEN Len(buffers) + 1 ELSE 0

\* rendered_ForgetsPending: a render that asks for no callback takes none to be due.
rendered_ForgetsPending(p, requested_frame) ==
    [p EXCEPT !.redraw = FALSE, !.geometry_redraw = FALSE,
              !.frame_pending = requested_frame, !.disabled = FALSE]

rendered(p, requested_frame) ==
    [p EXCEPT !.redraw = FALSE, !.geometry_redraw = FALSE,
              !.frame_pending = @ \/ requested_frame, !.disabled = FALSE]

\* render of one surface with p its presentation after next_action: the new
\* surface and what is shown of it.  fails is a failed allocation or attach.
render(s, old, p, transitioning, fails) ==
    LET size == s.size * s.scale
        buffers == Retained(s, size)
        choice == buffer_decision(buffers)
        painted == IF choice > Len(buffers)
                   THEN Append(buffers, [size |-> size, current |-> TRUE, held |-> TRUE])
                   ELSE [buffers EXCEPT ![choice].held = TRUE]
        request == transitioning /\ ~p.frame_pending
    IN  IF size > MaxDimension
        THEN <<[s EXCEPT !.presentation = disable(p)], old>>
        ELSE IF choice = 0 THEN <<[s EXCEPT !.presentation = p, !.buffers = buffers], old>>
        ELSE IF fails THEN <<[s EXCEPT !.presentation = disable(p), !.buffers = buffers], old>>
        ELSE <<[s EXCEPT !.buffers = painted, !.presentation = rendered(p, request),
                         !.callback = @ \/ request],
               [size |-> painted[choice].size, current |-> TRUE, latest |-> TRUE,
                commit |-> IF old = None THEN 0 ELSE 1 - old.commit]>>

\* What maintain does to one surface.
Act(s, old, transitioning, fails) ==
    LET taken == [s.presentation EXCEPT !.frame_ready = FALSE]
        action == next_action(s.presentation, transitioning, s.size # None)
    IN  CASE action = "Render" -> render(s, old, taken, transitioning, fails)
          [] action = "Rearm"  -> <<[s EXCEPT !.callback = TRUE,
                                             !.presentation = [taken EXCEPT !.frame_pending = TRUE]], old>>
          [] action = "Idle"   -> <<[s EXCEPT !.presentation = taken], old>>

Live == {o \in Output : surfaces[o] # None}

\* What synchronizing and a finished decode made of the playback: nothing, a
\* new picture, a dissolve that starts, or one that is snapped.
PlaybackEvent == {"none", "presented", "transitioning", "snapped"}

redraw_all(all, changed) == [o \in Output |->
    IF all[o] # None /\ changed THEN [all[o] EXCEPT !.presentation = playback_changed(@)]
    ELSE all[o]]

\* The surface can use a sample of the dissolve.
Wanted(s) == s.presentation.frame_ready \/ render_eligible(s.presentation, s.size # None)

\* The dissolve is advanced when a surface can use it; a sample may leave the
\* pixels as they are.
maintain(event, sample, failing) ==
    LET happened == event # "none"
        length == CASE event = "none" -> dissolve
                    [] event = "transitioning" -> Steps
                    [] OTHER -> 0
    IN  /\ IF happened \/ failing # {} THEN Outside ELSE UNCHANGED events
        /\ event = "snapped" => dissolve > 0
        /\ \E told \in {redraw_all(surfaces, happened)} :
           \E left \in {IF length > 0 /\ \E o \in Live : Wanted(told[o])
                       THEN length - 1 ELSE length} :
           \E changed \in {left # length /\ (sample \/ left = 0)} :
           \E sampled \in {redraw_all(told, changed)} :
           \E old \in {[o \in Output |->
                IF shown[o] # None /\ (happened \/ changed)
                THEN [shown[o] EXCEPT !.latest = FALSE] ELSE shown[o]]} :
           \E acted \in {[o \in Live |-> Act(sampled[o], old[o], left > 0, o \in failing)]} :
             /\ surfaces' = [o \in Output |-> IF o \in Live THEN acted[o][1] ELSE None]
             /\ shown' = [o \in Output |-> IF o \in Live THEN acted[o][2] ELSE None]
             /\ dissolve' = left
        /\ UNCHANGED logical

Maintain == \E sample \in BOOLEAN : maintain("none", sample, {})

-----------------------------------------------------------------------------
\* run creates a surface for every output there is.
Init ==
    /\ logical \in [Output -> {0, None}]
    /\ surfaces = [o \in Output |-> IF logical[o] = None THEN None ELSE NewSurface]
    /\ shown = [o \in Output |-> None]
    /\ dissolve = 0 /\ events = 0

Next ==
    \/ \E o \in Output :
         \/ \E size \in Size \cup {0} : add_surface(o, size) \/ configure(o, size)
         \/ \E scale \in Scale : scale_factor_changed(o, scale)
         \/ output_destroyed(o) \/ closed(o) \/ transform_changed(o) \/ frame(o) \/ Release(o)
         \/ maintain("none", TRUE, {o})
    \/ Maintain
    \/ \E event \in PlaybackEvent \ {"none"} : maintain(event, TRUE, {})

\* The event loop runs; the compositor answers callbacks and, once another
\* buffer is shown or its pixels are copied, releases a buffer.
Fairness ==
    /\ WF_vars(Maintain)
    /\ \A o \in Output : WF_vars(frame(o)) /\ WF_vars(Release(o))

Spec == Init /\ [][Next]_vars /\ Fairness

-----------------------------------------------------------------------------
(* Properties *)

\* A surface takes a callback to be pending exactly while the compositor owes
\* it one: it neither asks twice nor waits for a callback it never asked for,
\* also across a disabled presentation and changes of geometry.
CallbackIsOwed ==
    \A o \in Live : surfaces[o].presentation.frame_pending = surfaces[o].callback

\* A step commits a buffer to the surface of output o.
Commits(o) ==
    /\ surfaces[o] # None /\ surfaces'[o] # None /\ shown'[o] # None
    /\ shown[o] # None => shown[o].commit # shown'[o].commit

\* Of a step: what is committed has the size of the surface at that moment,
\* however the geometry changed while buffers of other sizes were held by the
\* compositor (retain_mut and geometry_generation in render).
CommittedFits ==
    \A o \in Output :
        Commits(o) => shown'[o].size = surfaces'[o].size * surfaces'[o].scale

Held(s) == Cardinality({i \in DOMAIN s.buffers : s.buffers[i].held})

\* Of a step: a buffer is painted only after the compositor released it.  A
\* commit leaves one buffer more in its hands, never one it was still reading.
HeldBufferIsNotPainted ==
    \A o \in Output : Commits(o) => Held(surfaces'[o]) = Held(surfaces[o]) + 1

\* Of a step: a redraw of new pixels is paced by the compositor.  While it owes
\* a frame callback, only a change of geometry is committed.
RedrawIsPaced ==
    \A o \in Output :
        Commits(o) /\ surfaces[o].callback => surfaces[o].presentation.geometry_redraw

Enabled(o) == surfaces[o] # None /\ surfaces[o].size # None /\ ~surfaces[o].presentation.disabled

\* Once the outside is quiet, every configured surface that could be painted
\* shows the latest picture in its present geometry: no redraw is lost while
\* buffers are held, callbacks are outstanding or the presentation is disabled.
LatestIsShown ==
    <>[](\A o \in Output :
           Enabled(o) => shown[o] # None /\ shown[o].current /\ shown[o].latest)

\* A dissolve on an enabled surface runs to its end: there is always a callback
\* or a redraw to come, also when a sample leaves all pixels as they were.
DissolveEnds ==
    \A o \in Output : (dissolve > 0 /\ Enabled(o)) ~> (dissolve = 0 \/ ~Enabled(o))
=============================================================================
