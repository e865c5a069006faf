------------------------------- MODULE Redraw -------------------------------
(***************************************************************************)
(* What the session-lock runtime paints, into which buffer and when        *)
(* (crates/session-lock/src/runtime.rs).                                   *)
(*                                                                         *)
(* A surface has at most BUFFER_COUNT shared-memory buffers.  A redraw is  *)
(* full, or repaints the authentication overlay alone in a buffer that     *)
(* already holds the current background.  A turn of the loop dispatches    *)
(* events, takes what authentication changed, commits the partial redraws, *)
(* adopts a new wallpaper frame when no overlay waits for it, and renders  *)
(* the rest.  The compositor holds committed buffers, releases them, and   *)
(* answers frame callbacks.                                                *)
(*                                                                         *)
(* A picture is split into the overlay's region and the rest of the        *)
(* surface.  The code compares generations for equality only, so a buffer  *)
(* keeps for each generation whether it is still the current one.          *)
(* AuthenticationOutput decides which surface has the role; here any       *)
(* surface may get it when no other has it.                                *)
(***************************************************************************)
EXTENDS Naturals, Sequences

CONSTANTS
    Surface,       \* the configured or configurable lock surfaces
    Size,          \* sizes the compositor may configure, in logical pixels
    Scale,         \* integer scale factors of outputs
    Background,    \* wallpaper frames
    Pixels,        \* overlay contents
    Geometry       \* canvas and overlay bounds of presentation frames

BUFFER_COUNT == 2

None == 0

RedrawAssumption ==
    /\ Size \subseteq Nat \ {None} /\ Scale \subseteq Nat \ {None} /\ 1 \in Scale
    /\ Background # {} /\ Pixels # {} /\ Geometry # {}

VARIABLES
    surfaces,               \* Runtime.surfaces
    frame,                  \* Presentation::frame
    presentation_geometry,  \* Runtime.presentation_geometry
    turn,                   \* where the loop is in its turn
    screen,                 \* what the compositor shows of each surface
    callbacks               \* surfaces whose frame callback is owed

vars == <<surfaces, frame, presentation_geometry, turn, screen, callbacks>>

-----------------------------------------------------------------------------
(* RedrawState *)

Idle == [frame_pending |-> FALSE, redraw_pending |-> "None",
         geometry_pending |-> FALSE, role_pending |-> FALSE]

request(r, kind) ==
    IF r.redraw_pending = "Full" THEN r ELSE [r EXCEPT !.redraw_pending = kind]

request_geometry(r) ==
    [r EXCEPT !.redraw_pending = "Full", !.geometry_pending = TRUE]

request_role_change(r) ==
    [request_geometry(r) EXCEPT !.role_pending = TRUE]

request_media(r) ==
    IF r.redraw_pending = "Overlay" THEN r ELSE request(r, "Full")

redraw_can_progress(count, reusable) == reusable \/ count < BUFFER_COUNT

should_render(r, count, reusable) ==
    /\ r.redraw_pending # "None"
    /\ r.geometry_pending \/ (~r.frame_pending /\ redraw_can_progress(count, reusable))

committed(r) == [Idle EXCEPT !.frame_pending = TRUE]

frame_done(r) == [r EXCEPT !.frame_pending = FALSE]

-----------------------------------------------------------------------------
(* Pictures and buffers *)

buffer_size(u) == u.size * u.scale

\* What draw_opaque_cached paints outside and inside the overlay's region.
Rest(u) ==
    [size |-> buffer_size(u), authentication |-> u.authentication,
     background |-> frame.background, geometry |-> frame.geometry]

Region(u, overlay) ==
    [rest |-> Rest(u), overlay |-> IF u.authentication THEN {overlay} ELSE {}]

Picture(u, overlay) == [rest |-> Rest(u), region |-> Region(u, overlay)]

NoPicture == [rest |-> None, region |-> None]

\* The scaled overlay a surface keeps: whether its source is the frame's
\* overlay, which the code asks of the address of the pixels, and its size.
NoCache == [source |-> FALSE, target |-> <<>>, pixels |-> None]

\* CachedOverlay::matches
CacheMatches(u, cache) ==
    cache.source /\ cache.target = <<buffer_size(u), frame.geometry>>

\* Surface::scaled_overlay
scaled_overlay(u) ==
    IF ~u.authentication THEN NoCache
    ELSE IF CacheMatches(u, u.cache) THEN u.cache
    ELSE [source |-> TRUE, target |-> <<buffer_size(u), frame.geometry>>,
          pixels |-> frame.overlay]

First(S) == CHOOSE i \in S : \A j \in S : i <= j

\* What is left of BUFFER_COUNT buffers, or fewer, when those at K are kept.
Keep(buffers, K) ==
    IF K = DOMAIN buffers THEN buffers
    ELSE IF K = {} THEN << >> ELSE <<buffers[First(K)]>>

Retained(u) ==
    [u EXCEPT !.buffers =
        Keep(@, {i \in DOMAIN @ : @[i].size = buffer_size(u) /\ @[i].geometry /\ @[i].role})]

Reusable(u) == {i \in DOMAIN u.buffers : ~u.buffers[i].held}

CurrentReusable(u) == {i \in Reusable(u) : u.buffers[i].background}

select_reusable_buffer(u, kind) ==
    IF kind = "Overlay" /\ CurrentReusable(u) # {}
    THEN First(CurrentReusable(u))
    ELSE First(Reusable(u))

ShouldRender(u) == should_render(u.redraw, Len(u.buffers), Reusable(u) # {})

overlay_progress(u, include_pending_full) ==
    LET kind == u.redraw.redraw_pending IN
    CASE kind = "None" \/ (kind = "Full" /\ ~include_pending_full) -> "None"
      [] kind = "Full" /\ include_pending_full ->
             IF ShouldRender(u) THEN "Full" ELSE "Blocked"
      [] kind = "Overlay" ->
             IF ~ShouldRender(u) THEN "Blocked"
             ELSE IF u.redraw.geometry_pending \/ CurrentReusable(u) = {}
             THEN "Full" ELSE "Partial"

-----------------------------------------------------------------------------
(* render *)

\* Bug: an overlay redraw trusts any free buffer to hold the current background.
Partial_AnyBuffer(u, i) == u.redraw.redraw_pending = "Overlay"

\* The redraw paints the overlay's region alone (full_redraw, redraw_region).
Partial(u, i) == u.redraw.redraw_pending = "Overlay" /\ u.buffers[i].background

Retiring(u) == u.redraw.role_pending /\ ~u.authentication

\* A retiring surface for which there is no presentation feedback takes its
\* role back and commits nothing.
Denied(u) ==
    [u EXCEPT !.authentication = TRUE, !.cache = NoCache,
              !.buffers = [i \in DOMAIN @ |-> [@[i] EXCEPT !.role = FALSE]],
              !.redraw = request_role_change(@)]

Canvas(u) ==
    [size |-> buffer_size(u), geometry |-> TRUE, role |-> TRUE, background |-> TRUE,
     held |-> FALSE, latest |-> FALSE, picture |-> NoPicture]

\* A surface, its buffers retained, after render, and the picture the
\* compositor then shows: `screen` where the commit damages only the region.
Rendered(u, shown) ==
    LET cache == scaled_overlay(u)
        now   == Picture(u, cache.pixels)
        fresh == Reusable(u) = {}
        i     == IF fresh THEN Len(u.buffers) + 1
                 ELSE select_reusable_buffer(u, u.redraw.redraw_pending)
        all   == IF fresh THEN Append(u.buffers, Canvas(u)) ELSE u.buffers
        part  == ~fresh /\ Partial(u, i)
        drawn == IF part THEN [all[i].picture EXCEPT !.region = now.region] ELSE now
    IN  IF fresh /\ Len(u.buffers) >= BUFFER_COUNT
        THEN [surface |-> [u EXCEPT !.cache = cache], screen |-> shown, done |-> FALSE]
        ELSE [surface |->
                [u EXCEPT
                    !.cache = cache,
                    !.redraw = committed(@),
                    !.buffers = [j \in DOMAIN all |->
                        IF j = i
                        THEN [all[j] EXCEPT !.background = TRUE, !.held = TRUE,
                                            !.latest = TRUE, !.picture = drawn]
                        ELSE [all[j] EXCEPT !.latest = FALSE]]],
              screen |-> IF part THEN [shown EXCEPT !.region = drawn.region] ELSE drawn,
              done |-> TRUE]

\* render for every surface of `chosen`; the surfaces of `denied` retire
\* without feedback.
Render(kept, chosen, denied) ==
    LET after == [s \in chosen \ denied |-> Rendered(kept[s], screen[s])] IN
    /\ denied \subseteq {s \in chosen : Retiring(kept[s])}
    /\ surfaces' = [s \in Surface |->
           IF s \in denied THEN Denied(kept[s])
           ELSE IF s \in chosen THEN after[s].surface ELSE kept[s]]
    /\ screen' = [s \in Surface |-> IF s \in chosen \ denied THEN after[s].screen ELSE screen[s]]
    /\ callbacks' = callbacks \cup
           {s \in chosen \ denied : after[s].done /\ ~kept[s].redraw.frame_pending}

-----------------------------------------------------------------------------
(* Events of a dispatch *)

Dispatching == turn.at = "dispatch"

Stale(u, generation) ==
    [u EXCEPT !.buffers = [i \in DOMAIN @ |-> [@[i] EXCEPT ![generation] = FALSE]]]

\* configure and scale_factor_changed change the geometry of one surface.
Reshape(s, size, scale) ==
    /\ Dispatching
    /\ surfaces' = [surfaces EXCEPT ![s] =
           [Stale(surfaces[s], "geometry") EXCEPT !.size = size, !.scale = scale,
                                                  !.redraw = request_geometry(@)]]
    /\ UNCHANGED <<frame, presentation_geometry, turn, screen, callbacks>>

configure(s) ==
    \E size \in Size \ {surfaces[s].size} : Reshape(s, size, surfaces[s].scale)

\* A surface learns its scale when it enters an output.
scale_factor_changed(s) ==
    \E scale \in Scale \ {surfaces[s].scale} :
        /\ surfaces[s].size # None
        /\ Reshape(s, surfaces[s].size, scale)

\* set_authentication, for the handoffs of AuthenticationOutput.
set_authentication(s) ==
    /\ Dispatching
    /\ surfaces[s].size # None
    /\ \A t \in Surface \ {s} : ~surfaces[t].authentication /\ ~Retiring(surfaces[t])
    /\ surfaces' = [surfaces EXCEPT ![s] =
           [Stale(surfaces[s], "role") EXCEPT !.authentication = ~@, !.cache = NoCache,
                                              !.redraw = request_role_change(@)]]
    /\ UNCHANGED <<frame, presentation_geometry, turn, screen, callbacks>>

\* CompositorHandler::frame
Frame(s) ==
    /\ Dispatching /\ s \in callbacks
    /\ callbacks' = callbacks \ {s}
    /\ surfaces' = [surfaces EXCEPT ![s].redraw = frame_done(@)]
    /\ UNCHANGED <<frame, presentation_geometry, turn, screen>>

\* The compositor is done with a buffer; it shows up in SlotPool::canvas.
Release(s, i) ==
    /\ Dispatching
    /\ i \in DOMAIN surfaces[s].buffers /\ surfaces[s].buffers[i].held
    /\ surfaces' = [surfaces EXCEPT ![s].buffers[i].held = FALSE]
    /\ UNCHANGED <<frame, presentation_geometry, turn, screen, callbacks>>

Superseded(s) ==
    \E i \in 1..BUFFER_COUNT :
        /\ i \in DOMAIN surfaces[s].buffers /\ ~surfaces[s].buffers[i].latest
        /\ Release(s, i)

\* A cache keeps its source alive, so no new overlay has its address.
Uncached(u) == [u EXCEPT !.cache.source = FALSE]

\* The presentation rebuilds its overlay, now and then with other bounds.
NewOverlay ==
    \E pixels \in Pixels, geometry \in Geometry :
        frame' = [frame EXCEPT !.overlay = pixels, !.geometry = geometry]

OldOverlay == [s \in Surface |-> Uncached(surfaces[s])]

\* A new background generation makes every painted background an old one.
Bumped(from) == [s \in Surface |-> Stale(from[s], "background")]

\* record_full_frame does not ask whether anything changed.
record_full_frame == presentation_geometry' = frame'.geometry

\* redraw_all_surfaces
RedrawAll(from, kind) ==
    [s \in Surface |->
        IF from[s].size # None /\ (kind = "Full" \/ from[s].authentication)
        THEN [from[s] EXCEPT !.redraw = request(@, kind)] ELSE from[s]]

\* classify_overlay_redraw, then redraw_all_surfaces
classify_overlay_redraw ==
    IF frame'.geometry = presentation_geometry
    THEN surfaces' = RedrawAll(OldOverlay, "Overlay") /\ UNCHANGED presentation_geometry
    ELSE surfaces' = RedrawAll(Bumped(OldOverlay), "Full") /\ record_full_frame

\* redraw_media
RedrawMedia(from) ==
    [s \in Surface |->
        IF from[s].size # None
        THEN [from[s] EXCEPT !.redraw = request_media(@)] ELSE from[s]]

\* handle_key: Presentation::input has changed the overlay.
handle_key ==
    /\ Dispatching
    /\ NewOverlay /\ classify_overlay_redraw
    /\ UNCHANGED <<turn, screen, callbacks>>

\* The lock is confirmed: the overlay is rebuilt and everything is redrawn.
lock_confirmed ==
    /\ Dispatching
    /\ NewOverlay /\ record_full_frame
    /\ surfaces' = RedrawAll(Bumped(OldOverlay), "Full")
    /\ UNCHANGED <<turn, screen, callbacks>>

-----------------------------------------------------------------------------
(* The turn *)

At(phase) == [turn EXCEPT !.at = phase]

Unchanged == UNCHANGED <<surfaces, frame, presentation_geometry>>

\* apply_refresh for Frame and Failed
MediaRefresh ==
    /\ record_full_frame
    /\ surfaces' = RedrawMedia(Bumped(surfaces))

\* refresh_priority and apply_refresh
ReceiveLatest(refresh) ==
    /\ Dispatching
    /\ CASE refresh = "Unchanged" -> Unchanged
         [] refresh = "Overlay" -> NewOverlay /\ classify_overlay_redraw
    /\ turn' = [turn EXCEPT !.at = "partial", !.priority = refresh]
    /\ UNCHANGED <<screen, callbacks>>

Configured == {s \in Surface : surfaces[s].size # None}

Kept == [s \in Surface |-> IF s \in Configured THEN Retained(surfaces[s]) ELSE surfaces[s]]

\* Bug: media waits for a full redraw that may never be asked for.
should_poll_deferred_FullOnly(priority, p) == "Full" \in p

\* p is the set of the surfaces' progress.
should_poll_deferred(priority, p) ==
    LET blocked   == "Blocked" \in p
        unblocked == p \ {"Blocked"} # {}
    IN  IF priority = "Unchanged"
        THEN IF blocked THEN unblocked ELSE "Partial" \notin p \/ "Full" \in p
        ELSE "Full" \in p \/ (blocked /\ unblocked)

commit_partial_overlays ==
    LET kept     == Kept
        progress == [s \in Configured |-> overlay_progress(kept[s], TRUE)]
        poll     == should_poll_deferred(turn.priority, {progress[s] : s \in Configured})
        full     == \E s \in Configured : progress[s] = "Full"
    IN  /\ turn.at = "partial"
        /\ Render(kept, {s \in Configured : progress[s] = "Partial"}, {})
        /\ turn' = [turn EXCEPT !.at = IF poll THEN "deferred" ELSE "maintain",
                                !.allow = poll \/ full]
        /\ UNCHANGED <<frame, presentation_geometry>>

\* refresh_presentation and apply_refresh: the wallpaper player may have a
\* new frame, or have failed and left the fallback.
ReceiveDeferred ==
    /\ turn.at = "deferred"
    /\ \/ Unchanged
       \/ /\ \E b \in Background : frame' = [frame EXCEPT !.background = b]
          /\ MediaRefresh
    /\ turn' = At("maintain")
    /\ UNCHANGED <<screen, callbacks>>

\* Bug: an overlay that needs a full repaint waits for a turn with media.
ReadyToRedraw_PartialOnly(kept) ==
    {s \in Configured : ShouldRender(kept[s]) /\ overlay_progress(kept[s], FALSE) # "Full"}

ReadyToRedraw(kept) ==
    {s \in Configured :
        ShouldRender(kept[s]) /\ (turn.allow \/ overlay_progress(kept[s], FALSE) # "Full")}

maintain_surfaces ==
    /\ turn.at = "maintain"
    /\ \E denied \in SUBSET Surface : Render(Kept, ReadyToRedraw(Kept), denied)
    /\ turn' = [at |-> "dispatch", priority |-> "Unchanged", allow |-> FALSE]
    /\ UNCHANGED <<frame, presentation_geometry>>

-----------------------------------------------------------------------------

\* run has made a surface for every output (add_surface).
Init ==
    /\ surfaces = [s \in Surface |->
           [size |-> None, scale |-> 1, authentication |-> FALSE, buffers |-> <<>>,
            cache |-> NoCache, redraw |-> [Idle EXCEPT !.redraw_pending = "Full"]]]
    /\ \E b \in Background, p \in Pixels, g \in Geometry :
           frame = [background |-> b, overlay |-> p, geometry |-> g]
    /\ presentation_geometry = frame.geometry
    /\ turn = [at |-> "dispatch", priority |-> "Unchanged", allow |-> FALSE]
    /\ screen = [s \in Surface |-> NoPicture]
    /\ callbacks = {}

Handlers ==
    \/ handle_key \/ lock_confirmed
    \/ \E s \in Surface :
           \/ configure(s) \/ scale_factor_changed(s) \/ set_authentication(s) \/ Frame(s)
           \/ \E i \in 1..BUFFER_COUNT : Release(s, i)

Turn ==
    \/ \E refresh \in {"Unchanged", "Overlay"} : ReceiveLatest(refresh)
    \/ commit_partial_overlays \/ ReceiveDeferred \/ maintain_surfaces

Next == Handlers \/ Turn

\* The loop turns, the compositor answers frame callbacks and releases the
\* buffers a newer commit superseded.  Nothing is assumed of input or media.
Fairness ==
    /\ WF_vars(Turn)
    /\ \A s \in Surface : SF_vars(Frame(s) \/ Superseded(s))

Spec == Init /\ [][Next]_vars /\ Fairness

-----------------------------------------------------------------------------
(* Properties *)

RedrawStates ==
    [frame_pending : BOOLEAN, redraw_pending : {"None", "Overlay", "Full"},
     geometry_pending : BOOLEAN, role_pending : BOOLEAN]

\* Every surface keeps at most BUFFER_COUNT buffers, whatever is requested of
\* it while the compositor holds them; a changed geometry or role is pending
\* as a full redraw; the turn is in a phase of run's loop.
TypeOK ==
    /\ \A s \in Surface :
         LET u == surfaces[s] IN
         /\ u.size \in Size \cup {None} /\ u.scale \in Scale
         /\ u.redraw \in RedrawStates
         /\ u.redraw.geometry_pending => u.redraw.redraw_pending = "Full"
         /\ u.redraw.role_pending => u.redraw.geometry_pending
         /\ Len(u.buffers) <= BUFFER_COUNT
    /\ frame.background \in Background /\ presentation_geometry \in Geometry
    /\ turn.at \in {"dispatch", "partial", "deferred", "maintain"}

\* A surface with no redraw pending shows exactly the current frame in its
\* current size and role: no partial repaint of a reused buffer, cached
\* overlay or damaged region leaves anything stale on the screen, and no
\* overlay pixels stay on a surface that lost the authentication role
\* (render, select_reusable_buffer, redraw_region, CachedOverlay::matches).
SettledScreenIsCurrent ==
    \A s \in Surface :
        surfaces[s].redraw.redraw_pending = "None" =>
            screen[s] = Picture(surfaces[s], frame.overlay)

\* A surface that waits for a frame callback has one coming, and no other: it
\* is never left waiting after a commit forced by a new size or role
\* (RedrawState::request_frame_callback, committed).
CallbackIsOwed ==
    \A s \in Surface : surfaces[s].redraw.frame_pending <=> s \in callbacks

\* A requested redraw is committed, however much input and media keep coming:
\* overlay and media redraws never block each other for good
\* (should_poll_deferred, should_allow_overlay_full).  A surface may instead
\* begin to retire, which AuthenticationOutput follows to its end.
RedrawHappens ==
    \A s \in Surface :
        (surfaces[s].size # None /\ surfaces[s].redraw.redraw_pending # "None")
            ~> (surfaces[s].redraw.redraw_pending = "None" \/ Retiring(surfaces[s]))

OverlayChanges ==
    \/ handle_key \/ lock_confirmed \/ ReceiveLatest("Overlay")
    \/ \E s \in Surface : set_authentication(s)

\* Overlay priority does not outlast the overlay: as long as the wallpaper
\* player is not polled, input and authentication keep changing the overlay
\* (should_poll_deferred).
MediaIsPolled == []<>(turn.at = "deferred") \/ []<><<OverlayChanges>>_vars
=============================================================================
