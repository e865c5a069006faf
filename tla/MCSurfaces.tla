----------------------------- MODULE MCSurfaces -----------------------------
(***************************************************************************)
(* What is painted: the lock surfaces and their buffers (Redraw), their    *)
(* pixels (Raster), what the locker has to say on them (LockOverlay), the  *)
(* surfaces of the desktop wallpaper (DesktopSurfaces) and the images      *)
(* given to them (DynamicPlayback).  These do not share steps, so a        *)
(* behaviour is one of `part`; v1 to v13 are the variables of that part.   *)
(***************************************************************************)
EXTENDS Integers, Sequences, TLC

CONSTANTS
    Surface, Size, Scale, Background, Pixels, Geometry,   \* of Redraw
    LargestSurfaceSide, LargestBuffer, LargestInteger, FilterScale, OpaqueAlpha, MaxFrameSide,
    MaxSurfaceSide,   \* of Raster
    Prompts, Notices, Lines, PromptLines, NoticeLines, Inputs, MAX_TEXT_CHARS, MaskChars,
    MaxPresses, MaxFrames,   \* of LockOverlay
    Outputs, OutputSizes, OutputScales, LargestSide, DissolveSteps, MaxChanges,
                     \* of DesktopSurfaces
    DaySeconds, Pictures, PrimaryPicture, DayPoints, SunPoints, DissolveSeconds, RetrySeconds,
    ClockTolerance, BrokenPictures, FlakyPictures, MaxDecodes, MaxClockJumps,
                     \* of DynamicPlayback
    Nothing          \* no picture, of DesktopSurfaces and DynamicPlayback

VARIABLES part, v1, v2, v3, v4, v5, v6, v7, v8, v9, v10, v11, v12, v13

pool == <<part, v1, v2, v3, v4, v5, v6, v7, v8, v9, v10, v11, v12, v13>>

Unused == "unused"

\* Contents and bounds are compared for equality only.
Symmetry == UNION {Permutations(S) : S \in {Background, Pixels, Geometry}}

-----------------------------------------------------------------------------
(* The parts *)

Lock == INSTANCE Redraw
    WITH surfaces <- v1, frame <- v2, presentation_geometry <- v3, turn <- v4,
         screen <- v5, callbacks <- v6

Paint == INSTANCE Raster
    WITH MAX_SURFACE_DIMENSION <- LargestSurfaceSide, MAX_BUFFER_BYTES <- LargestBuffer,
         MaxInteger <- LargestInteger, FILTER_SCALE <- FilterScale, Opaque <- OpaqueAlpha,
         MaxSide <- MaxFrameSide, MaxSurface <- MaxSurfaceSide,
         frame <- v1, wallpaper <- v2, surface <- v3, column <- v4, row <- v5

Overlay == INSTANCE LockOverlay
    WITH confirmed <- v1, auth <- v2, prompt_id <- v3, status <- v4, prompt <- v5,
         notice <- v6, input <- v7, instruction_page <- v8, background <- v9, frame <- v10,
         shown <- v11, presses <- v12, seen <- v13

Desktop == INSTANCE DesktopSurfaces
    WITH None <- Nothing, Output <- Outputs, Size <- OutputSizes, Scale <- OutputScales,
         MaxDimension <- LargestSide, Steps <- DissolveSteps, MaxEvents <- MaxChanges,
         logical <- v1, surfaces <- v2, shown <- v3, dissolve <- v4, events <- v5

Images == INSTANCE DynamicPlayback
    WITH None <- Nothing, SecondsPerDay <- DaySeconds, Grain <- 8, SampleSeconds <- 1,
         Image <- Pictures, Primary <- PrimaryPicture,
         TimePoints <- DayPoints, SolarPoints <- SunPoints,
         Dissolve <- DissolveSeconds, RetryAfter <- RetrySeconds, Tolerance <- ClockTolerance,
         Broken <- BrokenPictures, Flaky <- FlakyPictures,
         MaxInflight <- MaxDecodes, MaxJumps <- MaxClockJumps,
         playback <- v1, reduced <- v2, now <- v3, drift <- v4, forced <- v5, uptime <- v6,
         jumps <- v7, inflight <- v8, shown <- v9

\* Prompts of up to three pages, notices of up to four.
TextLines == [t \in {"Password", "code", "terms", "hint", "story",
                     "Authentication worker unavailable", "Authentication failed"} |->
                CASE t = "terms" -> 7 [] t = "story" -> 4 [] t = "hint" -> 2 [] OTHER -> 1]
KeyTexts  == {<<1>>, <<4, 4>>, <<2, 1, 4>>}

\* Schedules of three points, one of them at the end of the day, and of two.
At(image, second) == [image |-> image, boundary |-> second]
ThreePoints == <<At(1, 1), At(2, 4), At(3, 7)>>
TwoPoints   == <<At(1, 3), At(2, 6)>>

ASSUME LockAssumption == Lock!RedrawAssumption
ASSUME PaintAssumption == Paint!RasterAssumption
ASSUME OverlayAssumption == Overlay!LockOverlayAssumption
ASSUME DesktopAssumption == Desktop!SurfacesAssumption
ASSUME ImagesAssumption == Images!PlaybackAssumption

Init ==
    \/ /\ part = "lock" /\ Lock!Init
       /\ v7 = Unused /\ v8 = Unused /\ v9 = Unused /\ v10 = Unused /\ v11 = Unused
       /\ v12 = Unused /\ v13 = Unused
    \/ /\ part = "paint" /\ Paint!Init
       /\ v6 = Unused /\ v7 = Unused /\ v8 = Unused /\ v9 = Unused /\ v10 = Unused
       /\ v11 = Unused /\ v12 = Unused /\ v13 = Unused
    \/ part = "overlay" /\ Overlay!Init
    \/ /\ part = "desktop" /\ Desktop!Init
       /\ v6 = Unused /\ v7 = Unused /\ v8 = Unused /\ v9 = Unused /\ v10 = Unused
       /\ v11 = Unused /\ v12 = Unused /\ v13 = Unused
    \/ /\ part = "images" /\ Images!Init
       /\ v10 = Unused /\ v11 = Unused /\ v12 = Unused /\ v13 = Unused

Next ==
    \/ part = "lock" /\ Lock!Next /\ UNCHANGED <<part, v7, v8, v9, v10, v11, v12, v13>>
    \/ part = "paint" /\ Paint!Next /\ UNCHANGED <<part, v6, v7, v8, v9, v10, v11, v12, v13>>
    \/ part = "overlay" /\ Overlay!Next /\ UNCHANGED part
    \/ part = "desktop" /\ Desktop!Next /\ UNCHANGED <<part, v6, v7, v8, v9, v10, v11, v12, v13>>
    \/ part = "images" /\ Images!Next /\ UNCHANGED <<part, v10, v11, v12, v13>>

Spec == Init /\ [][Next]_pool

\* The lock surfaces alone, with the fairness of Redraw.
LockInit == part = "lock" /\ Init
LockSpec == LockInit /\ [][Next]_pool /\ Lock!Fairness

-----------------------------------------------------------------------------
(* Properties *)

\* A lock surface with no redraw pending shows exactly the current frame in its
\* current size and role, with nothing stale from a reused buffer, a cached
\* overlay or a damaged region (render, select_reusable_buffer, redraw_region);
\* and that frame is of the current conversation: no input outgrows the buffer
\* that is wiped, and every text is shown from its first line and, by turning
\* pages, in full (LockerPresentation::input, rebuild_overlay, page_layout).
SettledScreenIsCurrent ==
    /\ part = "lock" => Lock!TypeOK /\ Lock!SettledScreenIsCurrent
    /\ part = "overlay" => /\ Overlay!TypeOK /\ Overlay!FrameIsCurrent
                           /\ Overlay!InputStaysInItsBuffer
                           /\ Overlay!TextBeginsAtItsStart /\ Overlay!EveryLineIsShown

\* The compositor owes a frame callback to exactly the surfaces that wait for
\* one, on the lock and on the desktop; there, no commit overtakes the callback
\* but one of a new geometry, every commit has the size of its surface, and a
\* buffer that the compositor still reads is not painted (RedrawState, and
\* PresentationState, buffer_decision and render of desktop_wallpaper.rs).
CommitsArePaced ==
    /\ [](part = "lock" => Lock!CallbackIsOwed)
    /\ [](part = "desktop" => Desktop!TypeOK /\ Desktop!CallbackIsOwed)
    /\ [][part = "desktop" => /\ Desktop!CommittedFits /\ Desktop!HeldBufferIsNotPainted
                              /\ Desktop!RedrawIsPaced]_pool

\* For every small frame, wallpaper and surface: the overlay lies within the
\* surface, and nothing of it outside the region a partial redraw repaints;
\* every pixel has wallpaper under it; filtering keeps flat colours, and a
\* preview shows what the lock shows (overlay_geometry, cover_geometry,
\* filtered_axis, draw_opaque_region_cached).
PixelsAreCovered ==
    part = "paint" =>
        /\ Paint!OverlayFitsSurface /\ Paint!OverlayIsCovered /\ Paint!WallpaperCovers
        /\ Paint!FilterKeepsFlatColour /\ Paint!PreviewMatchesLock

\* An image comes on screen only while it is selected, however late its decode
\* returns and whatever the clock did meanwhile; presented_image names what is
\* on screen, and the consumer has been given every change of it (synchronize,
\* complete_decode, advance_transition of playback.rs).
OnlySelectedAppears ==
    /\ [](part = "images" => /\ Images!TypeOK /\ Images!PresentedImageIsOnScreen
                             /\ Images!ConsumerShowsFrame)
    /\ [][part = "images" => Images!OnlySelectedAppears]_pool

\* On the lock, every redraw that is asked for is committed under endless input
\* and media, unless its surface retires (RedrawState, commit_partial_overlays).
RedrawHappens == Lock!RedrawHappens

\* The wallpaper player is polled again once the overlay stops changing
\* (should_poll_deferred).
MediaIsPolled == Lock!MediaIsPolled
=============================================================================
