----------------------------- MODULE MCWallpaper -----------------------------
(***************************************************************************)
(* The desktop wallpaper over a day: which image is shown                  *)
(* (DynamicPlayback), how its surfaces are redrawn                         *)
(* (DesktopSurfaces), and how the location is found that maps the sun      *)
(* (DesktopSolar, GeoClue).  Each is checked by itself: a behaviour is one *)
(* of `part`.                                                              *)
(***************************************************************************)
EXTENDS DynamicPlayback

VARIABLES
    part,
    d_logical, d_surfaces, d_shown, d_dissolve, d_events,
    s_frame, s_thread, s_command, s_result, s_in_flight, s_requested, s_terminal,
    s_location, s_refresh, s_check, s_mapped, s_applied, s_date, s_age,
    g_pc, g_result, g_path, g_property, g_started, g_signals, g_matched, g_denied, g_fixes,
    g_unseen

desktopVars == <<d_logical, d_surfaces, d_shown, d_dissolve, d_events>>
solarVars ==
    <<s_frame, s_thread, s_command, s_result, s_in_flight, s_requested, s_terminal,
      s_location, s_refresh, s_check, s_mapped, s_applied, s_date, s_age>>
locationVars ==
    <<g_pc, g_result, g_path, g_property, g_started, g_signals, g_matched, g_denied, g_fixes,
      g_unseen>>
mcVars == <<part, vars, desktopVars, solarVars, locationVars>>

\* A day of a few seconds.  The time points hold one image that is broken; once
\* the location is known one image stays selected for ever.
At(image, second) == [image |-> image, boundary |-> second]

MCTimePoints  == <<At(1, 1), At(3, 5)>>
MCSolarPoints == <<At(2, 4)>>

\* One size at twice the scale has the pixels of the other, one product is too
\* large.
Desktop == INSTANCE DesktopSurfaces
    WITH Output <- {"output"}, Size <- {1, 2}, Scale <- {1, 2}, MaxDimension <- 3,
         Steps <- 3, MaxEvents <- 4,
         logical <- d_logical, surfaces <- d_surfaces, shown <- d_shown,
         dissolve <- d_dissolve, events <- d_events

\* Three places, the outer two meaningfully apart, and two dates, one of which
\* cannot be mapped.
Solar == INSTANCE DesktopSolar
    WITH Place <- {1, 2, 3}, Date <- {0, 1}, Unmappable <- {1},
         Refresh <- 3, Retry <- 1, Check <- 2, Permits <- TRUE, HasSolar <- TRUE,
         framed <- s_frame, thread <- s_thread, command <- s_command,
         result <- s_result, in_flight <- s_in_flight, requested <- s_requested,
         terminal <- s_terminal, location <- s_location, refresh <- s_refresh,
         check <- s_check, mapped <- s_mapped, applied <- s_applied, date <- s_date,
         age <- s_age

Quality == [fix \in {"good", "invalid", "coarse"} |->
              IF fix = "good" THEN "ok" ELSE IF fix = "invalid" THEN "Invalid" ELSE "Coarse"]

Location == INSTANCE GeoClue
    WITH Fix <- DOMAIN Quality, Quality <- Quality, MaxFixes <- 3,
         pc <- g_pc, result <- g_result, path <- g_path, property <- g_property, started <- g_started,
         signals <- g_signals, matched <- g_matched, denied <- g_denied, fixes <- g_fixes,
         unseen <- g_unseen

ASSUME PlaybackAssumption
ASSUME Desktop!SurfacesAssumption
ASSUME Solar!SolarAssumption
ASSUME Location!GeoClueAssumption

-----------------------------------------------------------------------------
Parts == {"playback", "desktop", "solar", "location"}

\* In the behaviours of another part, a part stands in one of its initial states.
MCInit ==
    /\ part \in Parts
    /\ Init /\ Desktop!Init /\ Solar!Init
    /\ part # "playback" => now = 0 /\ ~reduced /\ playback.mode = "Time"
    /\ part # "desktop" => d_logical["output"] = None
    /\ part # "solar" => s_date = 0
    /\ Location!Init

MCNext ==
    \/ part = "playback" /\ Next /\ UNCHANGED <<part, desktopVars, solarVars, locationVars>>
    \/ part = "desktop" /\ Desktop!Next /\ UNCHANGED <<part, vars, solarVars, locationVars>>
    \/ part = "solar" /\ Solar!Next /\ UNCHANGED <<part, vars, desktopVars, locationVars>>
    \/ part = "location" /\ Location!Next /\ UNCHANGED <<part, vars, desktopVars, solarVars>>

\* Fairness of each, in the behaviours that are its own.
MCFairness ==
    /\ WF_vars(part = "playback" /\ Synchronize)
    /\ WF_vars(part = "playback" /\ Advance)
    /\ WF_vars(part = "playback" /\ TakeDecodeRequest)
    /\ WF_vars(part = "playback" /\ Finish)
    /\ WF_vars(part = "playback" /\ Tick)
    /\ WF_desktopVars(part = "desktop" /\ Desktop!Maintain)
    /\ WF_desktopVars(part = "desktop" /\ Desktop!frame("output"))
    /\ WF_desktopVars(part = "desktop" /\ Desktop!Release("output"))
    /\ WF_solarVars(part = "solar" /\ Solar!Maintain)
    /\ WF_solarVars(part = "solar" /\ Solar!Build)
    /\ WF_solarVars(part = "solar" /\ Solar!Answer)
    /\ WF_solarVars(part = "solar" /\ Solar!Tick)

MCSpec == MCInit /\ [][MCNext]_mcVars /\ MCFairness

-----------------------------------------------------------------------------
(* Properties *)

\* A selected image that decodes is shown in full before the selection moves on,
\* and a blank screen gets a picture even if the selected image is broken, after
\* failed decodes, jumps of the clock and interrupted dissolves (synchronize,
\* finish_decode, advance_transition, queue_primary_fallback).
ScheduledImageIsShown == part = "playback" => SelectedIsShown /\ SomethingIsShown

\* Once the outside is quiet a surface shows the latest picture in its present
\* geometry, and a dissolve runs to its end (playback_changed, next_action).
LatestIsShown == part = "desktop" => Desktop!LatestIsShown /\ Desktop!DissolveEnds

\* Locations are sought as long as there is hope, sparingly, and each date gets
\* its mapping (maintain_solar); a request misses no fix that is published while it
\* listens or that it can read, stops the client it started and reports a refusal
\* as final (geoclue.rs: await_location, read_location, classify_bus_error).
LocationIsSought ==
    /\ part = "solar" => Solar!LocationIsSought /\ Solar!MappingFollowsDate
    /\ [][part = "solar" => Solar!RefreshedSparingly]_mcVars
    /\ [](part = "solar" => Solar!TypeOK)
    /\ [](part = "location" => /\ Location!TypeOK /\ Location!NoFixIsMissed
                               /\ Location!StartedIsStopped /\ Location!RefusalIsFinal)
=============================================================================
