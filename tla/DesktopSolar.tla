---------------------------- MODULE DesktopSolar -----------------------------
(***************************************************************************)
(* The solar schedule of the desktop wallpaper: maintain_solar and         *)
(* install_solar_mapping of src/desktop_wallpaper.rs, the GeoClue worker   *)
(* thread they talk to, the passing of time and of days.                   *)
(*                                                                         *)
(* Deadlines are kept as the time to them, 0 when due.  A place is a number*)
(* on a line on which neighbours are not meaningfully apart.  A mapping is *)
(* the place and date it was computed for.                                 *)
(***************************************************************************)
EXTENDS Integers

CONSTANTS
    Place,        \* locations GeoClue may return
    Date,         \* civil dates with their UTC offset, 0..n
    Unmappable,   \* dates for which map_solar fails
    Refresh,      \* LOCATION_REFRESH
    Retry,        \* LOCATION_RETRY
    Check,        \* SOLAR_CHECK_INTERVAL
    Permits,      \* the appearance permits solar, and --solar was given
    HasSolar,     \* the file has a solar schedule
    None

SolarAssumption ==
    /\ Place \subseteq Int /\ Unmappable \subseteq Date
    /\ Refresh \in Nat \ {0} /\ Retry \in 1..Refresh /\ Check \in Nat \ {0}
    /\ Permits \in BOOLEAN /\ HasSolar \in BOOLEAN

VARIABLES
    framed,      \* a frame is on screen
    thread,      \* the worker: "none", "building", "ready" or "dead"
    command,     \* a request is with the worker
    result,      \* in the result channel, or None
    in_flight,   \* SolarResolver::in_flight
    requested,   \* solar_requested
    terminal,    \* solar_terminal
    location,    \* the retained location, or None
    refresh,     \* time to next_location_refresh
    check,       \* time to next_solar_check
    mapped,      \* the date of the last attempt to map, or None
    applied,     \* the mapping that playback follows, or None for h24
    date,        \* today
    age          \* time since the last location was received, at most Refresh

clock == <<refresh, check, date, age>>
vars == <<framed, thread, command, result, in_flight, requested, terminal, location,
          mapped, applied, clock>>

Failure == {"retryable", "final"}
Result  == [kind : {"located"}, place : Place] \cup [kind : Failure, place : {None}]

TypeOK ==
    /\ {framed, in_flight, requested, terminal, command} \subseteq BOOLEAN
    /\ thread \in {"none", "building", "ready", "dead"}
    /\ result \in Result \cup {None}
    /\ location \in Place \cup {None}
    /\ refresh \in 0..Refresh /\ check \in 0..Check /\ age \in 0..Refresh
    /\ mapped \in Date \cup {None} /\ date \in Date
    /\ applied \in [place : Place, date : Date] \cup {None}

meaningful_location_change(previous, next) == next - previous \notin -1..1

-----------------------------------------------------------------------------
(* maintain_solar, on the record of the state it changes *)

State == [requested |-> requested, terminal |-> terminal, location |-> location,
          refresh |-> refresh, check |-> check, mapped |-> mapped, applied |-> applied,
          in_flight |-> in_flight, thread |-> thread, command |-> command, age |-> age]

\* install_solar_mapping: the attempt is recorded also when it fails.
install_solar_mapping(s) ==
    IF s.location = None THEN s
    ELSE [s EXCEPT !.mapped = date,
                   !.applied = IF date \in Unmappable THEN @
                               ELSE [place |-> s.location, date |-> date]]

Located(s, place) ==
    LET changed == s.location = None \/ meaningful_location_change(s.location, place)
        known == [s EXCEPT !.location = place, !.refresh = Refresh, !.age = 0]
    IN  IF changed THEN install_solar_mapping(known) ELSE known

Failed(s, retryable) ==
    IF retryable THEN [s EXCEPT !.requested = FALSE, !.refresh = Retry]
    ELSE [s EXCEPT !.terminal = TRUE]

\* The results received: one, since the next needs another command.
Receive(s) ==
    LET got == [s EXCEPT !.in_flight = FALSE] IN
    IF result = None THEN IF thread = "dead" THEN got ELSE s
    ELSE IF result.kind = "located" THEN Located(got, result.place)
    ELSE Failed(got, result.kind = "retryable")

\* solar_request_ready
solar_request_ready(s) == HasSolar /\ (s.location # None \/ (~s.requested /\ framed))

\* dispatch_solar, when a request is due; a worker that stopped is terminal.
Request(s) ==
    IF s.in_flight \/ s.refresh > 0 \/ ~solar_request_ready(s) THEN s
    ELSE IF s.thread = "dead" THEN [s EXCEPT !.requested = TRUE, !.terminal = TRUE]
    ELSE [s EXCEPT !.requested = TRUE, !.in_flight = TRUE, !.command = TRUE]

\* solar_mapping_due, at a bounded cadence.
Remap(s) ==
    IF s.check > 0 THEN s
    ELSE LET due == HasSolar /\ s.location # None /\ s.mapped # date
             checked == [s EXCEPT !.check = Check]
         IN  IF due THEN install_solar_mapping(checked) ELSE checked

\* spawns is whether a thread can be created.
maintain_solar(spawns) ==
    \E received \in {Receive(State)} :
    \E spawned \in {IF received.terminal \/ ~Permits \/ received.thread # "none"
                       \/ ~HasSolar \/ ~framed
                    THEN received
                    ELSE IF spawns THEN [received EXCEPT !.thread = "building"]
                    ELSE [received EXCEPT !.terminal = TRUE]} :
    \E s \in {IF spawned.terminal \/ ~Permits THEN spawned ELSE Remap(Request(spawned))} :
      /\ result' = None
      /\ requested' = s.requested /\ terminal' = s.terminal /\ location' = s.location
      /\ refresh' = s.refresh /\ check' = s.check /\ age' = s.age
      /\ mapped' = s.mapped /\ applied' = s.applied
      /\ in_flight' = s.in_flight /\ thread' = s.thread /\ command' = s.command
      /\ UNCHANGED <<framed, date>>

Maintain == \E spawns \in BOOLEAN : maintain_solar(spawns)

-----------------------------------------------------------------------------
(* The worker, the playback and time *)

\* The thread builds its runtime, or reports that it cannot and stops.
Build ==
    /\ thread = "building"
    /\ \/ thread' = "ready" /\ UNCHANGED result
       \/ thread' = "dead" /\ result' = [kind |-> "retryable", place |-> None]
    /\ UNCHANGED <<framed, command, in_flight, requested, terminal, location, mapped, applied, clock>>

\* request_city_location returns, within LOCATION_TIMEOUT.
Answer ==
    /\ thread = "ready" /\ command /\ result = None
    /\ result' \in Result /\ command' = FALSE
    /\ UNCHANGED <<framed, thread, in_flight, requested, terminal, location, mapped, applied, clock>>

FirstFrame ==
    /\ ~framed /\ framed' = TRUE
    /\ UNCHANGED <<thread, command, result, in_flight, requested, terminal, location, mapped,
                   applied, clock>>

Sooner(time) == IF time = 0 THEN 0 ELSE time - 1

Tick ==
    /\ refresh' = Sooner(refresh) /\ check' = Sooner(check)
    /\ age' = IF age < Refresh THEN age + 1 ELSE age
    /\ UNCHANGED <<framed, thread, command, result, in_flight, requested, terminal, location,
                   mapped, applied, date>>

\* Midnight, or another UTC offset.
NewDate ==
    /\ date' \in Date \ {date}
    /\ UNCHANGED <<framed, thread, command, result, in_flight, requested, terminal, location,
                   mapped, applied, refresh, check, age>>

Init ==
    /\ framed = FALSE /\ thread = "none" /\ command = FALSE /\ result = None
    /\ in_flight = FALSE /\ requested = FALSE /\ terminal = FALSE /\ location = None
    /\ refresh = 0 /\ check = 0 /\ mapped = None /\ applied = None
    /\ date \in Date /\ age = Refresh

Next == Maintain \/ Build \/ Answer \/ FirstFrame \/ Tick \/ NewDate

\* The event loop runs at least once a second (its resume timer), the worker
\* answers in bounded time, and time passes.
Fairness == WF_vars(Maintain) /\ WF_vars(Build) /\ WF_vars(Answer) /\ WF_vars(Tick)

Spec == Init /\ [][Next]_vars /\ Fairness

-----------------------------------------------------------------------------
(* Properties *)

\* Of a step: a location once received is asked for again no sooner than the refresh
\* interval, whatever fails in between (next_location_refresh).
RefreshedSparingly ==
    command' /\ ~command => location = None \/ age = Refresh

\* Once there is a frame, a location is asked for again and again: no failure
\* that may pass, no lost worker and no order of replies ends the requests
\* without ending the solar schedule (solar_terminal).
LocationIsSought == (framed /\ Permits /\ HasSolar) ~> (in_flight \/ terminal)

\* With a retained location each new date gets its own mapping, or at least an
\* attempt at it, while the solar schedule is not given up.
MappingFollowsDate ==
    \A d \in Date : (location # None /\ date = d) ~> (mapped = d \/ date # d \/ terminal)
=============================================================================
