------------------------------- MODULE GeoClue -------------------------------
(***************************************************************************)
(* One city-level location request (src/geoclue.rs): the calls of resolve, *)
(* await_location and read_location_at to the GeoClue daemon, bounded by a *)
(* timeout that may cut the request short at any await.                    *)
(*                                                                         *)
(* The daemon publishes fixes on its own schedule: it sets the client's    *)
(* Location property and signals LocationUpdated, which reaches a client   *)
(* only once its match rule is installed.                                  *)
(***************************************************************************)
EXTENDS Integers, Sequences

CONSTANTS
    Fix,         \* fixes the daemon may publish
    Quality,     \* fix -> "ok", "Invalid" or "Coarse", as GeoLocation::new judges
    MaxFixes,    \* bound of the model on the fixes of one request
    None

GeoClueAssumption ==
    /\ Quality \in [Fix -> {"ok", "Invalid", "Coarse"}] /\ MaxFixes \in Nat

VARIABLES
    pc,         \* where the request stands
    result,     \* its result, or None
    path,       \* the location object being read, or None
    property,   \* the daemon's Location property, None for "/"
    started,    \* the daemon serves the client
    signals,    \* LocationUpdated signals that wait for the client
    matched,    \* the match rule is installed
    denied,     \* the daemon refused the client
    fixes,      \* fixes published so far
    unseen      \* the property when the request could not read it, else None

client == <<pc, result, path>>
daemon == <<property, started, denied, fixes, unseen>>
vars == <<client, daemon, signals, matched>>

Error == {"Unavailable", "Timeout", "Denied", "Invalid", "Coarse"}

TypeOK ==
    /\ pc \in {"client", "configure", "start", "subscribe", "read", "wait", "fetch", "stop", "done"}
    /\ result \in {f \in Fix : Quality[f] = "ok"} \cup Error \cup {None}
    /\ {path, property, unseen} \subseteq Fix \cup {None}
    /\ {started, matched, denied} \subseteq BOOLEAN
    /\ signals \in Seq(Fix \cup {None}) /\ fixes \in 0..MaxFixes

Goto(label) == pc' = label /\ UNCHANGED result
Return(value) == pc' = "done" /\ result' = value

-----------------------------------------------------------------------------
(* resolve *)

\* The connection, the manager proxy and GetClient: every error is Unavailable.
GetClient ==
    /\ pc = "client"
    /\ Goto("configure") \/ Return("Unavailable")
    /\ UNCHANGED <<path, daemon, signals, matched>>

\* DesktopId and RequestedAccuracyLevel (classify_fdo_error).
SetProperties ==
    /\ pc = "configure"
    /\ \/ Goto("start") /\ UNCHANGED denied
       \/ Return("Unavailable") /\ UNCHANGED denied
       \/ Return("Denied") /\ denied' = TRUE
    /\ UNCHANGED <<path, property, started, fixes, unseen, signals, matched>>

classify_bus_error(access_denied) == IF access_denied THEN "Denied" ELSE "Unavailable"

\* Start, which waits for its reply.
Start ==
    /\ pc = "start"
    /\ \/ Goto("subscribe") /\ started' = TRUE /\ UNCHANGED denied
       \/ \E refused \in BOOLEAN :
            Return(classify_bus_error(refused)) /\ denied' = refused /\ UNCHANGED started
    /\ UNCHANGED <<path, property, fixes, unseen, signals, matched>>

\* What follows the start of a client ends with Stop, whatever it returned.
Leave(value) == pc' = "stop" /\ result' = value

Subscribe ==
    /\ pc = "subscribe"
    /\ \/ Goto("read") /\ matched' = TRUE
       \/ Leave("Unavailable") /\ UNCHANGED matched
    /\ UNCHANGED <<path, daemon, signals>>

\* ReadLocation_Skipped: the request only listens.
ReadLocation_Skipped ==
    /\ pc = "read" /\ Goto("wait")
    /\ UNCHANGED <<path, daemon, signals, matched>>

\* read_location: the property as it is after subscribing.  If there is none, or
\* it cannot be read, the request waits for a signal.
ReadLocation ==
    /\ pc = "read"
    /\ \/ property # None /\ Goto("fetch") /\ path' = property /\ UNCHANGED unseen
       \/ property = None /\ Goto("wait") /\ UNCHANGED <<path, unseen>>
       \/ Goto("wait") /\ unseen' = property /\ UNCHANGED path
    /\ UNCHANGED <<property, started, denied, fixes, signals, matched>>

\* The next signal, skipped when it names no location.  Its body may not be read,
\* and without a connection the stream ends.
Signal ==
    /\ pc = "wait"
    /\ \/ /\ signals # <<>> /\ signals' = Tail(signals)
          /\ \/ Head(signals) # None /\ Goto("fetch") /\ path' = Head(signals)
             \/ Head(signals) = None /\ UNCHANGED client
             \/ Leave("Unavailable") /\ UNCHANGED path
       \/ signals = <<>> /\ Leave("Unavailable") /\ UNCHANGED <<path, signals>>
    /\ UNCHANGED <<daemon, matched>>

\* read_location_at and GeoLocation::new.
Fetch ==
    /\ pc = "fetch"
    /\ \/ Leave(IF Quality[path] = "ok" THEN path ELSE Quality[path])
       \/ Leave("Unavailable")
    /\ UNCHANGED <<path, daemon, signals, matched>>

\* Stop; if it cannot be sent the connection is gone, and with it the client.
Stop ==
    /\ pc = "stop" /\ Return(result) /\ started' = FALSE
    /\ UNCHANGED <<path, property, denied, fixes, unseen, signals, matched>>

\* The timeout of request_city_location drops the request where it waits.
Timeout ==
    /\ pc # "done" /\ Return("Timeout")
    /\ UNCHANGED <<path, daemon, signals, matched>>

-----------------------------------------------------------------------------
(* The daemon *)

Publish(fix) ==
    /\ started /\ fixes < MaxFixes /\ fixes' = fixes + 1
    /\ property' = fix
    /\ signals' = IF matched THEN Append(signals, fix) ELSE signals
    /\ UNCHANGED <<client, started, denied, unseen, matched>>

Init ==
    /\ pc = "client" /\ result = None /\ path = None
    /\ property = None /\ started = FALSE /\ denied = FALSE /\ fixes = 0 /\ unseen = None
    /\ signals = <<>> /\ matched = FALSE

Step == GetClient \/ SetProperties \/ Start \/ Subscribe \/ ReadLocation \/ Signal \/ Fetch
        \/ Stop

Next == Step \/ Timeout \/ \E fix \in Fix \cup {None} : Publish(fix)

Spec == Init /\ [][Next]_vars

-----------------------------------------------------------------------------
(* Properties *)

\* A request that has nothing to take waits only while the daemon has no fix to
\* offer, or none newer than the one it asked for in vain: no fix falls between
\* the subscription and the read, and a read that fails loses no later one
\* (await_location reads the property after it subscribed; read_location takes an
\* error for no location).
NoFixIsMissed == pc = "wait" /\ signals = <<>> => property \in {None, unseen}

\* A client that was started is stopped again, whatever the request returned;
\* only the timeout leaves that to the closed connection.
StartedIsStopped == pc = "done" /\ result # "Timeout" => ~started

\* A refusal is reported as one, so that the request is not repeated for ever
\* (is_retryable).
RefusalIsFinal == denied => result = "Denied"
=============================================================================
