--------------------------- MODULE DynamicSchedule ---------------------------
(***************************************************************************)
(* The schedule of a dynamic wallpaper (src/dynamic_wallpaper/playback.rs  *)
(* and solar.rs): which image of a file is in effect at a time of day, when*)
(* it came into effect and when to look again; and the second of the day   *)
(* at which the sun is nearest to an authored position.                    *)
(*                                                                         *)
(* A point is an image with a normalized time in [0, 1), here a multiple   *)
(* of 1/Grain.  The trajectory of the sun is left to the caller, as the    *)
(* angular distance of each second of the day to the authored position.    *)
(***************************************************************************)
EXTENDS Integers, Sequences, FiniteSetsExt

CONSTANTS SecondsPerDay,   \* SECONDS_PER_DAY
          Grain,           \* denominator of the normalized times
          SampleSeconds    \* spacing of the solar samples, and the radius of
                           \* the search around the nearest one

ScheduleAssumption ==
    /\ SecondsPerDay \in Nat \ {0} /\ Grain \in Nat \ {0} /\ SampleSeconds \in Nat \ {0}
    /\ SecondsPerDay % SampleSeconds = 0

Second == 0..SecondsPerDay - 1

\* effective_boundary_second: the first second at or after a time, by halving.
effective_boundary_second(time) ==
    LET search[range \in (0..SecondsPerDay) \X (0..SecondsPerDay)] ==
          LET low    == range[1]
              high   == range[2]
              middle == low + (high - low) \div 2
          IN  IF low >= high THEN low
              ELSE IF time * SecondsPerDay <= middle * Grain THEN search[<<low, middle>>]
              ELSE search[<<middle + 1, high>>]
    IN  search[<<0, SecondsPerDay>>]

Point(image, time) ==
    [image |-> image, time |-> time, boundary |-> effective_boundary_second(time)]

Boundary(point) == point.boundary

\* sorted_time_points: by time, points of the same time in metadata order.
sorted_time_points(points) ==
    LET rank(i) == Cardinality({j \in DOMAIN points :
                       \/ points[j].time < points[i].time
                       \/ points[j].time = points[i].time /\ j <= i})
    IN  [k \in DOMAIN points |-> points[CHOOSE i \in DOMAIN points : rank(i) = k]]

\* selected_point: the last sorted point that was reached today, or else the
\* last one of the day before.
selected_point(points, now) ==
    LET reached == {i \in DOMAIN points : Boundary(points[i]) <= now}
    IN  IF reached = {} THEN points[Len(points)] ELSE points[Max(reached)]

\* boundary_start_NoMidnight: a boundary of the day before is not expected.
boundary_start_NoMidnight(points, now) == now - Boundary(selected_point(points, now))

\* boundary_start: the seconds since the selected point came into effect.
boundary_start(points, now) ==
    LET boundary == Boundary(selected_point(points, now)) IN
    IF boundary <= now THEN now - boundary
    ELSE IF boundary = SecondsPerDay THEN now
    ELSE SecondsPerDay - boundary + now

\* next_wake, the part that waits for a boundary.
next_boundary(points, now) ==
    Min({LET boundary == Boundary(points[i])
         IN  IF boundary > now THEN boundary - now ELSE SecondsPerDay - now + boundary
         : i \in DOMAIN points})

-----------------------------------------------------------------------------
(* Solar mapping *)

\* nearer: the earlier of two equally distant candidates is kept.
nearer(distance, best, candidate) ==
    IF best = -1 \/ distance[candidate] < distance[best] THEN candidate ELSE best

\* The fold of nearer over the seconds of an ascending sequence.
nearest(distance, seconds) ==
    LET fold[k \in 0..Len(seconds)] ==
          IF k = 0 THEN -1 ELSE nearer(distance, fold[k - 1], seconds[k])
    IN  fold[Len(seconds)]

trajectory == [k \in 1..(SecondsPerDay \div SampleSeconds) |-> (k - 1) * SampleSeconds]

nearest_second(distance) ==
    LET coarse == nearest(distance, trajectory)
        start  == IF coarse > SampleSeconds THEN coarse - SampleSeconds ELSE 0
        last   == Min({coarse + SampleSeconds, SecondsPerDay - 1})
    IN  nearest(distance, [k \in 1..(last - start + 1) |-> start + k - 1])

-----------------------------------------------------------------------------
(* Reference definitions *)

\* The halving search finds the first second at or after each time: a boundary
\* never comes into effect early, and the last fraction of a day starts at its
\* end (effective_boundary_second).
BoundaryIsCeiling(points) ==
    \A i \in DOMAIN points :
        Boundary(points[i]) =
          Min({s \in 0..SecondsPerDay : points[i].time * SecondsPerDay <= s * Grain})

\* How long ago point p last came into effect, its boundary taken on the clock.
Since(p, now) == (now - Boundary(p)) % SecondsPerDay

\* Points in the order in which they take effect within one second.
Later(p, q) == \/ Boundary(p) % SecondsPerDay = 0 /\ Boundary(q) % SecondsPerDay = 0
                  /\ Boundary(p) < Boundary(q)
               \/ Boundary(p) = Boundary(q) /\ p.time > q.time
               \/ p.time = q.time /\ p.image > q.image

\* The selected point is the one whose boundary was passed most recently on
\* the circular clock, the last in metadata order of those at one time
\* (selected_point and sorted_time_points, over midnight too).
SelectedIsMostRecent(points, now) ==
    LET s == selected_point(sorted_time_points(points), now) IN
    \A i \in DOMAIN points :
        points[i] # s => \/ Since(points[i], now) > Since(s, now)
                         \/ Since(points[i], now) = Since(s, now) /\ Later(s, points[i])

\* A dissolve starts where the boundary was, also over midnight
\* (boundary_start).
DissolveStartsAtBoundary(points, now) ==
    LET sorted == sorted_time_points(points) IN
    boundary_start(sorted, now) = Since(selected_point(sorted, now), now)

\* Sleeping until next_wake misses no change of the selection, over midnight
\* too, and wakes for a boundary and not in vain.
WakeIsNextBoundary(points, now) ==
    LET sorted == sorted_time_points(points)
        sleep  == next_boundary(sorted, now) IN
    /\ \A k \in 0..sleep - 1 :
         selected_point(sorted, (now + k) % SecondsPerDay) = selected_point(sorted, now)
    /\ \E i \in DOMAIN points : (now + sleep - Boundary(points[i])) % SecondsPerDay = 0

\* The distance of each second of the day to a target, as the sun comes
\* nearer before it and recedes after it.
Distance(target) == [s \in Second |->
    IF s <= target.nearest THEN (target.nearest - s) * target.before
    ELSE (s - target.nearest) * target.after]

\* The one-minute samples and the search around the nearest of them find the
\* nearest second of the day (nearest_second).
NearestSecondIsNearest(target) == nearest_second(Distance(target)) = target.nearest
=============================================================================
