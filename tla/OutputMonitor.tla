---------------------------- MODULE OutputMonitor ----------------------------
(***************************************************************************)
(* The greeter's output monitor (src/outputs.rs): a thread follows the     *)
(* compositor's outputs, publishes the region of the one that presents     *)
(* authentication, and signals App, which reads the region and places its  *)
(* controls in it (src/app/view.rs).                                       *)
(*                                                                         *)
(* A name is its rank among the names.  A layout is what the compositor    *)
(* announces at a time; an output it has not described yet has no size.    *)
(***************************************************************************)
EXTENDS Integers, Sequences, SequencesExt, FiniteSetsExt

CONSTANTS
    Layouts,      \* layouts: sequences of outputs
    Unnamed,      \* no name, below all names
    Internal,     \* the name eDP-1
    Requested,    \* the name asked for on the command line, or Unnamed
    Windows,      \* sizes of the greeter's window
    Extent,       \* no position or size is larger: far from the ends of an i32, at which
                  \* saturating_add and the differences would tell
    MaxChanges    \* bound of the model on layout changes

Pair   == (-Extent .. Extent) \X (-Extent .. Extent)
Output == [name : Nat, position : Pair, size : Pair]

MonitorAssumption ==
    /\ Extent \in Nat /\ Layouts # {} /\ Layouts \subseteq Seq(Output)
    /\ Windows \subseteq (Nat \ {0}) \X (Nat \ {0}) /\ MaxChanges \in Nat
    /\ {Unnamed, Internal, Requested} \subseteq Nat

VARIABLES
    layout,       \* what the compositor shows
    wire,         \* layouts announced and not read
    queue, known, changed,   \* the thread's event queue, Discovery
    pc,           \* where the thread is
    region,       \* Shared.region
    version,      \* of the watch channel
    seen,         \* the subscription's version
    messages,     \* OutputLayoutChanged on its way to App
    shown,        \* App.authentication_region
    started,      \* App has been made
    stop,         \* Worker is dropped: asked to stop, waiting, done
    changes       \* layouts so far

channelVars == <<region, version>>
appVars     == <<seen, messages, shown, started>>
threadVars  == <<queue, known, changed, pc>>
vars == <<layout, wire, threadVars, channelVars, appVars, stop, changes>>

-----------------------------------------------------------------------------
(* Selection *)

NoRegion == << >>

\* Discovery::outputs: the outputs of a layout that have an area.
outputs(L) == {i \in DOMAIN L : L[i].size[1] > 0 /\ L[i].size[2] > 0}

\* genkan_output_selection::select: the requested name, the first external name, the
\* internal panel, any.
select(L) ==
    LET Named(n) == {i \in outputs(L) : L[i].name = n}
        External == {L[i].name : i \in outputs(L)} \ {Unnamed, Internal} IN
    IF Requested # Unnamed /\ Named(Requested) # {} THEN Min(Named(Requested))
    ELSE IF External # {} THEN Min(Named(Min(External)))
    ELSE IF Named(Internal) # {} THEN Min(Named(Internal))
    ELSE Min(outputs(L))

\* The sides of the layout.
Low(L, d)  == Min({L[i].position[d] : i \in outputs(L)})
High(L, d) == Max({L[i].position[d] + L[i].size[d] : i \in outputs(L)})

\* The selected output in the layout's own coordinates.
select_region(L) ==
    IF outputs(L) = {} THEN NoRegion
    ELSE LET o == L[select(L)] IN
         [at     |-> <<o.position[1] - Low(L, 1), o.position[2] - Low(L, 2)>>,
          size   |-> o.size,
          layout |-> <<High(L, 1) - Low(L, 1), High(L, 2) - Low(L, 2)>>]

authentication_region_or_full(r, w) ==
    IF r = NoRegion THEN [at |-> <<0, 0>>, size |-> w, layout |-> w] ELSE r

\* Region::scale_to, in whole pixels.
scale_to(r, w) ==
    LET Scale(v) == [d \in 1 .. 2 |-> (v[d] * w[d]) \div r.layout[d]] IN
    [at |-> Scale(r.at), size |-> Scale(r.size), layout |-> w]

-----------------------------------------------------------------------------
(* The thread *)

publish_region(r) ==
    IF r = region THEN UNCHANGED channelVars
    ELSE region' = r /\ version' = version + 1

\* The events set the flag of Discovery.
flagged == changed \/ queue # << >>

\* dispatch_pending, the publication and the flush, which fails when the compositor is
\* gone.
Dispatch ==
    /\ pc = "dispatch"
    /\ LET now == IF queue = << >> THEN known ELSE Last(queue) IN
       /\ known' = now /\ queue' = << >> /\ changed' = FALSE
       /\ IF flagged THEN publish_region(select_region(now))
                  ELSE UNCHANGED channelVars
    /\ pc' \in {"poll", "ended"}
    /\ UNCHANGED <<layout, wire, appVars, stop, changes>>

\* poll and read: the stop comes before events; reading fails when the compositor is gone.
Poll ==
    /\ pc = "poll" /\ (stop # "no" \/ wire # << >>)
    /\ \/ /\ stop = "no" /\ queue' = queue \o wire /\ wire' = << >> /\ pc' = "dispatch"
       \/ pc' = "ended" /\ UNCHANGED <<queue, wire>>
    /\ UNCHANGED <<layout, known, changed, channelVars, appVars, stop, changes>>

\* The compositor ends while the thread waits for it.
Lost ==
    /\ pc = "poll" /\ pc' = "ended"
    /\ UNCHANGED <<layout, wire, queue, known, changed, channelVars, appVars, stop, changes>>

\* OutputHandler's events for another layout.
Change ==
    /\ changes < MaxChanges /\ changes' = changes + 1
    /\ \E L \in Layouts : layout' = L /\ wire' = Append(wire, L)
    /\ UNCHANGED <<threadVars, channelVars, appVars, stop>>

-----------------------------------------------------------------------------
(* App *)

\* The receiver the subscription clones has seen the channel as connect made it.
\* Bug: it has seen what is there when the subscription starts.
Subscribed_Current == version
Subscribed == 0

\* App::new reads the region; the subscription starts after it.
Start ==
    /\ ~started /\ started' = TRUE /\ shown' = region
    /\ seen' = -1 /\ UNCHANGED messages
    /\ UNCHANGED <<layout, wire, threadVars, channelVars, stop, changes>>

Subscribe ==
    /\ started /\ seen = -1 /\ seen' = Subscribed
    /\ UNCHANGED <<layout, wire, threadVars, channelVars, messages, shown, started, stop, changes>>

Changed ==
    /\ started /\ seen >= 0 /\ seen # version
    /\ seen' = version /\ messages' = messages + 1
    /\ UNCHANGED <<layout, wire, threadVars, channelVars, shown, started, stop, changes>>

OutputLayoutChanged ==
    /\ messages > 0 /\ messages' = messages - 1 /\ shown' = region
    /\ UNCHANGED <<layout, wire, threadVars, channelVars, seen, started, stop, changes>>

\* Worker::drop asks the thread to stop and joins it.
Drop ==
    /\ started /\ stop = "no" /\ stop' = "asked"
    /\ UNCHANGED <<layout, wire, threadVars, channelVars, appVars, changes>>
Joined ==
    /\ stop = "asked" /\ pc = "ended" /\ stop' = "joined"
    /\ UNCHANGED <<layout, wire, threadVars, channelVars, appVars, changes>>

-----------------------------------------------------------------------------
\* connect: the round trip has told of the outputs, the region is selected, and the
\* thread starts with the flag the round trip left.
Init ==
    /\ layout \in Layouts /\ known = layout /\ changed = TRUE
    /\ wire = << >> /\ queue = << >> /\ pc = "dispatch"
    /\ region = select_region(known) /\ version = 0
    /\ seen = 0 /\ messages = 0 /\ shown = NoRegion /\ started = FALSE
    /\ stop = "no" /\ changes = 0

Thread == Dispatch \/ Poll
App    == Start \/ Subscribe \/ Changed \/ OutputLayoutChanged
Next   == Thread \/ Lost \/ Change \/ App \/ Drop \/ Joined

\* The thread runs, iced polls subscriptions and handles messages, join returns.
Spec ==
    /\ Init /\ [][Next]_vars
    /\ WF_vars(Thread) /\ WF_vars(Start) /\ WF_vars(Subscribe) /\ WF_vars(Changed)
    /\ WF_vars(OutputLayoutChanged) /\ WF_vars(Joined)

-----------------------------------------------------------------------------
(* Properties *)

TypeOK ==
    /\ layout \in Layouts /\ known \in Layouts
    /\ wire \in Seq(Layouts) /\ queue \in Seq(Layouts)
    /\ changed \in BOOLEAN /\ pc \in {"dispatch", "poll", "ended"}
    /\ version \in 0 .. MaxChanges /\ seen \in -1 .. version /\ messages \in 0 .. version
    /\ started \in BOOLEAN /\ stop \in {"no", "asked", "joined"} /\ changes \in 0 .. MaxChanges

\* Authentication is presented within the window, whatever the outputs and the window are
\* (Region::scale_to in positioned_foreground), and on a region that is not empty.
ShownRegionIsOnScreen ==
    \A w \in Windows :
        LET full == authentication_region_or_full(shown, w)
            r    == scale_to(full, w) IN
        \A d \in 1 .. 2 : /\ r.at[d] >= 0 /\ r.at[d] + r.size[d] <= w[d]
                          /\ full.size[d] > 0

\* A region App does not know yet is one it will be told of: a publication before the
\* subscription starts, or while another is handled, is not lost.
StaleRegionIsSignalled ==
    started /\ shown # region => seen # version \/ messages > 0

\* The layout the compositor ends with reaches App, unless the thread ended.
LayoutReachesApp ==
    <>(pc = "ended" \/ stop # "no") \/ <>[](started /\ shown = select_region(layout))

\* Dropping the monitor returns.
DropReturns == stop = "asked" ~> stop = "joined"
=============================================================================
