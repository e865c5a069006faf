------------------------ MODULE AuthenticationOutput ------------------------
(***************************************************************************)
(* Which output carries authentication in the session-lock runtime         *)
(* (crates/session-lock/src/runtime.rs), while outputs come and go.        *)
(*                                                                         *)
(* The runtime is one thread.  A turn of its loop dispatches the events    *)
(* that arrived, reconciles the outputs, expires a handoff of the          *)
(* authentication role, and renders.  The compositor runs beside it: it    *)
(* displays commits later, skips those a newer one superseded, and unplugs *)
(* outputs before the runtime hears of it.                                 *)
(*                                                                         *)
(* The module is about a runtime that keeps running; Coordination has how  *)
(* it ends.  Buffers and redraw requests that change no role are           *)
(* abstracted: a configured surface may be rendered in any turn or, with   *)
(* its buffers held by the compositor, in none.                            *)
(***************************************************************************)
EXTENDS Naturals, SequencesExt

CONSTANTS
    Output,        \* outputs, numbered in the order of their connector names
    Requested,     \* the configured authentication output, 0 when unset
    Internal,      \* the output named INTERNAL_FALLBACK, 0 when there is none
    MaxCommits,    \* bound of the model on undisplayed commits of a surface
    MaxFeedback    \* bound of the model on presentation feedback objects

None == 0

ASSUME OutputAssumption ==
    /\ Output # {} /\ Output \subseteq Nat \ {None} /\ IsFiniteSet(Output)
    /\ Requested \in Output \cup {None} /\ Internal \in Output \cup {None}
    /\ MaxCommits \in Nat \ {0} /\ MaxFeedback \in Nat

VARIABLES
    pc,              \* where the runtime is in its turn
    listed,          \* outputs in output_state
    fresh,           \* listed outputs whose new_output is still to come
    surfaces,        \* the outputs of Runtime.surfaces, in creation order
    named,           \* surfaces whose output_name is known
    configured,      \* surfaces with a size
    authentication,  \* surfaces with Surface.authentication
    role_pending,    \* surfaces with redraw.role_pending
    handoff,         \* retiring_authentication, its retirement and feedback
    plugged,         \* outputs the compositor drives
    display,         \* what each output displays
    commits,         \* commits of each surface not displayed yet
    outcomes,        \* feedback events on their way to the runtime
    nextFeedback     \* number of the next feedback object

surfVars == <<listed, fresh, surfaces, named, configured>>
roleVars == <<authentication, role_pending, handoff>>
compVars == <<plugged, display, commits, outcomes, nextFeedback>>
vars == <<pc, surfVars, roleVars, compVars>>

-----------------------------------------------------------------------------
(* Values *)

Roles      == {"wallpaper", "authentication"}
Commit     == [role : Roles, feedback : Nat]
Outcome    == [feedback : Nat, kind : {"presented", "discarded"}]

\* AuthenticationRetirement, with the output that retires, the feedback object
\* awaited (0 when None) and whether the deadline has passed.
NoHandoff    == [output |-> None, phase |-> "None", feedback |-> 0, overdue |-> FALSE]
begin(o)     == [output |-> o, phase |-> "AwaitingCommit", feedback |-> 0, overdue |-> FALSE]
committed(f) == [output |-> handoff.output, phase |-> "AwaitingPresentation",
                 feedback |-> f, overdue |-> handoff.overdue]
discarded_retirement ==
    [output |-> handoff.output, phase |-> "AwaitingCommit", feedback |-> 0,
     overdue |-> handoff.overdue]

TypeOK ==
    /\ pc \in {"dispatch", "turn", "render"}
    /\ listed \in SUBSET Output /\ fresh \in SUBSET listed
    /\ surfaces \in Seq(Output) /\ IsInjective(surfaces) /\ named \in SUBSET Output
    /\ configured \in SUBSET Output /\ authentication \in SUBSET Output
    /\ role_pending \in SUBSET Output
    /\ handoff \in [output : Output \cup {None},
                    phase : {"None", "AwaitingCommit", "AwaitingPresentation"},
                    feedback : Nat, overdue : BOOLEAN]
    /\ plugged \in SUBSET Output
    /\ display \in [Output -> Roles \cup {"none"}]
    /\ commits \in [Output -> Seq(Commit)]
    /\ outcomes \in SUBSET Outcome /\ nextFeedback \in Nat

-----------------------------------------------------------------------------
(* Selection of the authentication output *)

\* genkan_output_selection::select among the candidates C: the requested
\* output, the first external one by name, the internal panel, and with no
\* name known the oldest surface.
select(S, nam, C) ==
    LET known    == C \cap nam
        external == known \ {Internal}
        oldest   == S[Min({i \in DOMAIN S : S[i] \in C})]
    IN  IF C = {} THEN None
        ELSE IF Requested \in known THEN Requested
        ELSE IF external # {} THEN Min(external)
        ELSE IF Internal \in known THEN Internal
        ELSE oldest

Carrier(S, auth) == IF ToSet(S) \cap auth = {} THEN None
                    ELSE S[Min({i \in DOMAIN S : S[i] \in auth})]

select_authentication_index(S, nam, conf, auth) ==
    LET desired == select(S, nam, ToSet(S)) IN
    IF desired \in conf THEN desired
    ELSE IF ToSet(S) \cap conf \cap auth # {} THEN Carrier(S, conf \cap auth)
    ELSE select(S, nam, ToSet(S) \cap conf)

\* Surface.authentication := auth; a configured surface repaints its new role.
set_authentication_Silent(rp, o, conf) == role_pending' = rp
set_authentication(rp, o, conf) ==
    role_pending' = IF o \in conf THEN rp \cup {o} ELSE rp

\* With no handoff under way, start one when another output should carry
\* authentication, and give the role to a surface only when none has it.  The
\* parameters are the state the calling handler has reached.
refresh_authentication_output_Direct(S, nam, conf, auth, rp, h) ==
    LET selected == select_authentication_index(S, nam, conf, auth) IN
    /\ authentication' = {selected} \ {None}
    /\ role_pending' = rp \cup ((auth \cup {selected}) \cap conf)
    /\ handoff' = h

refresh_authentication_output(S, nam, conf, auth, rp, h) ==
    LET selected == select_authentication_index(S, nam, conf, auth)
        current  == Carrier(S, auth)
    IN  \/ /\ h # NoHandoff \/ current = selected
           /\ authentication' = auth /\ role_pending' = rp /\ handoff' = h
        \/ /\ h = NoHandoff /\ current # selected /\ current # None
           /\ authentication' = auth \ {current}
           /\ set_authentication(rp, current, conf)
           /\ handoff' = begin(current)
        \/ /\ h = NoHandoff /\ current # selected /\ current = None
           /\ authentication' = auth \cup {selected}
           /\ set_authentication(rp, selected, conf)
           /\ handoff' = h

-----------------------------------------------------------------------------
(* Outputs *)

Dispatching == pc = "dispatch"

HasSurface(o) == o \in ToSet(surfaces)

\* The name of the output is known or not when its surface is made.
add_surface(o) ==
    \E nam \in {named \cup {o}, named \ {o}} :
        /\ surfaces' = Append(surfaces, o)
        /\ named' = nam
        /\ configured' = configured \ {o}
        /\ refresh_authentication_output(surfaces', nam, configured',
               authentication \ {o}, role_pending \ {o}, handoff)

\* output_state lists a new output.
ListOutput(o) ==
    /\ Dispatching /\ o \notin listed /\ o \notin plugged
    /\ listed' = listed \cup {o} /\ fresh' = fresh \cup {o}
    /\ plugged' = plugged \cup {o}
    /\ UNCHANGED <<pc, surfaces, named, configured, roleVars, display, commits, outcomes, nextFeedback>>

new_output(o) ==
    /\ Dispatching /\ o \in fresh
    /\ fresh' = fresh \ {o}
    /\ \/ /\ HasSurface(o)
          /\ named' \in {named, named \cup {o}}
          /\ refresh_authentication_output(surfaces, named', configured,
                 authentication, role_pending, handoff)
          /\ UNCHANGED <<surfaces, configured>>
       \/ ~HasSurface(o) /\ add_surface(o)
    /\ UNCHANGED <<pc, listed, compVars>>

update_output(o) ==
    /\ Dispatching /\ o \in listed
    /\ named' \in IF o \in ToSet(surfaces) THEN {named, named \cup {o}} ELSE {named}
    /\ refresh_authentication_output(surfaces, named', configured, authentication,
           role_pending, handoff)
    /\ UNCHANGED <<pc, listed, fresh, surfaces, configured, compVars>>

\* The handoff of the vanished output is over.
HandoffWithout(o) == IF handoff.output = o THEN NoHandoff ELSE handoff

\* The surfaces of other outputs, in their order; o has one at most.
retain(o) ==
    IF HasSurface(o) THEN RemoveAt(surfaces, CHOOSE i \in DOMAIN surfaces : surfaces[i] = o)
    ELSE surfaces

output_destroyed(o) ==
    /\ Dispatching /\ o \in listed \ plugged
    /\ listed' = listed \ {o} /\ fresh' = fresh \ {o}
    /\ surfaces' = retain(o)
    /\ named' = named \ {o} /\ configured' = configured \ {o}
    /\ refresh_authentication_output(surfaces', named', configured',
           authentication \ {o}, role_pending \ {o}, HandoffWithout(o))
    /\ commits' = [commits EXCEPT ![o] = <<>>]
    /\ UNCHANGED <<pc, plugged, display, outcomes, nextFeedback>>

configure(o) ==
    /\ Dispatching /\ o \in ToSet(surfaces)
    /\ configured' = configured \cup {o}
    /\ refresh_authentication_output(surfaces, named, configured', authentication,
           role_pending, handoff)
    /\ UNCHANGED <<pc, listed, fresh, surfaces, named, compVars>>

-----------------------------------------------------------------------------
(* Handoff of the authentication role *)

AcceptsPresentation(f) ==
    handoff.feedback = f /\ handoff.phase = "AwaitingPresentation"

\* The wallpaper that replaces the authentication overlay is on display.
presented ==
    \E f \in 1 .. nextFeedback - 1 :
        /\ Dispatching /\ [feedback |-> f, kind |-> "presented"] \in outcomes
        /\ outcomes' = outcomes \ {[feedback |-> f, kind |-> "presented"]}
        /\ IF AcceptsPresentation(f)
             THEN refresh_authentication_output(surfaces, named, configured,
                      authentication, role_pending, NoHandoff)
             ELSE UNCHANGED roleVars
        /\ UNCHANGED <<pc, surfVars, plugged, display,
                       commits, nextFeedback>>

\* It was superseded: the role change has to be committed again.
RequestAgain_Forgotten(o) == UNCHANGED role_pending
RequestAgain(o) == role_pending' = role_pending \cup {o}

discarded ==
    \E f \in 1 .. nextFeedback - 1 :
        /\ Dispatching /\ [feedback |-> f, kind |-> "discarded"] \in outcomes
        /\ outcomes' = outcomes \ {[feedback |-> f, kind |-> "discarded"]}
        /\ IF handoff.feedback = f
             THEN handoff' = discarded_retirement /\ RequestAgain(handoff.output)
             ELSE UNCHANGED <<handoff, role_pending>>
        /\ UNCHANGED <<pc, surfVars, authentication, plugged,
                       display, commits, nextFeedback>>

\* AUTHENTICATION_RETIREMENT_TIMEOUT passes.
Deadline ==
    /\ handoff # NoHandoff /\ ~handoff.overdue
    /\ handoff' = [output |-> handoff.output, phase |-> handoff.phase,
                   feedback |-> handoff.feedback, overdue |-> TRUE]
    /\ UNCHANGED <<pc, surfVars, authentication, role_pending, compVars>>

\* The previous output gets the role back.
RestoreRetired_Forgotten == UNCHANGED <<authentication, role_pending>>
RestoreRetired ==
    /\ authentication' = authentication \cup {handoff.output}
    /\ set_authentication(role_pending, handoff.output, configured)

expire_authentication_retirement ==
    /\ pc = "turn" /\ listed \subseteq ToSet(surfaces)
    /\ pc' = "render"
    /\ IF ~handoff.overdue THEN UNCHANGED roleVars
       ELSE IF handoff.output \in ToSet(surfaces) \cap configured
         THEN handoff' = NoHandoff /\ RestoreRetired
         ELSE refresh_authentication_output(surfaces, named, configured, authentication,
                  role_pending, NoHandoff)
    /\ UNCHANGED <<surfVars, compVars>>

Retiring(o) == o \in role_pending /\ o \notin authentication /\ handoff.output = o

\* render, up to the commit.  A retiring surface asks for presentation
\* feedback with its commit, and keeps the role when there is none to be had.
render(o) ==
    /\ pc = "render" /\ o \in ToSet(surfaces) \cap configured
    /\ Len(commits[o]) < MaxCommits
    /\ LET role == IF o \in authentication THEN "authentication" ELSE "wallpaper"
           Committed(f) ==
               /\ commits' = [commits EXCEPT ![o] = Append(@, [role |-> role, feedback |-> f])]
               /\ role_pending' = role_pending \ {o}
               /\ UNCHANGED authentication
       IN  \/ ~Retiring(o) /\ Committed(0) /\ UNCHANGED <<handoff, nextFeedback>>
           \/ /\ Retiring(o) /\ nextFeedback <= MaxFeedback
              /\ Committed(nextFeedback)
              /\ handoff' = committed(nextFeedback)
              /\ nextFeedback' = nextFeedback + 1
           \/ /\ Retiring(o)
              /\ authentication' = authentication \cup {o}
              /\ handoff' = NoHandoff
              /\ UNCHANGED <<role_pending, commits, nextFeedback>>
    /\ UNCHANGED <<pc, surfVars, plugged, display, outcomes>>

-----------------------------------------------------------------------------
(* The loop of run *)

EndDispatch ==
    /\ Dispatching
    /\ pc' = "turn"
    /\ UNCHANGED <<surfVars, roleVars, compVars>>

\* Every listed output without a surface gets one.
reconcile_outputs ==
    /\ pc = "turn"
    /\ \E o \in listed \ ToSet(surfaces) : add_surface(o)
    /\ UNCHANGED <<pc, listed, fresh, compVars>>

EndTurn ==
    /\ pc = "render"
    /\ pc' = "dispatch"
    /\ UNCHANGED <<surfVars, roleVars, compVars>>

-----------------------------------------------------------------------------
(* The compositor *)

FeedbackOf(s) == {s[i].feedback : i \in DOMAIN s} \ {0}

Discarded(F) == {[feedback |-> f, kind |-> "discarded"] : f \in F}

\* The n-th undisplayed commit of a surface reaches the screen; the earlier
\* ones never do.
Display(o) ==
    \E n \in DOMAIN commits[o] :
        LET c == commits[o][n] IN
        /\ o \in plugged
        /\ display' = [display EXCEPT ![o] = c.role]
        /\ commits' = [commits EXCEPT ![o] = SubSeq(@, n + 1, Len(@))]
        /\ outcomes' = outcomes
             \cup Discarded(FeedbackOf(SubSeq(commits[o], 1, n - 1)))
             \cup {[feedback |-> f, kind |-> "presented"] : f \in {c.feedback} \ {0}}
        /\ UNCHANGED <<pc, surfVars, roleVars, plugged,
                       nextFeedback>>

\* An output goes away; what was committed for it is discarded.
Unplug(o) ==
    /\ o \in plugged /\ o \in listed
    /\ plugged' = plugged \ {o}
    /\ display' = [display EXCEPT ![o] = "none"]
    /\ commits' = [commits EXCEPT ![o] = <<>>]
    /\ outcomes' = outcomes \cup Discarded(FeedbackOf(commits[o]))
    /\ UNCHANGED <<pc, surfVars, roleVars, nextFeedback>>

-----------------------------------------------------------------------------

\* run has requested the lock and made a surface for every output there was.
Init ==
    /\ pc = "dispatch"
    /\ \E S \in (SUBSET Output) \ {{}} :
           /\ listed = S /\ plugged = S
           /\ surfaces \in SetToSeqs(S)
           /\ named \in SUBSET S
    /\ fresh = {} /\ configured = {}
    /\ authentication = {} /\ role_pending = {} /\ handoff = NoHandoff
    /\ display = [o \in Output |-> "none"] /\ commits = [o \in Output |-> <<>>]
    /\ outcomes = {} /\ nextFeedback = 1

Handlers ==
    \/ presented \/ discarded
    \/ \E o \in Output :
           ListOutput(o) \/ new_output(o) \/ update_output(o) \/ output_destroyed(o)
           \/ configure(o)

Turn ==
    EndDispatch \/ reconcile_outputs \/ expire_authentication_retirement \/ EndTurn

Compositor ==
    \E o \in Output : Display(o) \/ Unplug(o)

Next ==
    \/ Handlers \/ Turn \/ Deadline \/ Compositor
    \/ \E o \in Output : render(o)

\* The loop turns (event_loop.dispatch returns after FRAME_INTERVAL), time
\* passes, the compositor delivers what it owes for displayed frames, and
\* maintain_surfaces renders a changed role in every turn in which a buffer is
\* free.  Nothing is assumed of the user, of outputs or of failures.
Fairness ==
    /\ WF_vars(Turn) /\ WF_vars(Deadline)
    /\ \A o \in Output :
         /\ SF_vars(o \in role_pending /\ render(o))
         /\ WF_vars(Display(o))

Spec == Init /\ [][Next]_vars /\ Fairness

-----------------------------------------------------------------------------
(* Properties *)

\* The authentication interface is never on display on two outputs, whatever
\* outputs do during a handoff and however late the compositor displays what
\* was committed (refresh_authentication_output, presented).
OneOutputShowsAuthentication ==
    \A o, p \in Output :
        display[o] = "authentication" /\ display[p] = "authentication" => o = p

\* A handoff is never stuck: it awaits a commit that is pending, or the fate
\* of a commit the compositor still owes (render, discarded).  While it lasts
\* no surface has the role, and its surface exists.
HandoffIsUnderWay ==
    handoff # NoHandoff =>
        /\ authentication = {}
        /\ handoff.output \in ToSet(surfaces) \cap configured
        /\ handoff.phase = "AwaitingCommit" => handoff.output \in role_pending
        /\ handoff.phase = "AwaitingPresentation" =>
             \/ handoff.feedback \in FeedbackOf(commits[handoff.output])
             \/ \E e \in outcomes : e.feedback = handoff.feedback

\* Authentication is never absent for good while some output can carry it: a
\* handoff that fails or times out gives it back (expire_authentication_retirement).
AuthenticationReturns ==
    (authentication = {} /\ configured # {})
        ~> (authentication # {} \/ configured = {})

\* The surface that holds the role comes to show it, unless it loses the role
\* or its output first (set_authentication, RedrawState::request_role_change).
AuthenticationBecomesVisible ==
    \A o \in Output :
        (o \in authentication)
            ~> (display[o] = "authentication" \/ o \notin authentication
                  \/ o \notin plugged)
=============================================================================
