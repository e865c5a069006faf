------------------------------- MODULE MCEnds -------------------------------
(***************************************************************************)
(* What has to come to an end while the two programs run: invocations and  *)
(* launchers of the locker (Coordination), a greeter that is asked to      *)
(* close (Greeter), and the thread that tells it of outputs                *)
(* (OutputMonitor).  They do not share steps, so a behaviour is one of     *)
(* `part`, and the others stand still.                                     *)
(***************************************************************************)
EXTENDS Coordination, Integers

CONSTANTS Account, Session, None, Stranger, MaxAttempts, MaxQuestions,
          Layouts, Windows, Unnamed, Internal, Requested, Extent, MaxChanges

VARIABLES
    part,
    phase, status, attempt, input, client, username, accounts, selected_session,
    selection_session_cancelled, power_state, closing, shown, exited, tasks, inbox, timer,
    confirmed, owner, stage, question, answered, started,
    v1, v2, v3, v4, v5, v6, v7, v8, v9, v10, v11, v12, v13, v14   \* of OutputMonitor

App == INSTANCE Greeter

appVars == <<phase, status, attempt, input, client, username, accounts, selected_session,
             selection_session_cancelled, power_state, closing, shown, exited, tasks, inbox,
             timer, confirmed, owner, stage, question, answered, started>>
monitorVars == <<v1, v2, v3, v4, v5, v6, v7, v8, v9, v10, v11, v12, v13, v14>>
mcVars == <<part, vars, appVars, monitorVars>>

Monitor == INSTANCE OutputMonitor
    WITH layout <- v1, wire <- v2, queue <- v3, known <- v4, changed <- v5,
         pc <- v6, region <- v7, version <- v8, seen <- v9, messages <- v10,
         shown <- v11, started <- v12, stop <- v13, changes <- v14

ASSUME MonitorIsSized == Monitor!MonitorAssumption

\* A laptop panel, external screens, and layouts that begin left of and above the
\* origin.
Screen(n, x, y, w, h) == [name |-> n, position |-> <<x, y>>, size |-> <<w, h>>]

Panel  == Screen(2, 0, 0, 3, 2)
Left   == Screen(1, -2, 0, 2, 3)
Above  == Screen(3, 0, -2, 4, 2)
Silent == Screen(0, 3, 0, 1, 1)
Coming == Screen(1, 0, 0, 0, 0)

DeskLayouts == {<< >>, <<Panel>>, <<Panel, Left>>, <<Above, Panel>>, <<Silent, Panel>>,
                <<Silent>>, <<Coming>>, <<Panel, Coming, Left>>}
WindowSizes == {<<1, 1>>, <<5, 3>>, <<6, 6>>}

-----------------------------------------------------------------------------
\* In the behaviours of another part, a part stands in one of its initial states.
MCInit ==
    /\ part \in {"locker", "greeter", "monitor"}
    /\ Init /\ App!Init /\ Monitor!Init
    /\ part # "greeter" => username = None /\ selected_session = None /\ owner = None
    /\ part # "monitor" => v1 = << >>

MCNext ==
    \/ part = "locker" /\ Next /\ UNCHANGED <<part, appVars, monitorVars>>
    \/ part = "greeter" /\ App!Next /\ UNCHANGED <<part, vars, monitorVars>>
    \/ part = "monitor" /\ Monitor!Next /\ UNCHANGED <<part, vars, appVars>>

\* Fairness of each, in the behaviours that are its own.
MCFairness ==
    /\ \A p \in Invocation : /\ WF_vars(part = "locker" /\ Process(p))
                             /\ WF_vars(part = "locker" /\ launch(p))
    /\ WF_vars(part = "locker" /\ Coordinator)
    /\ WF_appVars(part = "greeter" /\ App!CloseTimeout)
    /\ WF_appVars(part = "greeter" /\ \E m \in inbox : App!Receive(m))
    /\ WF_monitorVars(part = "monitor" /\ Monitor!Thread)
    /\ WF_monitorVars(part = "monitor" /\ Monitor!Start)
    /\ WF_monitorVars(part = "monitor" /\ Monitor!Subscribe)
    /\ WF_monitorVars(part = "monitor" /\ Monitor!Changed)
    /\ WF_monitorVars(part = "monitor" /\ Monitor!OutputLayoutChanged)
    /\ WF_monitorVars(part = "monitor" /\ Monitor!Joined)

MCSpec == MCInit /\ [][MCNext]_mcVars /\ MCFairness

-----------------------------------------------------------------------------
(* Properties *)

\* Every invocation of the locker that waits on another is answered, and every
\* launcher returns (coordinate, ReadySignal::apply, launch).
LockerAnswers == part = "locker" => WaiterIsAnswered /\ LauncherReturns

\* A window that is being closed closes, whatever greetd or a task does
\* (close_requested, close_timeout); the layout the compositor ends with reaches
\* App, and dropping the monitor returns (outputs.rs).
GreeterMovesOn ==
    /\ part = "greeter" => App!ClosingEnds
    /\ part = "monitor" => Monitor!LayoutReachesApp /\ Monitor!DropReturns

\* Authentication is presented within the window, and a region App does not know
\* of yet is one it will be told of (Region::scale_to, publish, subscription).
RegionIsOnScreen ==
    part = "monitor" => /\ Monitor!TypeOK /\ Monitor!ShownRegionIsOnScreen
                        /\ Monitor!StaleRegionIsSignalled
=============================================================================
