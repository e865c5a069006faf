---------------------------- MODULE Coordination ----------------------------
(***************************************************************************)
(* Invocations of `genkan lock` that race on one compositor                *)
(* (src/locker/coordination.rs, src/locker/launcher.rs, run in             *)
(* src/locker/mod.rs) and the lifecycle of the lock that one of them owns  *)
(* (State in crates/session-lock/src/lib.rs, Runtime in runtime.rs).       *)
(*                                                                         *)
(* An invocation that gets the lease binds the coordination socket, starts *)
(* its coordinator thread and requests the lock; the others connect to the *)
(* socket and wait for READY.  Each has a launcher that reads its READY    *)
(* descriptor to the end.  At most one invocation holds the lease, so the  *)
(* listener, coordinator and lifecycle of the owner are single variables   *)
(* that the next owner resets.                                             *)
(***************************************************************************)
EXTENDS Naturals, Sequences, FiniteSets

CONSTANTS
    Invocation,   \* processes running `genkan lock`
    MaxWaiters,   \* MAX_WAITERS
    NoOne         \* not an invocation

ASSUME InvocationAssumption == NoOne \notin Invocation /\ MaxWaiters \in Nat

VARIABLES
    pc,          \* where each invocation is
    lease,       \* who holds the flock on the lease file
    path,        \* whose socket the socket path names
    listening,   \* whose listener is open
    conn,        \* each invocation's connection to a listener
    joined,      \* the owner whose listener it connected to
    coord,       \* the owner's coordinator thread
    waiters,     \* its unanswered connections
    pipe,        \* the coordinator's READY descriptor
    stop,        \* the coordinator was told to stop
    lifecycle,   \* State.lifecycle of the owner
    failed,      \* Runtime.failure is set
    terminate,   \* Runtime.terminate
    unlocked,    \* the owner sent the unlock request
    fd,          \* each invocation's own READY descriptor
    launcher,    \* each launcher
    lock,        \* the compositor's answer to the owner's lock request
    events,      \* lock events on their way to the owner
    session,     \* whether the compositor keeps the session locked
    everLocked,  \* invocations whose lock the compositor confirmed
    during       \* invocations that ran while the session was locked

entryVars == <<lease, path, listening, conn, joined>>
coordVars == <<coord, waiters, pipe, stop>>
stateVars == <<lifecycle, failed, terminate, unlocked>>
compVars  == <<lock, events, session, everLocked, during>>
vars == <<pc, entryVars, coordVars, stateVars, fd, launcher, compVars>>

-----------------------------------------------------------------------------

Pcs == {"idle", "enter", "bind", "starting", "active", "stopping", "removing",
        "releasing", "join", "retry", "refused", "waiting", "exited"}

TypeOK ==
    /\ pc \in [Invocation -> Pcs]
    /\ lease \in Invocation \cup {NoOne} /\ path \in Invocation \cup {NoOne}
    /\ listening \in Invocation \cup {NoOne}
    /\ conn \in [Invocation -> {"none", "backlog", "waiter", "answered", "closed"}]
    /\ joined \in [Invocation -> Invocation \cup {NoOne}]
    /\ coord \in {"off", "polling", "confirmed"}
    /\ waiters \in SUBSET Invocation /\ Cardinality(waiters) <= MaxWaiters
    /\ pipe \in {"open", "ready", "closed"} /\ stop \in BOOLEAN
    /\ lifecycle \in {"Requesting", "Locked", "Aborted", "Unlocking"}
    /\ failed \in BOOLEAN /\ terminate \in BOOLEAN /\ unlocked \in BOOLEAN
    /\ fd \in [Invocation -> {"open", "written", "ready", "closed"}]
    /\ launcher \in [Invocation -> {"idle", "waiting", "ok", "failed"}]
    /\ lock \in {"none", "requested", "confirmed", "finished"}
    /\ events \in Seq({"locked", "finished"})
    /\ session \in {"unlocked", "locked"}
    /\ everLocked \in SUBSET Invocation /\ during \in SUBSET Invocation

\* A descriptor closes: its reader sees the end of what was written.
Closed(d) == CASE d = "open" -> "closed" [] d = "written" -> "ready" [] OTHER -> d

-----------------------------------------------------------------------------
(* Entering: enter_paths *)

Start(p) ==
    /\ pc[p] = "idle"
    /\ pc' = [pc EXCEPT ![p] = "enter"]
    /\ launcher' = [launcher EXCEPT ![p] = "waiting"]
    /\ during' = IF session = "locked" THEN during \cup {p} ELSE during
    /\ UNCHANGED <<entryVars, coordVars, stateVars, fd, lock, events, session, everLocked>>

\* try_lock on the lease.
enter_paths(p) ==
    /\ pc[p] = "enter"
    /\ IF lease = NoOne
         THEN lease' = p /\ pc' = [pc EXCEPT ![p] = "bind"]
         ELSE UNCHANGED lease /\ pc' = [pc EXCEPT ![p] = "join"]
    /\ UNCHANGED <<path, listening, conn, joined, coordVars, stateVars, fd, launcher, compVars>>

\* The owner replaces whatever socket is at the path by its own.
bind(p) ==
    /\ pc[p] = "bind"
    /\ pc' = [pc EXCEPT ![p] = "starting"]
    /\ path' = p /\ listening' = p
    /\ waiters' = {} /\ pipe' = "open" /\ stop' = FALSE
    /\ lifecycle' = "Requesting" /\ failed' = FALSE /\ terminate' = FALSE
    /\ unlocked' = FALSE
    /\ UNCHANGED <<lease, conn, joined, coord, fd, launcher, compVars>>

\* With its authentication worker started, the owner runs its coordinator
\* (Owner::activate) and requests the lock.
activate(p) ==
    /\ pc[p] = "starting"
    /\ pc' = [pc EXCEPT ![p] = "active"]
    /\ coord' = "polling"
    /\ lock' = "requested" /\ events' = <<>>
    /\ UNCHANGED <<entryVars, waiters, pipe, stop, stateVars, fd, launcher, session,
                   everLocked, during>>

connect(p) ==
    /\ pc[p] = "join"
    /\ IF path # NoOne /\ listening = path
         THEN /\ pc' = [pc EXCEPT ![p] = "waiting"]
              /\ conn' = [conn EXCEPT ![p] = "backlog"]
              /\ joined' = [joined EXCEPT ![p] = path]
         ELSE /\ pc' = [pc EXCEPT ![p] = "retry"]
              /\ UNCHANGED <<conn, joined>>
    /\ UNCHANGED <<lease, path, listening, coordVars, stateVars, fd, launcher, compVars>>

\* No listener: fail with the owner this invocation observed if its lease is
\* free, or sleep and connect again.
retry(p) ==
    /\ pc[p] = "retry"
    /\ IF lease = NoOne
         THEN lease' = p /\ pc' = [pc EXCEPT ![p] = "refused"]
         ELSE UNCHANGED lease /\ pc' = [pc EXCEPT ![p] = "join"]
    /\ UNCHANGED <<path, listening, conn, joined, coordVars, stateVars, fd, launcher, compVars>>

refused(p) ==
    /\ pc[p] = "refused"
    /\ pc' = [pc EXCEPT ![p] = "exited"]
    /\ lease' = NoOne
    /\ fd' = [fd EXCEPT ![p] = Closed(@)]
    /\ UNCHANGED <<path, listening, conn, joined, coordVars, stateVars, launcher, compVars>>

\* read_to_end on the connection, then report_joined_ready or an error.
read_to_end(p) ==
    /\ pc[p] = "waiting" /\ conn[p] \in {"answered", "closed"}
    /\ pc' = [pc EXCEPT ![p] = "exited"]
    /\ fd' = [fd EXCEPT ![p] = IF conn[p] = "answered" THEN "ready" ELSE "closed"]
    /\ UNCHANGED <<entryVars, coordVars, stateVars, launcher, compVars>>

\* launch: the descriptor is read to its end, so it has to be closed as well.
launch(p) ==
    /\ launcher[p] = "waiting" /\ fd[p] \in {"ready", "closed"}
    /\ launcher' = [launcher EXCEPT ![p] = IF fd[p] = "ready" THEN "ok" ELSE "failed"]
    /\ UNCHANGED <<pc, entryVars, coordVars, stateVars, fd, compVars>>

-----------------------------------------------------------------------------
(* The coordinator thread: coordinate *)

\* The thread returns: its listener and every connection it has are closed.
Return ==
    /\ coord' = "off" /\ listening' = NoOne /\ waiters' = {}
    /\ conn' = [q \in Invocation |->
                  IF conn[q] \in {"backlog", "waiter"} THEN "closed" ELSE conn[q]]

AnswerWaiters_Forgotten == UNCHANGED <<conn, waiters>>
AnswerWaiters ==
    /\ conn' = [q \in Invocation |-> IF q \in waiters THEN "answered" ELSE conn[q]]
    /\ waiters' = {}

\* The READY descriptor is readable or closed.
CoordinateReady ==
    /\ coord = "polling" /\ pipe # "open"
    /\ \/ /\ pipe = "ready" /\ coord' = "confirmed"
          /\ AnswerWaiters /\ UNCHANGED listening
       \/ pipe = "closed" /\ Return
    /\ UNCHANGED <<pc, lease, path, joined, pipe, stop, stateVars, fd, launcher, compVars>>

AnswersOnAccept_Always == TRUE
AnswersOnAccept == coord = "confirmed"

HasRoom == Cardinality(waiters) < MaxWaiters

CoordinateAccept(q) ==
    /\ coord # "off" /\ conn[q] = "backlog"
    /\ \/ /\ AnswersOnAccept
          /\ conn' = [conn EXCEPT ![q] = "answered"] /\ UNCHANGED waiters
       \/ /\ ~AnswersOnAccept /\ HasRoom
          /\ conn' = [conn EXCEPT ![q] = "waiter"] /\ waiters' = waiters \cup {q}
       \/ /\ ~AnswersOnAccept /\ ~HasRoom
          /\ conn' = [conn EXCEPT ![q] = "closed"] /\ UNCHANGED waiters
    /\ UNCHANGED <<pc, lease, path, listening, joined, coord, pipe, stop, stateVars, fd,
                   launcher, compVars>>

CoordinateStop ==
    /\ coord # "off" /\ stop
    /\ Return
    /\ UNCHANGED <<pc, lease, path, joined, pipe, stop, stateVars, fd, launcher, compVars>>

-----------------------------------------------------------------------------
(* The owner's session-lock runtime *)

Active(p) == pc[p] = "active"

\* Runtime::fail.
fail ==
    /\ lifecycle' = "Aborted" /\ failed' = TRUE /\ terminate' = TRUE
    /\ UNCHANGED unlocked

\* ReadySignal::apply drains the descriptors: each is closed once written.
WriteReady == "ready"

\* The compositor confirmed the lock: lock_confirmation_action and
\* Action::ReportReady.  READY goes to the launcher, then to the coordinator; a
\* descriptor that cannot be written ends the runtime.  Events of the batch in
\* which the runtime failed are dispatched all the same.
locked(p) ==
    /\ Active(p) /\ events # <<>> /\ Head(events) = "locked"
    /\ events' = Tail(events)
    /\ \/ /\ terminate \/ failed \/ lifecycle # "Requesting"
          /\ UNCHANGED <<stateVars, fd, pipe>>
       \/ /\ ~terminate /\ ~failed /\ lifecycle = "Requesting"
          /\ \/ /\ lifecycle' = "Locked" /\ UNCHANGED <<failed, terminate, unlocked>>
                /\ fd' = [fd EXCEPT ![p] = WriteReady] /\ pipe' = "ready"
             \/ /\ fail /\ pipe' = "closed"
                /\ \E d \in {"ready", "closed"} : fd' = [fd EXCEPT ![p] = d]
    /\ UNCHANGED <<pc, entryVars, coord, waiters, stop, launcher, lock, session, everLocked,
                   during>>

\* The compositor denied or ended the lock.
finished(p) ==
    /\ Active(p) /\ events # <<>> /\ Head(events) = "finished"
    /\ events' = Tail(events)
    /\ fail
    /\ UNCHANGED <<pc, entryVars, coordVars, fd, launcher, lock, session, everLocked, during>>

\* A lost connection, a missing protocol, a failure to render.
RuntimeFails(p) ==
    /\ Active(p) /\ ~terminate
    /\ fail
    /\ UNCHANGED <<pc, entryVars, coordVars, fd, launcher, compVars>>

MayUnlock_Unchecked == TRUE
MayUnlock == lifecycle = "Locked"

\* The presentation has an authorisation to take, which it may at any time, and
\* authorize_unlock accepts it.  The following roundtrip may fail.
take_authorization(p) ==
    /\ Active(p) /\ ~terminate /\ MayUnlock
    /\ unlocked' = TRUE /\ terminate' = TRUE /\ session' = "unlocked"
    /\ \/ lifecycle' = "Unlocking" /\ UNCHANGED failed
       \/ lifecycle' = "Aborted" /\ failed' = TRUE
    /\ UNCHANGED <<pc, entryVars, coordVars, fd, launcher, lock, events, everLocked, during>>

\* run returns: what is left of ReadySignal is closed, and dropping Active
\* tells the coordinator to stop.
EndRun(p) ==
    /\ Active(p) /\ terminate
    /\ pc' = [pc EXCEPT ![p] = "stopping"]
    /\ fd' = [fd EXCEPT ![p] = Closed(@)]
    /\ pipe' = Closed(pipe) /\ stop' = TRUE
    /\ UNCHANGED <<entryVars, coord, waiters, stateVars, launcher, compVars>>

\* Active::drop: join the thread, remove the socket, release the lease.
DropJoins_Releases(p) ==
    /\ pc[p] = "stopping" /\ coord = "off"
    /\ pc' = [pc EXCEPT ![p] = "removing"]
    /\ lease' = NoOne
    /\ UNCHANGED <<path, listening, conn, joined, coordVars, stateVars, fd, launcher, compVars>>
DropJoins(p) ==
    /\ pc[p] = "stopping" /\ coord = "off"
    /\ pc' = [pc EXCEPT ![p] = "removing"]
    /\ UNCHANGED <<entryVars, coordVars, stateVars, fd, launcher, compVars>>

DropRemoves(p) ==
    /\ pc[p] = "removing"
    /\ pc' = [pc EXCEPT ![p] = "releasing"]
    /\ path' = NoOne
    /\ UNCHANGED <<lease, listening, conn, joined, coordVars, stateVars, fd, launcher, compVars>>

DropReleases(p) ==
    /\ pc[p] = "releasing"
    /\ pc' = [pc EXCEPT ![p] = "exited"]
    /\ lease' = NoOne
    /\ UNCHANGED <<path, listening, conn, joined, coordVars, stateVars, fd, launcher, compVars>>

\* An invocation ends early, by an error on its way or by a signal.  The kernel
\* closes what it holds; its socket stays at the path, the compositor keeps the
\* session locked, and a coordinator it waited for does not notice.
Crash(p) ==
    /\ pc[p] \notin {"idle", "exited"}
    /\ pc' = [pc EXCEPT ![p] = "exited"]
    /\ lease' = IF lease = p THEN NoOne ELSE lease
    /\ fd' = [fd EXCEPT ![p] = Closed(@)]
    /\ IF listening = p THEN Return ELSE UNCHANGED <<coord, listening, waiters, conn>>
    /\ UNCHANGED <<path, joined, pipe, stop, stateVars, launcher, compVars>>

-----------------------------------------------------------------------------
(* The compositor *)

Running == {q \in Invocation : pc[q] \notin {"idle", "exited"}}

ConfirmLock(p) ==
    /\ Active(p) /\ lock = "requested"
    /\ lock' = "confirmed" /\ session' = "locked"
    /\ events' = Append(events, "locked")
    /\ everLocked' = everLocked \cup {p} /\ during' = during \cup Running
    /\ UNCHANGED <<pc, entryVars, coordVars, stateVars, fd, launcher>>

\* The lock is denied, or ended later on.
FinishLock(p) ==
    /\ Active(p) /\ lock \in {"requested", "confirmed"} /\ ~unlocked
    /\ lock' = "finished" /\ events' = Append(events, "finished")
    /\ session' \in IF lock = "confirmed" THEN {"locked", "unlocked"} ELSE {session}
    /\ UNCHANGED <<pc, entryVars, coordVars, stateVars, fd, launcher, everLocked, during>>

-----------------------------------------------------------------------------

Init ==
    /\ pc = [p \in Invocation |-> "idle"]
    /\ lease = NoOne /\ path = NoOne /\ listening = NoOne
    /\ conn = [p \in Invocation |-> "none"] /\ joined = [p \in Invocation |-> NoOne]
    /\ coord = "off" /\ waiters = {} /\ pipe = "open" /\ stop = FALSE
    /\ lifecycle = "Requesting" /\ failed = FALSE /\ terminate = FALSE /\ unlocked = FALSE
    /\ fd = [p \in Invocation |-> "open"] /\ launcher = [p \in Invocation |-> "idle"]
    /\ lock = "none" /\ events = <<>> /\ session = "unlocked"
    /\ everLocked = {} /\ during = {}

Process(p) ==
    \/ enter_paths(p) \/ bind(p) \/ activate(p) \/ connect(p) \/ retry(p) \/ refused(p)
    \/ read_to_end(p) \/ locked(p) \/ finished(p) \/ EndRun(p)
    \/ DropJoins(p) \/ DropRemoves(p) \/ DropReleases(p)

Coordinator ==
    \/ CoordinateReady \/ CoordinateStop
    \/ \E q \in Invocation : CoordinateAccept(q)

Next ==
    \/ Coordinator
    \/ \E p \in Invocation :
         \/ Start(p) \/ Process(p) \/ launch(p) \/ Crash(p)
         \/ RuntimeFails(p) \/ take_authorization(p)
         \/ ConfirmLock(p) \/ FinishLock(p)

\* Processes and threads keep running and the loop keeps dispatching.  The user,
\* the compositor and failures are under no obligation.
Fairness ==
    /\ \A p \in Invocation : WF_vars(Process(p)) /\ WF_vars(launch(p))
    /\ WF_vars(Coordinator)

Spec == Init /\ [][Next]_vars /\ Fairness

-----------------------------------------------------------------------------
(* Properties *)

\* READY is reported only for a lock the compositor confirmed: the
\* invocation's own, or the one of the owner it joined (ReadySignal::apply,
\* coordinate, report_joined_ready).
ReadyAfterConfirmation ==
    \A p \in Invocation :
        fd[p] \in {"written", "ready"} => p \in everLocked \/ joined[p] \in everLocked

\* From bind to the end of the run the socket path leads to the owner's
\* listener while its coordinator works: no other invocation, starting or
\* going, removes or replaces it (enter_paths, Active::drop).
SocketLeadsToOwner ==
    \A p \in Invocation :
        pc[p] \in {"starting", "active"} =>
            /\ lease = p /\ path = p
            /\ listening = p \/ (coord = "off" /\ pipe = "closed")

\* The session is only unlocked while it is locked: the compositor confirmed
\* this owner's lock, READY was reported, and nothing failed (authorize_unlock).
UnlockOnlyWhileLocked ==
    [][unlocked' /\ ~unlocked =>
          ~failed /\ pipe = "ready" /\ \E p \in everLocked : Active(p)]_vars

\* An invocation that joined an owner is answered once that owner's lock is
\* confirmed or the owner is gone, whether it connected before or after
\* (coordinate).
WaiterIsAnswered ==
    \A p \in Invocation :
        (pc[p] = "waiting" /\ (joined[p] \in everLocked \/ joined[p] \notin Running))
            ~> (pc[p] = "exited")

\* A launcher returns once the lock it started is confirmed, although it reads
\* its descriptor to the end and the locker lives on (ReadySignal::apply, launch).
LauncherReturns ==
    \A p \in Invocation :
        (p \in everLocked /\ launcher[p] = "waiting") ~> (launcher[p] \in {"ok", "failed"})

\* The whole of it implements what the lock promises (ScreenLock): the lease
\* makes the holder, the compositor's confirmation the lock, and launchers read
\* the answers.
Promise == INSTANCE ScreenLock
    WITH Caller <- Invocation, holder <- lease, confirmed <- everLocked,
         serving <- joined, answer <- launcher
ImplementsScreenLock == Promise!Spec

\* rfd/0003: "A second invocation detects the existing live locker and returns
\* success only when that locker is confirmed locked".  An invocation that
\* joins and reports READY ran while the session was locked.
JoinedWhileLocked ==
    \A p \in Invocation :
        fd[p] = "ready" /\ joined[p] # NoOne => p \in during
=============================================================================
