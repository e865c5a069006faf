----------------------------- MODULE EndsProofs -----------------------------
(***************************************************************************)
(* Proofs about the invocations of the locker (Coordination), for any set  *)
(* of them, and about the greeter's output monitor, for any layouts and    *)
(* windows.                                                                *)
(*                                                                         *)
(* The lease is what everything hangs on: it says which invocation may     *)
(* touch the path, the listener, the coordinator and the lifecycle, which  *)
(* are single variables that outlive their owner.  The inductive invariant *)
(* ties each of them to the place its owner is in, and each connection to  *)
(* the owner whose listener it reached.                                    *)
(*                                                                         *)
(* The region that is published is always the one of the layout the thread *)
(* knows, and it lies within that layout; a publication that the           *)
(* subscription has not seen makes the channel's version larger than the   *)
(* one it saw, also before it is started.                                  *)
(***************************************************************************)
EXTENDS MCEnds, FiniteSetTheorems, NaturalsInduction, WellFoundedInduction, SequenceTheorems,
        TLAPS

-----------------------------------------------------------------------------
(* Invocations of the locker *)

\* Where an invocation holds the lease.
Owning == {"bind", "starting", "active", "stopping", "removing", "releasing", "refused"}

LeaseInv == \A p \in Invocation : lease = p <=> pc[p] \in Owning

PathInv ==
    \A p \in Invocation : pc[p] \in {"starting", "active", "stopping", "removing"} => path = p

\* A listener is open in the process that has it, and read by its coordinator
\* once that runs.
ListenInv ==
    /\ \A p \in Invocation : pc[p] = "starting" => listening = p /\ coord = "off"
    /\ \A p \in Invocation :
           listening = p => \/ pc[p] = "starting"
                            \/ pc[p] \in {"active", "stopping"} /\ coord # "off"
    /\ listening = NoOne => coord = "off"
    /\ \A p \in Invocation : pc[p] = "active" => listening = p \/ pipe = "closed"

\* While its owner runs, a READY descriptor that was given up means the end,
\* and a lifecycle of Locked that READY was written.
RunInv ==
    \A p \in Invocation :
        /\ pc[p] = "starting" => pipe = "open" /\ lifecycle = "Requesting"
        /\ pc[p] \in {"starting", "active"} => ~stop
        /\ pc[p] = "active" /\ pipe = "closed" => terminate
        /\ pc[p] = "active" /\ lifecycle = "Locked" => pipe = "ready" /\ ~failed

\* What says "locked" goes back to a confirmation of the owner's own lock.
ConfirmInv ==
    \A p \in Invocation :
        /\ pc[p] \in {"idle", "enter", "bind", "starting"} => p \notin everLocked
        /\ pc[p] = "active" =>
             /\ \A i \in 1 .. Len(events) : events[i] = "locked" => p \in everLocked
             /\ lock = "requested" => p \notin everLocked
             /\ lock = "confirmed" => p \in everLocked /\ (unlocked \/ session = "locked")
        /\ pc[p] \in {"active", "stopping"} /\ pipe = "ready" => p \in everLocked
        /\ listening = p /\ coord = "confirmed" => p \in everLocked

\* A connection that is open leads to the open listener, and one that was
\* answered led to a confirmed owner.
JoinInv ==
    \A q \in Invocation :
        /\ conn[q] \in {"backlog", "waiter"} => joined[q] = listening /\ listening # NoOne
        /\ conn[q] = "answered" => joined[q] \in everLocked
        /\ q \in waiters <=> conn[q] = "waiter"
        /\ pc[q] \in {"idle", "enter", "join", "retry"} => joined[q] = NoOne

LauncherInv == \A p \in Invocation : pc[p] = "idle" <=> launcher[p] = "idle"

\* The inductive invariant.
Inv ==
    /\ TypeOK /\ IsFiniteSet(waiters)
    /\ LeaseInv /\ PathInv /\ ListenInv /\ RunInv /\ ConfirmInv /\ JoinInv /\ LauncherInv
    /\ ReadyAfterConfirmation

-----------------------------------------------------------------------------
(* Lemmas *)

\* The coordinator has room for no waiters (MAX_WAITERS).
LEMMA NoWaiters == IsFiniteSet({}) /\ Cardinality({}) <= MaxWaiters
<1>1. Cardinality({}) = 0
  BY FS_EmptySet
<1>2. QED
  BY <1>1, FS_EmptySet, InvocationAssumption

\* It has room for one more when it found that there is (coordinate).
LEMMA AnotherWaiter ==
    ASSUME IsFiniteSet(waiters), HasRoom, NEW q
    PROVE  /\ IsFiniteSet(waiters \cup {q})
           /\ Cardinality(waiters \cup {q}) <= MaxWaiters
<1>1. Cardinality(waiters) \in Nat
  BY FS_CardinalityType
<1>2. Cardinality(waiters \cup {q}) <= Cardinality(waiters) + 1
  BY <1>1, FS_AddElement
<1>3. QED
  BY <1>1, <1>2, FS_AddElement, InvocationAssumption DEF HasRoom

\* Init, before any invocation (enter_paths).
LEMMA InvInit == Init => Inv
<1> SUFFICES ASSUME Init PROVE Inv
  OBVIOUS
<1> USE InvocationAssumption DEF Init
<1>1. TypeOK /\ IsFiniteSet(waiters)
  <2>1. IsFiniteSet(waiters) /\ Cardinality(waiters) <= MaxWaiters
    BY NoWaiters
  <2>2. /\ pc \in [Invocation -> Pcs] /\ events \in Seq({"locked", "finished"})
        /\ conn \in [Invocation -> {"none", "backlog", "waiter", "answered", "closed"}]
        /\ joined \in [Invocation -> Invocation \cup {NoOne}]
        /\ fd \in [Invocation -> {"open", "written", "ready", "closed"}]
        /\ launcher \in [Invocation -> {"idle", "waiting", "ok", "failed"}]
    BY DEF Pcs
  <2>3. QED
    BY <2>1, <2>2 DEF TypeOK
<1>2. LeaseInv /\ PathInv /\ ListenInv /\ RunInv
  BY DEF LeaseInv, PathInv, ListenInv, RunInv, Owning
<1>3. ConfirmInv /\ JoinInv /\ LauncherInv /\ ReadyAfterConfirmation
  BY DEF ConfirmInv, JoinInv, LauncherInv, ReadyAfterConfirmation
<1>4. QED
  BY <1>1, <1>2, <1>3 DEF Inv

-----------------------------------------------------------------------------
(* Every step keeps the invariant *)

\* Starting asks for nothing yet (run_lock, launch).
LEMMA StartKeepsInv ==
    ASSUME NEW p \in Invocation, Inv, Start(p) PROVE Inv'
<1> USE InvocationAssumption DEF Inv, Owning, Start, entryVars, coordVars, stateVars, compVars
<1>1. TypeOK' /\ IsFiniteSet(waiters)'
  BY DEF TypeOK, Pcs
<1>2. LeaseInv'
  BY DEF LeaseInv, TypeOK
<1>3. PathInv'
  BY DEF PathInv, TypeOK
<1>4. ListenInv'
  BY DEF ListenInv, TypeOK
<1>5. RunInv'
  BY DEF RunInv, TypeOK
<1>6. ConfirmInv'
  BY DEF ConfirmInv, TypeOK
<1>7. JoinInv'
  BY DEF JoinInv, TypeOK
<1>8. LauncherInv'
  BY DEF LauncherInv, TypeOK
<1>9. ReadyAfterConfirmation'
  BY DEF ReadyAfterConfirmation, TypeOK
<1>10. QED
  BY <1>1, <1>2, <1>3, <1>4, <1>5, <1>6, <1>7, <1>8, <1>9

\* The lease goes to one invocation, the others join (enter_paths).
LEMMA enter_pathsKeepsInv ==
    ASSUME NEW p \in Invocation, Inv, enter_paths(p) PROVE Inv'
<1> USE InvocationAssumption DEF Inv, Owning, enter_paths, entryVars, coordVars, stateVars,
           compVars
<1>1. TypeOK' /\ IsFiniteSet(waiters)'
  BY DEF TypeOK, Pcs
<1>2. LeaseInv'
  BY DEF LeaseInv, TypeOK
<1>3. PathInv'
  BY DEF PathInv, TypeOK
<1>4. ListenInv'
  BY DEF ListenInv, TypeOK
<1>5. RunInv'
  BY DEF RunInv, TypeOK
<1>6. ConfirmInv'
  BY DEF ConfirmInv, TypeOK
<1>7. JoinInv'
  BY DEF JoinInv, TypeOK
<1>8. LauncherInv'
  BY DEF LauncherInv, TypeOK
<1>9. ReadyAfterConfirmation'
  BY DEF ReadyAfterConfirmation, TypeOK
<1>10. QED
  BY <1>1, <1>2, <1>3, <1>4, <1>5, <1>6, <1>7, <1>8, <1>9

\* The holder of the lease replaces the socket (enter_paths).
LEMMA bindKeepsInv ==
    ASSUME NEW p \in Invocation, Inv, bind(p) PROVE Inv'
<1> USE InvocationAssumption DEF Inv, Owning, bind, entryVars, coordVars, stateVars, compVars
<1>1. TypeOK' /\ IsFiniteSet(waiters)'
  BY NoWaiters DEF TypeOK, Pcs
<1>2. LeaseInv'
  BY DEF LeaseInv, TypeOK
<1>3. PathInv'
  BY DEF PathInv, LeaseInv, TypeOK
<1>4. ListenInv'
  BY DEF ListenInv, LeaseInv, TypeOK
<1>5. RunInv'
  BY DEF RunInv, TypeOK
<1>6. ConfirmInv'
  BY DEF ConfirmInv, ListenInv, LeaseInv, TypeOK
<1>7. JoinInv'
  BY DEF JoinInv, ListenInv, LeaseInv, TypeOK
<1>8. LauncherInv'
  BY DEF LauncherInv, TypeOK
<1>9. ReadyAfterConfirmation'
  BY DEF ReadyAfterConfirmation, TypeOK
<1>10. QED
  BY <1>1, <1>2, <1>3, <1>4, <1>5, <1>6, <1>7, <1>8, <1>9

\* The coordinator starts on the owner's own listener (Owner::activate).
LEMMA activateKeepsInv ==
    ASSUME NEW p \in Invocation, Inv, activate(p) PROVE Inv'
<1> USE InvocationAssumption DEF Inv, Owning, activate, entryVars, coordVars, stateVars,
           compVars
<1>1. TypeOK' /\ IsFiniteSet(waiters)'
  BY DEF TypeOK, Pcs
<1>2. LeaseInv'
  BY DEF LeaseInv, TypeOK
<1>3. PathInv'
  BY DEF PathInv, TypeOK
<1>4. ListenInv'
  BY DEF ListenInv, TypeOK
<1>5. RunInv'
  BY DEF RunInv, TypeOK
<1>6. ConfirmInv'
  BY DEF ConfirmInv, ListenInv, RunInv, LeaseInv, TypeOK
<1>7. JoinInv'
  BY DEF JoinInv, TypeOK
<1>8. LauncherInv'
  BY DEF LauncherInv, TypeOK
<1>9. ReadyAfterConfirmation'
  BY DEF ReadyAfterConfirmation, TypeOK
<1>10. QED
  BY <1>1, <1>2, <1>3, <1>4, <1>5, <1>6, <1>7, <1>8, <1>9

\* A connection is made to the listener the path leads to (enter_paths).
LEMMA connectKeepsInv ==
    ASSUME NEW p \in Invocation, Inv, connect(p) PROVE Inv'
<1> USE InvocationAssumption DEF Inv, Owning, connect, entryVars, coordVars, stateVars,
           compVars
<1>1. TypeOK' /\ IsFiniteSet(waiters)'
  BY DEF TypeOK, Pcs
<1>2. LeaseInv'
  BY DEF LeaseInv, TypeOK
<1>3. PathInv'
  BY DEF PathInv, TypeOK
<1>4. ListenInv'
  BY DEF ListenInv, TypeOK
<1>5. RunInv'
  BY DEF RunInv, TypeOK
<1>6. ConfirmInv'
  BY DEF ConfirmInv, TypeOK
<1>7. JoinInv'
  BY DEF JoinInv, TypeOK
<1>8. LauncherInv'
  BY DEF LauncherInv, TypeOK
<1>9. ReadyAfterConfirmation'
  BY DEF ReadyAfterConfirmation, JoinInv, TypeOK
<1>10. QED
  BY <1>1, <1>2, <1>3, <1>4, <1>5, <1>6, <1>7, <1>8, <1>9

\* A lease that is free is taken to fail with it (enter_paths).
LEMMA retryKeepsInv ==
    ASSUME NEW p \in Invocation, Inv, retry(p) PROVE Inv'
<1> USE InvocationAssumption DEF Inv, Owning, retry, entryVars, coordVars, stateVars, compVars
<1>1. TypeOK' /\ IsFiniteSet(waiters)'
  BY DEF TypeOK, Pcs
<1>2. LeaseInv'
  BY DEF LeaseInv, TypeOK
<1>3. PathInv'
  BY DEF PathInv, TypeOK
<1>4. ListenInv'
  BY DEF ListenInv, TypeOK
<1>5. RunInv'
  BY DEF RunInv, TypeOK
<1>6. ConfirmInv'
  BY DEF ConfirmInv, TypeOK
<1>7. JoinInv'
  BY DEF JoinInv, TypeOK
<1>8. LauncherInv'
  BY DEF LauncherInv, TypeOK
<1>9. ReadyAfterConfirmation'
  BY DEF ReadyAfterConfirmation, TypeOK
<1>10. QED
  BY <1>1, <1>2, <1>3, <1>4, <1>5, <1>6, <1>7, <1>8, <1>9

\* An invocation without an owner gives up (enter_paths).
LEMMA refusedKeepsInv ==
    ASSUME NEW p \in Invocation, Inv, refused(p) PROVE Inv'
<1> USE InvocationAssumption DEF Inv, Owning, refused, Closed, entryVars, coordVars, stateVars,
           compVars
<1>1. TypeOK' /\ IsFiniteSet(waiters)'
  BY DEF TypeOK, Pcs
<1>2. LeaseInv'
  BY DEF LeaseInv, TypeOK
<1>3. PathInv'
  BY DEF PathInv, TypeOK
<1>4. ListenInv'
  BY DEF ListenInv, TypeOK
<1>5. RunInv'
  BY DEF RunInv, TypeOK
<1>6. ConfirmInv'
  BY DEF ConfirmInv, TypeOK
<1>7. JoinInv'
  BY DEF JoinInv, TypeOK
<1>8. LauncherInv'
  BY DEF LauncherInv, TypeOK
<1>9. ReadyAfterConfirmation'
  BY DEF ReadyAfterConfirmation, TypeOK
<1>10. QED
  BY <1>1, <1>2, <1>3, <1>4, <1>5, <1>6, <1>7, <1>8, <1>9

\* A joiner reports what it was answered (report_joined_ready).
LEMMA read_to_endKeepsInv ==
    ASSUME NEW p \in Invocation, Inv, read_to_end(p) PROVE Inv'
<1> USE InvocationAssumption DEF Inv, Owning, read_to_end, entryVars, coordVars, stateVars,
           compVars
<1>1. TypeOK' /\ IsFiniteSet(waiters)'
  BY DEF TypeOK, Pcs
<1>2. LeaseInv'
  BY DEF LeaseInv, TypeOK
<1>3. PathInv'
  BY DEF PathInv, TypeOK
<1>4. ListenInv'
  BY DEF ListenInv, TypeOK
<1>5. RunInv'
  BY DEF RunInv, TypeOK
<1>6. ConfirmInv'
  BY DEF ConfirmInv, TypeOK
<1>7. JoinInv'
  BY DEF JoinInv, TypeOK
<1>8. LauncherInv'
  BY DEF LauncherInv, TypeOK
<1>9. ReadyAfterConfirmation'
  BY DEF ReadyAfterConfirmation, JoinInv, TypeOK
<1>10. QED
  BY <1>1, <1>2, <1>3, <1>4, <1>5, <1>6, <1>7, <1>8, <1>9

\* A launcher reads its descriptor to the end (launch).
LEMMA launchKeepsInv ==
    ASSUME NEW p \in Invocation, Inv, launch(p) PROVE Inv'
<1> USE InvocationAssumption DEF Inv, Owning, launch, entryVars, coordVars, stateVars, compVars
<1>1. TypeOK' /\ IsFiniteSet(waiters)'
  BY DEF TypeOK, Pcs
<1>2. LeaseInv'
  BY DEF LeaseInv, TypeOK
<1>3. PathInv'
  BY DEF PathInv, TypeOK
<1>4. ListenInv'
  BY DEF ListenInv, TypeOK
<1>5. RunInv'
  BY DEF RunInv, TypeOK
<1>6. ConfirmInv'
  BY DEF ConfirmInv, TypeOK
<1>7. JoinInv'
  BY DEF JoinInv, TypeOK
<1>8. LauncherInv'
  BY DEF LauncherInv, TypeOK
<1>9. ReadyAfterConfirmation'
  BY DEF ReadyAfterConfirmation, TypeOK
<1>10. QED
  BY <1>1, <1>2, <1>3, <1>4, <1>5, <1>6, <1>7, <1>8, <1>9

\* READY goes to the waiters, a closed descriptor ends the thread (coordinate).
LEMMA CoordinateReadyKeepsInv ==
    ASSUME Inv, CoordinateReady PROVE Inv'
<1> USE InvocationAssumption DEF Inv, Owning, CoordinateReady, Return, AnswerWaiters,
           entryVars, coordVars, stateVars, compVars
<1>1. TypeOK' /\ IsFiniteSet(waiters)'
  <2>1. conn' \in [Invocation -> {"none", "backlog", "waiter", "answered", "closed"}]
    BY DEF TypeOK
  <2>2. waiters' = {}
    OBVIOUS
  <2>3. IsFiniteSet(waiters') /\ Cardinality(waiters') <= MaxWaiters
    BY <2>2, NoWaiters
  <2>4. QED
    BY <2>1, <2>2, <2>3 DEF TypeOK
<1>2. LeaseInv'
  BY DEF LeaseInv, TypeOK
<1>3. PathInv'
  BY DEF PathInv, TypeOK
<1>4. ListenInv'
  BY DEF ListenInv, TypeOK
<1>5. RunInv'
  BY DEF RunInv, TypeOK
<1>6. ConfirmInv'
  BY DEF ConfirmInv, ListenInv, TypeOK
<1>7. JoinInv'
  BY DEF JoinInv, ConfirmInv, ListenInv, TypeOK
<1>8. LauncherInv'
  BY DEF LauncherInv, TypeOK
<1>9. ReadyAfterConfirmation'
  BY DEF ReadyAfterConfirmation, TypeOK
<1>10. QED
  BY <1>1, <1>2, <1>3, <1>4, <1>5, <1>6, <1>7, <1>8, <1>9

\* An accepted connection is answered, kept or closed (coordinate).
LEMMA CoordinateAcceptKeepsInv ==
    ASSUME NEW p \in Invocation, Inv, CoordinateAccept(p) PROVE Inv'
<1> USE InvocationAssumption DEF Inv, Owning, CoordinateAccept, AnswersOnAccept, HasRoom,
           entryVars, coordVars, stateVars, compVars
<1>1. TypeOK' /\ IsFiniteSet(waiters)'
  <2>1. CASE waiters' = waiters
    BY <2>1 DEF TypeOK
  <2>2. CASE HasRoom /\ waiters' = waiters \cup {p} /\ conn' = [conn EXCEPT ![p] = "waiter"]
    <3>1. IsFiniteSet(waiters') /\ Cardinality(waiters') <= MaxWaiters
      BY <2>2, AnotherWaiter
    <3>2. QED
      BY <2>2, <3>1 DEF TypeOK
  <2>3. QED
    BY <2>1, <2>2
<1>2. LeaseInv'
  BY DEF LeaseInv, TypeOK
<1>3. PathInv'
  BY DEF PathInv, TypeOK
<1>4. ListenInv'
  BY DEF ListenInv, TypeOK
<1>5. RunInv'
  BY DEF RunInv, TypeOK
<1>6. ConfirmInv'
  BY DEF ConfirmInv, TypeOK
<1>7. JoinInv'
  BY DEF JoinInv, ConfirmInv, ListenInv, TypeOK
<1>8. LauncherInv'
  BY DEF LauncherInv, TypeOK
<1>9. ReadyAfterConfirmation'
  BY DEF ReadyAfterConfirmation, TypeOK
<1>10. QED
  BY <1>1, <1>2, <1>3, <1>4, <1>5, <1>6, <1>7, <1>8, <1>9

\* The thread returns when it is told to stop (coordinate).
LEMMA CoordinateStopKeepsInv ==
    ASSUME Inv, CoordinateStop PROVE Inv'
<1> USE InvocationAssumption DEF Inv, Owning, CoordinateStop, Return, entryVars, coordVars,
           stateVars, compVars
<1>1. TypeOK' /\ IsFiniteSet(waiters)'
  BY NoWaiters DEF TypeOK
<1>2. LeaseInv'
  BY DEF LeaseInv, TypeOK
<1>3. PathInv'
  BY DEF PathInv, TypeOK
<1>4. ListenInv'
  BY DEF ListenInv, RunInv, TypeOK
<1>5. RunInv'
  BY DEF RunInv, TypeOK
<1>6. ConfirmInv'
  BY DEF ConfirmInv, TypeOK
<1>7. JoinInv'
  BY DEF JoinInv, TypeOK
<1>8. LauncherInv'
  BY DEF LauncherInv, TypeOK
<1>9. ReadyAfterConfirmation'
  BY DEF ReadyAfterConfirmation, TypeOK
<1>10. QED
  BY <1>1, <1>2, <1>3, <1>4, <1>5, <1>6, <1>7, <1>8, <1>9

\* A confirmation is reported once (lock_confirmation_action, ReadySignal::apply).
LEMMA lockedKeepsInv ==
    ASSUME NEW p \in Invocation, Inv, locked(p) PROVE Inv'
<1> USE InvocationAssumption DEF Inv, Owning, locked, Active, fail, WriteReady, entryVars,
           coordVars, stateVars, compVars
<1>1. TypeOK' /\ IsFiniteSet(waiters)'
  <2>1. events' \in Seq({"locked", "finished"})
    BY HeadTailProperties DEF TypeOK
  <2>2. fd' \in [Invocation -> {"open", "written", "ready", "closed"}]
    BY DEF TypeOK
  <2>3. /\ lifecycle' \in {"Requesting", "Locked", "Aborted", "Unlocking"}
        /\ failed' \in BOOLEAN /\ terminate' \in BOOLEAN /\ unlocked' \in BOOLEAN
        /\ pipe' \in {"open", "ready", "closed"}
    BY DEF TypeOK
  <2>4. QED
    BY <2>1, <2>2, <2>3 DEF TypeOK
<1>2. LeaseInv'
  BY DEF LeaseInv, TypeOK
<1>3. PathInv'
  BY DEF PathInv, TypeOK
<1>4. ListenInv'
  BY DEF ListenInv, LeaseInv, RunInv, TypeOK
<1>5. RunInv'
  BY DEF RunInv, LeaseInv, TypeOK
<1>6. ConfirmInv'
  BY HeadTailProperties DEF ConfirmInv, LeaseInv, TypeOK
<1>7. JoinInv'
  BY DEF JoinInv, TypeOK
<1>8. LauncherInv'
  BY DEF LauncherInv, TypeOK
<1>9. ReadyAfterConfirmation'
  BY DEF ReadyAfterConfirmation, ConfirmInv, TypeOK
<1>10. QED
  BY <1>1, <1>2, <1>3, <1>4, <1>5, <1>6, <1>7, <1>8, <1>9

\* The compositor ends the lock (finished).
LEMMA finishedKeepsInv ==
    ASSUME NEW p \in Invocation, Inv, finished(p) PROVE Inv'
<1> USE InvocationAssumption DEF Inv, Owning, finished, Active, fail, entryVars, coordVars,
           stateVars, compVars
<1>1. TypeOK' /\ IsFiniteSet(waiters)'
  BY DEF TypeOK, Pcs
<1>2. LeaseInv'
  BY DEF LeaseInv, TypeOK
<1>3. PathInv'
  BY DEF PathInv, TypeOK
<1>4. ListenInv'
  BY DEF ListenInv, TypeOK
<1>5. RunInv'
  BY DEF RunInv, LeaseInv, TypeOK
<1>6. ConfirmInv'
  BY DEF ConfirmInv, TypeOK
<1>7. JoinInv'
  BY DEF JoinInv, TypeOK
<1>8. LauncherInv'
  BY DEF LauncherInv, TypeOK
<1>9. ReadyAfterConfirmation'
  BY DEF ReadyAfterConfirmation, TypeOK
<1>10. QED
  BY <1>1, <1>2, <1>3, <1>4, <1>5, <1>6, <1>7, <1>8, <1>9

\* The runtime fails on its own (Runtime::fail).
LEMMA RuntimeFailsKeepsInv ==
    ASSUME NEW p \in Invocation, Inv, RuntimeFails(p) PROVE Inv'
<1> USE InvocationAssumption DEF Inv, Owning, RuntimeFails, Active, fail, entryVars, coordVars,
           stateVars, compVars
<1>1. TypeOK' /\ IsFiniteSet(waiters)'
  BY DEF TypeOK, Pcs
<1>2. LeaseInv'
  BY DEF LeaseInv, TypeOK
<1>3. PathInv'
  BY DEF PathInv, TypeOK
<1>4. ListenInv'
  BY DEF ListenInv, TypeOK
<1>5. RunInv'
  BY DEF RunInv, LeaseInv, TypeOK
<1>6. ConfirmInv'
  BY DEF ConfirmInv, TypeOK
<1>7. JoinInv'
  BY DEF JoinInv, TypeOK
<1>8. LauncherInv'
  BY DEF LauncherInv, TypeOK
<1>9. ReadyAfterConfirmation'
  BY DEF ReadyAfterConfirmation, TypeOK
<1>10. QED
  BY <1>1, <1>2, <1>3, <1>4, <1>5, <1>6, <1>7, <1>8, <1>9

\* An authorisation unlocks (authorize_unlock).
LEMMA take_authorizationKeepsInv ==
    ASSUME NEW p \in Invocation, Inv, take_authorization(p) PROVE Inv'
<1> USE InvocationAssumption DEF Inv, Owning, take_authorization, Active, MayUnlock, entryVars,
           coordVars, stateVars, compVars
<1>1. TypeOK' /\ IsFiniteSet(waiters)'
  <2>1. /\ lifecycle' \in {"Requesting", "Locked", "Aborted", "Unlocking"}
        /\ failed' \in BOOLEAN /\ terminate' \in BOOLEAN /\ unlocked' \in BOOLEAN
    BY DEF TypeOK
  <2>2. session' \in {"unlocked", "locked"}
    OBVIOUS
  <2>3. QED
    BY <2>1, <2>2 DEF TypeOK
<1>2. LeaseInv'
  BY DEF LeaseInv, TypeOK
<1>3. PathInv'
  BY DEF PathInv, TypeOK
<1>4. ListenInv'
  BY DEF ListenInv, TypeOK
<1>5. RunInv'
  BY DEF RunInv, TypeOK
<1>6. ConfirmInv'
  BY DEF ConfirmInv, TypeOK
<1>7. JoinInv'
  BY DEF JoinInv, TypeOK
<1>8. LauncherInv'
  BY DEF LauncherInv, TypeOK
<1>9. ReadyAfterConfirmation'
  BY DEF ReadyAfterConfirmation, TypeOK
<1>10. QED
  BY <1>1, <1>2, <1>3, <1>4, <1>5, <1>6, <1>7, <1>8, <1>9

\* The run returns and tells the coordinator to stop (Active::drop).
LEMMA EndRunKeepsInv ==
    ASSUME NEW p \in Invocation, Inv, EndRun(p) PROVE Inv'
<1> USE InvocationAssumption DEF Inv, Owning, EndRun, Active, Closed, entryVars, coordVars,
           stateVars, compVars
<1>1. TypeOK' /\ IsFiniteSet(waiters)'
  BY DEF TypeOK, Pcs
<1>2. LeaseInv'
  BY DEF LeaseInv, TypeOK
<1>3. PathInv'
  BY DEF PathInv, TypeOK
<1>4. ListenInv'
  BY DEF ListenInv, TypeOK
<1>5. RunInv'
  BY DEF RunInv, LeaseInv, TypeOK
<1>6. ConfirmInv'
  BY DEF ConfirmInv, TypeOK
<1>7. JoinInv'
  BY DEF JoinInv, TypeOK
<1>8. LauncherInv'
  BY DEF LauncherInv, TypeOK
<1>9. ReadyAfterConfirmation'
  BY DEF ReadyAfterConfirmation, TypeOK
<1>10. QED
  BY <1>1, <1>2, <1>3, <1>4, <1>5, <1>6, <1>7, <1>8, <1>9

\* The coordinator is joined (Active::drop).
LEMMA DropJoinsKeepsInv ==
    ASSUME NEW p \in Invocation, Inv, DropJoins(p) PROVE Inv'
<1> USE InvocationAssumption DEF Inv, Owning, DropJoins, entryVars, coordVars, stateVars,
           compVars
<1>1. TypeOK' /\ IsFiniteSet(waiters)'
  BY DEF TypeOK, Pcs
<1>2. LeaseInv'
  BY DEF LeaseInv, TypeOK
<1>3. PathInv'
  BY DEF PathInv, TypeOK
<1>4. ListenInv'
  BY DEF ListenInv, TypeOK
<1>5. RunInv'
  BY DEF RunInv, TypeOK
<1>6. ConfirmInv'
  BY DEF ConfirmInv, TypeOK
<1>7. JoinInv'
  BY DEF JoinInv, TypeOK
<1>8. LauncherInv'
  BY DEF LauncherInv, TypeOK
<1>9. ReadyAfterConfirmation'
  BY DEF ReadyAfterConfirmation, TypeOK
<1>10. QED
  BY <1>1, <1>2, <1>3, <1>4, <1>5, <1>6, <1>7, <1>8, <1>9

\* The socket is removed (Active::drop).
LEMMA DropRemovesKeepsInv ==
    ASSUME NEW p \in Invocation, Inv, DropRemoves(p) PROVE Inv'
<1> USE InvocationAssumption DEF Inv, Owning, DropRemoves, entryVars, coordVars, stateVars,
           compVars
<1>1. TypeOK' /\ IsFiniteSet(waiters)'
  BY DEF TypeOK, Pcs
<1>2. LeaseInv'
  BY DEF LeaseInv, TypeOK
<1>3. PathInv'
  BY DEF PathInv, TypeOK
<1>4. ListenInv'
  BY DEF ListenInv, TypeOK
<1>5. RunInv'
  BY DEF RunInv, TypeOK
<1>6. ConfirmInv'
  BY DEF ConfirmInv, TypeOK
<1>7. JoinInv'
  BY DEF JoinInv, TypeOK
<1>8. LauncherInv'
  BY DEF LauncherInv, TypeOK
<1>9. ReadyAfterConfirmation'
  BY DEF ReadyAfterConfirmation, TypeOK
<1>10. QED
  BY <1>1, <1>2, <1>3, <1>4, <1>5, <1>6, <1>7, <1>8, <1>9

\* The lease is released last (Active::drop).
LEMMA DropReleasesKeepsInv ==
    ASSUME NEW p \in Invocation, Inv, DropReleases(p) PROVE Inv'
<1> USE InvocationAssumption DEF Inv, Owning, DropReleases, entryVars, coordVars, stateVars,
           compVars
<1>1. TypeOK' /\ IsFiniteSet(waiters)'
  BY DEF TypeOK, Pcs
<1>2. LeaseInv'
  BY DEF LeaseInv, TypeOK
<1>3. PathInv'
  BY DEF PathInv, TypeOK
<1>4. ListenInv'
  BY DEF ListenInv, TypeOK
<1>5. RunInv'
  BY DEF RunInv, TypeOK
<1>6. ConfirmInv'
  BY DEF ConfirmInv, TypeOK
<1>7. JoinInv'
  BY DEF JoinInv, TypeOK
<1>8. LauncherInv'
  BY DEF LauncherInv, TypeOK
<1>9. ReadyAfterConfirmation'
  BY DEF ReadyAfterConfirmation, TypeOK
<1>10. QED
  BY <1>1, <1>2, <1>3, <1>4, <1>5, <1>6, <1>7, <1>8, <1>9

\* An invocation ends early, wherever it is.
LEMMA CrashKeepsInv ==
    ASSUME NEW p \in Invocation, Inv, Crash(p) PROVE Inv'
<1> USE InvocationAssumption DEF Inv, Owning, Crash, Closed, Return, entryVars, coordVars,
           stateVars, compVars
<1>1. TypeOK' /\ IsFiniteSet(waiters)'
  <2>1. CASE listening # p
    BY <2>1 DEF TypeOK, Pcs
  <2>2. CASE listening = p
    <3>1. conn' \in [Invocation -> {"none", "backlog", "waiter", "answered", "closed"}]
      BY <2>2 DEF TypeOK
    <3>2. waiters' = {} /\ coord' = "off" /\ listening' = NoOne
      BY <2>2
    <3>3. IsFiniteSet(waiters') /\ Cardinality(waiters') <= MaxWaiters
      BY <3>2, NoWaiters
    <3>4. /\ pc' \in [Invocation -> Pcs] /\ lease' \in Invocation \cup {NoOne}
          /\ fd' \in [Invocation -> {"open", "written", "ready", "closed"}]
      BY DEF TypeOK, Pcs
    <3>5. QED
      BY <3>1, <3>2, <3>3, <3>4 DEF TypeOK
  <2>3. QED
    BY <2>1, <2>2
<1>2. LeaseInv'
  BY DEF LeaseInv, TypeOK
<1>3. PathInv'
  BY DEF PathInv, TypeOK
<1>4. ListenInv'
  BY DEF ListenInv, TypeOK
<1>5. RunInv'
  BY DEF RunInv, TypeOK
<1>6. ConfirmInv'
  BY DEF ConfirmInv, TypeOK
<1>7. JoinInv'
  BY DEF JoinInv, TypeOK
<1>8. LauncherInv'
  BY DEF LauncherInv, TypeOK
<1>9. ReadyAfterConfirmation'
  BY DEF ReadyAfterConfirmation, TypeOK
<1>10. QED
  BY <1>1, <1>2, <1>3, <1>4, <1>5, <1>6, <1>7, <1>8, <1>9

\* The compositor confirms the owner's lock.
LEMMA ConfirmLockKeepsInv ==
    ASSUME NEW p \in Invocation, Inv, ConfirmLock(p) PROVE Inv'
<1> USE InvocationAssumption DEF Inv, Owning, ConfirmLock, Active, Running, entryVars,
           coordVars, stateVars, compVars
<1>1. TypeOK' /\ IsFiniteSet(waiters)'
  BY DEF TypeOK, Pcs
<1>2. LeaseInv'
  BY DEF LeaseInv, TypeOK
<1>3. PathInv'
  BY DEF PathInv, TypeOK
<1>4. ListenInv'
  BY DEF ListenInv, TypeOK
<1>5. RunInv'
  BY DEF RunInv, TypeOK
<1>6. ConfirmInv'
  BY AppendProperties DEF ConfirmInv, LeaseInv, TypeOK
<1>7. JoinInv'
  BY DEF JoinInv, TypeOK
<1>8. LauncherInv'
  BY DEF LauncherInv, TypeOK
<1>9. ReadyAfterConfirmation'
  BY DEF ReadyAfterConfirmation, TypeOK
<1>10. QED
  BY <1>1, <1>2, <1>3, <1>4, <1>5, <1>6, <1>7, <1>8, <1>9

\* The compositor denies or ends the lock.
LEMMA FinishLockKeepsInv ==
    ASSUME NEW p \in Invocation, Inv, FinishLock(p) PROVE Inv'
<1> USE InvocationAssumption DEF Inv, Owning, FinishLock, Active, entryVars, coordVars,
           stateVars, compVars
<1>1. TypeOK' /\ IsFiniteSet(waiters)'
  BY DEF TypeOK, Pcs
<1>2. LeaseInv'
  BY DEF LeaseInv, TypeOK
<1>3. PathInv'
  BY DEF PathInv, TypeOK
<1>4. ListenInv'
  BY DEF ListenInv, TypeOK
<1>5. RunInv'
  BY DEF RunInv, TypeOK
<1>6. ConfirmInv'
  BY DEF ConfirmInv, TypeOK
<1>7. JoinInv'
  BY DEF JoinInv, TypeOK
<1>8. LauncherInv'
  BY DEF LauncherInv, TypeOK
<1>9. ReadyAfterConfirmation'
  BY DEF ReadyAfterConfirmation, TypeOK
<1>10. QED
  BY <1>1, <1>2, <1>3, <1>4, <1>5, <1>6, <1>7, <1>8, <1>9

\* A step that changes nothing changes none of this.
LEMMA StutterKeepsInv == ASSUME Inv, UNCHANGED vars PROVE Inv'
BY DEF Inv, vars, entryVars, coordVars, stateVars, compVars, TypeOK, LeaseInv, PathInv,
       ListenInv, RunInv, ConfirmInv, JoinInv, LauncherInv, ReadyAfterConfirmation

\* Whoever steps, the invariant is kept.
LEMMA InvStep == Inv /\ [Next]_vars => Inv'
<1> SUFFICES ASSUME Inv, [Next]_vars PROVE Inv'
  OBVIOUS
<1>1. CASE Coordinator
  BY <1>1, CoordinateReadyKeepsInv, CoordinateAcceptKeepsInv, CoordinateStopKeepsInv
     DEF Coordinator
<1>2. ASSUME NEW p \in Invocation, Process(p) PROVE Inv'
  BY <1>2, enter_pathsKeepsInv, bindKeepsInv, activateKeepsInv, connectKeepsInv,
     retryKeepsInv, refusedKeepsInv, read_to_endKeepsInv, lockedKeepsInv, finishedKeepsInv,
     EndRunKeepsInv, DropJoinsKeepsInv, DropRemovesKeepsInv, DropReleasesKeepsInv
     DEF Process
<1>3. ASSUME NEW p \in Invocation,
             \/ Start(p) \/ launch(p) \/ Crash(p) \/ RuntimeFails(p)
             \/ take_authorization(p) \/ ConfirmLock(p) \/ FinishLock(p)
      PROVE  Inv'
  BY <1>3, StartKeepsInv, launchKeepsInv, CrashKeepsInv, RuntimeFailsKeepsInv,
     take_authorizationKeepsInv, ConfirmLockKeepsInv, FinishLockKeepsInv
<1>4. QED
  BY <1>1, <1>2, <1>3, StutterKeepsInv DEF Next

-----------------------------------------------------------------------------
(* Theorems *)

\* What the lease, the socket, the coordinator and the lifecycle say of each
\* other holds in every reachable state (coordination.rs, runtime.rs).
THEOREM Invariance == Spec => []Inv
<1>1. QED
  BY InvInit, InvStep, PTL DEF Spec

\* Every variable has its type, and the coordinator never keeps more than
\* MAX_WAITERS connections (coordinate).
THEOREM TypeCorrect == Spec => []TypeOK
<1>1. Inv => TypeOK
  BY DEF Inv
<1>2. QED
  BY <1>1, Invariance, PTL

\* However many invocations race and crash, READY is reported only for a lock
\* the compositor confirmed (ReadySignal::apply, coordinate).
THEOREM Ready == Spec => []ReadyAfterConfirmation
<1>1. Inv => ReadyAfterConfirmation
  BY DEF Inv
<1>2. QED
  BY <1>1, Invariance, PTL

\* The socket path leads to the running owner, whoever starts or goes
\* (enter_paths, Active::drop).
THEOREM Socket == Spec => []SocketLeadsToOwner
<1>1. Inv => SocketLeadsToOwner
  <2> SUFFICES ASSUME Inv, NEW p \in Invocation, pc[p] \in {"starting", "active"}
               PROVE  /\ lease = p /\ path = p
                      /\ listening = p \/ (coord = "off" /\ pipe = "closed")
    BY DEF SocketLeadsToOwner
  <2>1. lease = p /\ path = p
    BY DEF Inv, LeaseInv, PathInv, Owning
  <2>2. CASE listening # p
    <3>1. pc[p] = "active" /\ pipe = "closed"
      BY <2>2 DEF Inv, ListenInv
    <3>2. \A q \in Invocation : listening # q
      BY <2>1, <2>2 DEF Inv, ListenInv, LeaseInv, Owning
    <3>3. listening = NoOne
      BY <3>2 DEF Inv, TypeOK
    <3>4. QED
      BY <2>1, <3>1, <3>3 DEF Inv, ListenInv
  <2>3. QED
    BY <2>1, <2>2
<1>2. QED
  BY <1>1, Invariance, PTL

\* The unlock request is only sent for the owner's own confirmed lock, after
\* READY and before any failure (authorize_unlock).
THEOREM Unlocking == Spec => UnlockOnlyWhileLocked
<1>1. ASSUME Inv, [Next]_vars, unlocked', ~unlocked
      PROVE  ~failed /\ pipe = "ready" /\ \E p \in everLocked : Active(p)
  <2>1. PICK p \in Invocation : take_authorization(p)
    <3> USE <1>1
    <3>1. Next
      BY DEF vars, stateVars
    <3>2. ~Coordinator
      BY DEF Coordinator, CoordinateReady, CoordinateStop, CoordinateAccept, stateVars
    <3>3. ASSUME NEW p \in Invocation PROVE ~Process(p)
      BY DEF Process, enter_paths, bind, activate, connect, retry, refused, read_to_end,
             locked, finished, EndRun, DropJoins, DropRemoves, DropReleases, fail, stateVars
    <3>4. ASSUME NEW p \in Invocation
          PROVE  ~(Start(p) \/ launch(p) \/ Crash(p) \/ RuntimeFails(p) \/ ConfirmLock(p)
                     \/ FinishLock(p))
      BY DEF Start, launch, Crash, RuntimeFails, ConfirmLock, FinishLock, fail, stateVars
    <3>5. QED
      BY <3>1, <3>2, <3>3, <3>4 DEF Next
  <2>2. Active(p) /\ lifecycle = "Locked"
    BY <2>1 DEF take_authorization, MayUnlock
  <2>3. pipe = "ready" /\ ~failed
    BY <1>1, <2>2 DEF Inv, RunInv, Active
  <2>4. p \in everLocked
    BY <1>1, <2>2, <2>3 DEF Inv, ConfirmInv, Active
  <2>5. QED
    BY <2>2, <2>3, <2>4
<1>2. Inv /\ [Next]_vars =>
         [unlocked' /\ ~unlocked =>
             ~failed /\ pipe = "ready" /\ \E p \in everLocked : Active(p)]_vars
  BY <1>1
<1>3. QED
  BY <1>2, Invariance, PTL DEF Spec, UnlockOnlyWhileLocked

-----------------------------------------------------------------------------
(* The refinement of ScreenLock *)

\* Before any invocation nobody holds, asks or is told anything.
LEMMA PromiseInit == Init => Promise!Init
BY DEF Init, Promise!Init

\* What the coordinator thread does, callers see none of.
LEMMA CoordinatorIsInvisible == ASSUME Coordinator PROVE UNCHANGED Promise!vars
BY DEF Coordinator, CoordinateReady, CoordinateStop, CoordinateAccept, Promise!vars, compVars

\* Entering takes the lease or finds it taken; an invocation joins the holder
\* of the lease (enter_paths).
LEMMA EnteringImplements ==
    ASSUME Inv, NEW p \in Invocation,
           Start(p) \/ enter_paths(p) \/ bind(p) \/ activate(p) \/ connect(p) \/ retry(p)
             \/ refused(p) \/ read_to_end(p)
    PROVE  [Promise!Next]_(Promise!vars)
<1> USE DEF Promise!vars, entryVars, compVars
<1>1. CASE Start(p)
  <2>1. Promise!Ask(p)
    BY <1>1 DEF Start, Promise!Ask, Inv, LauncherInv
  <2>2. QED
    BY <2>1 DEF Promise!Next
<1>2. CASE enter_paths(p) \/ retry(p)
  <2>1. CASE lease = NoOne
    <3>1. Promise!Hold(p)
      BY <1>2, <2>1 DEF enter_paths, retry, Promise!Hold, Inv, LauncherInv
    <3>2. QED
      BY <3>1 DEF Promise!Next
  <2>2. CASE lease # NoOne
    BY <1>2, <2>2 DEF enter_paths, retry
  <2>3. QED
    BY <2>1, <2>2
<1>3. CASE bind(p) \/ activate(p) \/ read_to_end(p)
  BY <1>3 DEF bind, activate, read_to_end
<1>4. CASE connect(p)
  <2>1. CASE path # NoOne /\ listening = path
    <3>1. path \in Invocation /\ path # p /\ lease = path
      BY <1>4, <2>1 DEF connect, Inv, TypeOK, ListenInv, LeaseInv, Owning
    <3>2. joined[p] = NoOne
      BY <1>4 DEF connect, Inv, JoinInv
    <3>3. Promise!Join(p)
      BY <1>4, <2>1, <3>1, <3>2, InvocationAssumption DEF connect, Promise!Join
    <3>4. QED
      BY <3>3 DEF Promise!Next
  <2>2. CASE ~(path # NoOne /\ listening = path)
    BY <1>4, <2>2 DEF connect
  <2>3. QED
    BY <2>1, <2>2
<1>5. CASE refused(p)
  <2>1. Promise!LetGo
    BY <1>5, InvocationAssumption DEF refused, Promise!LetGo, Inv, LeaseInv, Owning
  <2>2. QED
    BY <2>1 DEF Promise!Next
<1>6. QED
  BY <1>1, <1>2, <1>3, <1>4, <1>5

\* A launcher tells of success only for a confirmed lock (launch).
LEMMA LaunchImplements ==
    ASSUME Inv, NEW p \in Invocation, launch(p) PROVE Promise!Next
<1>1. fd[p] = "ready" => p \in everLocked \/ joined[p] \in everLocked
  BY DEF Inv, ReadyAfterConfirmation
<1>2. \E a \in {"ok", "failed"} : Promise!Tell(p, a)
  BY <1>1 DEF launch, Promise!Tell, entryVars, compVars
<1>3. QED
  BY <1>2 DEF Promise!Next

\* The lock is confirmed once, and the session unlocked only for a holder whose
\* lock is confirmed (locked, finished, authorize_unlock).
LEMMA RuntimeImplements ==
    ASSUME Inv, NEW p \in Invocation,
           locked(p) \/ finished(p) \/ RuntimeFails(p) \/ take_authorization(p) \/ EndRun(p)
             \/ ConfirmLock(p) \/ FinishLock(p)
    PROVE  [Promise!Next]_(Promise!vars)
<1> USE DEF Promise!vars, entryVars, compVars
<1>1. CASE locked(p) \/ finished(p) \/ RuntimeFails(p) \/ EndRun(p)
  BY <1>1 DEF locked, finished, RuntimeFails, EndRun
<1>2. Active(p) => lease = p
  BY DEF Active, Inv, LeaseInv, Owning
<1>3. CASE take_authorization(p)
  <2>1. p \in everLocked
    BY <1>3 DEF take_authorization, MayUnlock, Active, Inv, RunInv, ConfirmInv
  <2>2. Promise!Unlock
    BY <1>2, <1>3, <2>1 DEF take_authorization, Promise!Unlock
  <2>3. QED
    BY <2>2 DEF Promise!Next
<1>4. CASE ConfirmLock(p)
  <2>1. p \notin everLocked
    BY <1>4 DEF ConfirmLock, Active, Inv, ConfirmInv
  <2>2. Promise!Confirm(p)
    BY <1>2, <1>4, <2>1 DEF ConfirmLock, Promise!Confirm
  <2>3. QED
    BY <2>2 DEF Promise!Next
<1>5. CASE FinishLock(p)
  <2>1. CASE session' = session
    BY <1>5, <2>1 DEF FinishLock
  <2>2. CASE session' # session
    <3>1. lock = "confirmed"
      BY <1>5, <2>2 DEF FinishLock
    <3>2. p \in everLocked /\ session = "locked"
      BY <1>5, <3>1 DEF FinishLock, Active, Inv, ConfirmInv
    <3>3. Promise!Unlock
      BY <1>2, <1>5, <2>2, <3>1, <3>2 DEF FinishLock, Promise!Unlock
    <3>4. QED
      BY <3>3 DEF Promise!Next
  <2>3. QED
    BY <2>1, <2>2
<1>6. QED
  BY <1>1, <1>3, <1>4, <1>5

\* Going, in order or by a crash, lets go of the lock at most (Active::drop).
LEMMA GoingImplements ==
    ASSUME Inv, NEW p \in Invocation,
           DropJoins(p) \/ DropRemoves(p) \/ DropReleases(p) \/ Crash(p)
    PROVE  [Promise!Next]_(Promise!vars)
<1> USE DEF Promise!vars, entryVars, compVars
<1>1. CASE lease' = lease
  BY <1>1 DEF DropJoins, DropRemoves, DropReleases, Crash
<1>2. CASE lease' # lease
  <2>1. lease # NoOne /\ lease' = NoOne
    BY <1>2, InvocationAssumption
       DEF DropJoins, DropRemoves, DropReleases, Crash, Inv, LeaseInv, Owning
  <2>2. Promise!LetGo
    BY <2>1 DEF DropJoins, DropRemoves, DropReleases, Crash, Promise!LetGo
  <2>3. QED
    BY <2>2 DEF Promise!Next
<1>3. QED
  BY <1>1, <1>2

\* With its sockets, threads, crashes and compositor, `genkan lock` implements
\* the lock it promises: each step is one of ScreenLock's or is not seen there.
THEOREM Refinement == Spec => ImplementsScreenLock
<1>1. Inv /\ [Next]_vars => [Promise!Next]_(Promise!vars)
  <2> SUFFICES ASSUME Inv, [Next]_vars PROVE [Promise!Next]_(Promise!vars)
    OBVIOUS
  <2>1. CASE Coordinator
    BY <2>1, CoordinatorIsInvisible
  <2>2. ASSUME NEW p \in Invocation, Process(p) PROVE [Promise!Next]_(Promise!vars)
    BY <2>2, EnteringImplements, RuntimeImplements, GoingImplements DEF Process
  <2>3. ASSUME NEW p \in Invocation,
               \/ Start(p) \/ launch(p) \/ Crash(p) \/ RuntimeFails(p)
               \/ take_authorization(p) \/ ConfirmLock(p) \/ FinishLock(p)
        PROVE  [Promise!Next]_(Promise!vars)
    BY <2>3, EnteringImplements, LaunchImplements, RuntimeImplements, GoingImplements
  <2>4. CASE UNCHANGED vars
    BY <2>4 DEF vars, entryVars, compVars, Promise!vars
  <2>5. QED
    BY <2>1, <2>2, <2>3, <2>4 DEF Next
<1>2. QED
  BY <1>1, PromiseInit, Invariance, PTL DEF Spec, ImplementsScreenLock, Promise!Spec

-----------------------------------------------------------------------------
(* Least and largest numbers *)

Below == {p \in Nat \X Nat : p[1] < p[2]}

\* A set of natural numbers has a least one.
LEMMA LeastNatural ==
    ASSUME NEW S \in SUBSET Nat, S # {}
    PROVE  \E x \in S : \A y \in S : x <= y
<1>1. OpToRel(<, Nat) = Below
  BY Zenon DEF Below, OpToRel
<1>2. IsWellFoundedOn(Below, Nat)
  BY <1>1, NatLessThanWellFounded, Zenon
<1>3. PICK x \in S : \A y \in S : ~(<<y, x>> \in Below)
  BY <1>2, WFMin
<1>4. ASSUME NEW y \in S
      PROVE  x <= y
  <2>1. x \in Nat /\ y \in Nat /\ ~(<<y, x>> \in Below)
    BY <1>3
  <2>2. ~(y < x)
    BY <2>1 DEF Below
  <2>3. QED
    BY <2>1, <2>2
<1>5. QED
  BY <1>4

\* Min of natural numbers.
LEMMA MinOfNaturals ==
    ASSUME NEW S \in SUBSET Nat, S # {}
    PROVE  Monitor!Min(S) \in S
BY LeastNatural DEF Monitor!Min

\* Min of numbers that are bounded from below.
LEMMA MinOfBounded ==
    ASSUME NEW E \in Nat, NEW S \in SUBSET (-E .. E), S # {}
    PROVE  Monitor!Min(S) \in S /\ \A y \in S : Monitor!Min(S) <= y
<1> DEFINE T == {x + E : x \in S}
<1>1. T \in SUBSET Nat /\ T # {}
  <2>1. \A x \in S : x + E \in Nat
    OBVIOUS
  <2>2. QED
    BY <2>1
<1>2. PICK t \in T : \A y \in T : t <= y
  BY <1>1, LeastNatural
<1>3. PICK x \in S : t = x + E
  BY <1>2
<1>4. ASSUME NEW y \in S
      PROVE  x <= y
  <2>1. t <= y + E
    BY <1>2
  <2>2. QED
    BY <1>3, <2>1
<1>5. QED
  BY <1>4 DEF Monitor!Min

\* Max of numbers that are bounded from above.
LEMMA MaxOfBounded ==
    ASSUME NEW E \in Nat, NEW S \in SUBSET (-E .. E), S # {}
    PROVE  Monitor!Max(S) \in S /\ \A y \in S : y <= Monitor!Max(S)
<1> DEFINE T == {E - x : x \in S}
<1>1. T \in SUBSET Nat /\ T # {}
  <2>1. \A x \in S : E - x \in Nat
    OBVIOUS
  <2>2. QED
    BY <2>1
<1>2. PICK t \in T : \A y \in T : t <= y
  BY <1>1, LeastNatural
<1>3. PICK x \in S : t = E - x
  BY <1>2
<1>4. ASSUME NEW y \in S
      PROVE  y <= x
  <2>1. t <= E - y
    BY <1>2
  <2>2. QED
    BY <1>3, <2>1
<1>5. QED
  BY <1>4 DEF Monitor!Max

-----------------------------------------------------------------------------
(* Regions *)

\* A region is not empty and lies within its layout.
Placed(r) ==
    \A d \in 1 .. 2 :
        /\ r.at[d] \in Nat /\ r.size[d] \in Nat \ {0} /\ r.layout[d] \in Nat
        /\ r.at[d] + r.size[d] <= r.layout[d]

IsRegion(r) == r = Monitor!NoRegion \/ Placed(r)

\* Some output is selected, and only one that has an area (genkan_output_selection::select).
LEMMA SelectIsOutput ==
    ASSUME NEW L \in Layouts, Monitor!outputs(L) # {}
    PROVE  Monitor!select(L) \in Monitor!outputs(L)
<1> DEFINE Named(n) == {i \in Monitor!outputs(L) : L[i].name = n}
           Names    == {L[i].name : i \in Monitor!outputs(L)}
           External == Names \ {Unnamed, Internal}
<1>1. L \in Seq(Monitor!Output)
  BY MonitorIsSized DEF Monitor!MonitorAssumption
<1>2. Monitor!outputs(L) \subseteq DOMAIN L /\ DOMAIN L \subseteq Nat
  BY <1>1 DEF Monitor!outputs
<1>3. Monitor!outputs(L) \in SUBSET Nat /\ \A n : Named(n) \in SUBSET Nat
  BY <1>2
<1>4. \A n : Named(n) # {} => Monitor!Min(Named(n)) \in Named(n)
  BY <1>3, MinOfNaturals
<1>5. \A n : Named(n) # {} => Monitor!Min(Named(n)) \in Monitor!outputs(L)
  BY <1>4
<1>6. Monitor!Min(Monitor!outputs(L)) \in Monitor!outputs(L)
  BY <1>3, MinOfNaturals
<1>7. ASSUME External # {}
      PROVE  Named(Monitor!Min(External)) # {}
  <2>1. ASSUME NEW i \in DOMAIN L
        PROVE  L[i].name \in Nat
    <3>1. L[i] \in Monitor!Output
      BY <1>1
    <3>2. QED
      BY <3>1 DEF Monitor!Output
  <2>2. External \in SUBSET Nat
    BY <1>2, <2>1
  <2>3. Monitor!Min(External) \in External
    BY <1>7, <2>2, MinOfNaturals
  <2>4. QED
    BY <2>3
<1>8. QED
  BY <1>5, <1>6, <1>7 DEF Monitor!select

\* The sides of a layout enclose its outputs, in each dimension.
LEMMA SidesEnclose ==
    ASSUME NEW L \in Layouts, NEW k \in Monitor!outputs(L), NEW d \in 1 .. 2
    PROVE  /\ Monitor!Low(L, d) \in Int /\ Monitor!High(L, d) \in Int
           /\ L[k].position[d] \in Int /\ L[k].size[d] \in Nat \ {0}
           /\ Monitor!Low(L, d) <= L[k].position[d]
           /\ L[k].position[d] + L[k].size[d] <= Monitor!High(L, d)
<1> DEFINE Lows  == {L[i].position[d] : i \in Monitor!outputs(L)}
           Highs == {L[i].position[d] + L[i].size[d] : i \in Monitor!outputs(L)}
<1>1. L \in Seq(Monitor!Output) /\ Extent \in Nat
  BY MonitorIsSized DEF Monitor!MonitorAssumption
<1>2. ASSUME NEW i \in Monitor!outputs(L)
      PROVE  /\ L[i].position[d] \in -Extent .. Extent
             /\ L[i].size[d] \in 1 .. Extent
  <2>1. L[i] \in Monitor!Output
    BY <1>1 DEF Monitor!outputs
  <2>2. L[i].position[d] \in -Extent .. Extent /\ L[i].size[d] \in -Extent .. Extent
    <3>1. L[i].position \in Monitor!Pair /\ L[i].size \in Monitor!Pair
      BY <2>1 DEF Monitor!Output
    <3>2. \A p \in Monitor!Pair : p[d] \in -Extent .. Extent
      BY DEF Monitor!Pair
    <3>3. QED
      BY <3>1, <3>2
  <2>3. L[i].size[d] > 0
    BY DEF Monitor!outputs
  <2>4. QED
    BY <1>1, <2>2, <2>3
<1>3. Lows \in SUBSET (-Extent .. Extent) /\ Lows # {}
  BY <1>2
<1>4. Monitor!Min(Lows) \in Lows /\ \A y \in Lows : Monitor!Min(Lows) <= y
  BY <1>1, <1>3, MinOfBounded
<1>5. Highs \in SUBSET (-(Extent + Extent) .. Extent + Extent) /\ Highs # {}
  BY <1>1, <1>2
<1>6. Monitor!Max(Highs) \in Highs /\ \A y \in Highs : y <= Monitor!Max(Highs)
  <2>1. Extent + Extent \in Nat
    BY <1>1
  <2>2. QED
    BY <1>5, <2>1, MaxOfBounded
<1>7. Monitor!Low(L, d) = Monitor!Min(Lows) /\ Monitor!High(L, d) = Monitor!Max(Highs)
  BY DEF Monitor!Low, Monitor!High
<1>8. /\ Monitor!Low(L, d) \in Int /\ Monitor!High(L, d) \in Int
  BY <1>1, <1>3, <1>4, <1>5, <1>6, <1>7
<1>9. L[k].position[d] \in Lows /\ L[k].position[d] + L[k].size[d] \in Highs
  OBVIOUS
<1>10. L[k].position[d] \in Int /\ L[k].size[d] \in Nat \ {0}
  BY <1>1, <1>2
<1>11. Monitor!Low(L, d) <= L[k].position[d]
  BY <1>4, <1>7, <1>9
<1>12. L[k].position[d] + L[k].size[d] <= Monitor!High(L, d)
  BY <1>6, <1>7, <1>9
<1>13. QED
  BY <1>8, <1>10, <1>11, <1>12

\* What is selected of a layout lies within it (select_region).
LEMMA SelectedIsPlaced ==
    ASSUME NEW L \in Layouts
    PROVE  IsRegion(Monitor!select_region(L))
<1>1. CASE Monitor!outputs(L) = {}
  BY <1>1 DEF Monitor!select_region, IsRegion
<1>2. CASE Monitor!outputs(L) # {}
  <2> DEFINE k == Monitor!select(L)
             r == Monitor!select_region(L)
  <2>1. k \in Monitor!outputs(L)
    BY <1>2, SelectIsOutput
  <2>2. \A d \in 1 .. 2 :
          /\ r.at[d] = L[k].position[d] - Monitor!Low(L, d) /\ r.size[d] = L[k].size[d]
          /\ r.layout[d] = Monitor!High(L, d) - Monitor!Low(L, d)
    BY <1>2 DEF Monitor!select_region
  <2>3. ASSUME NEW d \in 1 .. 2
        PROVE  /\ r.at[d] \in Nat /\ r.size[d] \in Nat \ {0} /\ r.layout[d] \in Nat
               /\ r.at[d] + r.size[d] <= r.layout[d]
    <3>1. /\ Monitor!Low(L, d) \in Int /\ Monitor!High(L, d) \in Int
          /\ L[k].position[d] \in Int /\ L[k].size[d] \in Nat \ {0}
          /\ Monitor!Low(L, d) <= L[k].position[d]
          /\ L[k].position[d] + L[k].size[d] <= Monitor!High(L, d)
      BY <2>1, SidesEnclose
    <3>2. QED
      BY <2>2, <3>1
  <2>4. QED
    BY <2>3 DEF IsRegion, Placed
<1>3. QED
  BY <1>1, <1>2

\* Two parts of a length, each scaled and rounded down, fit in what the length is scaled to.
LEMMA ScaledFits ==
    ASSUME NEW a \in Nat, NEW s \in Nat, NEW l \in Nat \ {0}, NEW w \in Nat, a + s <= l
    PROVE  /\ (a * w) \div l >= 0
           /\ (a * w) \div l + (s * w) \div l <= w
<1> DEFINE p == (a * w) \div l
           q == (s * w) \div l
<1>1. a * w \in Nat /\ s * w \in Nat /\ l * w \in Nat
  OBVIOUS
<1>2. p \in Nat /\ q \in Nat /\ l * p <= a * w /\ l * q <= s * w
  BY <1>1
<1>3. (a + s) * w <= l * w
  OBVIOUS
<1>4. l * (p + q) <= l * w
  <2>1. l * (p + q) = l * p + l * q /\ (a + s) * w = a * w + s * w
    BY <1>2
  <2>2. QED
    BY <1>1, <1>2, <1>3, <2>1
<1>5. p + q <= w
  BY <1>2, <1>4
<1>6. QED
  BY <1>2, <1>5

\* What is placed in a layout is placed in every window (scale_to).
LEMMA PlacedFitsWindow ==
    ASSUME NEW r, IsRegion(r), NEW w \in Windows, NEW d \in 1 .. 2
    PROVE  LET full == Monitor!authentication_region_or_full(r, w)
               s    == Monitor!scale_to(full, w) IN
           /\ s.at[d] >= 0 /\ s.at[d] + s.size[d] <= w[d]
           /\ full.size[d] > 0
<1> DEFINE full == Monitor!authentication_region_or_full(r, w)
           s    == Monitor!scale_to(full, w)
<1>1. w \in (Nat \ {0}) \X (Nat \ {0})
  BY MonitorIsSized DEF Monitor!MonitorAssumption
<1>2. w[d] \in Nat \ {0}
  BY <1>1
<1>3. /\ full.at[d] \in Nat /\ full.size[d] \in Nat \ {0} /\ full.layout[d] \in Nat
      /\ full.at[d] + full.size[d] <= full.layout[d]
  BY <1>2 DEF Monitor!authentication_region_or_full, IsRegion, Placed
<1>4. s.at[d] = (full.at[d] * w[d]) \div full.layout[d]
  BY DEF Monitor!scale_to
<1>5. s.size[d] = (full.size[d] * w[d]) \div full.layout[d]
  BY DEF Monitor!scale_to
<1>6. full.layout[d] \in Nat \ {0}
  BY <1>3
<1>7. /\ (full.at[d] * w[d]) \div full.layout[d] >= 0
      /\ (full.at[d] * w[d]) \div full.layout[d]
           + (full.size[d] * w[d]) \div full.layout[d] <= w[d]
  BY <1>2, <1>3, <1>6, ScaledFits
<1>8. full.size[d] > 0
  BY <1>3
<1>9. QED
  BY <1>4, <1>5, <1>7, <1>8

-----------------------------------------------------------------------------
(* The inductive invariant.  The variables of OutputMonitor are v1, layout, *)
(* v2, wire, v3, queue, v4, known, v7, region, v8, version, v9, seen, v10,  *)
(* messages, v11, shown, v12, started, and v14, changes.                    *)

\* What is published is selected from what the thread knows.
RegionInv == v7 = Monitor!select_region(v4) /\ IsRegion(v11)

\* A publication takes a layout that was announced.
VersionInv == v8 + Len(v2) + Len(v3) <= v14

\* Messages are of versions that the subscription has seen; before it starts, App has the
\* region unless there has been a version since the first.
SeenInv ==
    /\ v9 = -1 => v10 = 0 /\ (v11 = v7 \/ v8 > 0)
    /\ v9 >= 0 => v10 <= v9
    /\ ~v12 => v9 = 0 /\ v10 = 0

MonitorInv ==
    /\ Monitor!TypeOK /\ RegionInv /\ VersionInv /\ SeenInv
    /\ Monitor!StaleRegionIsSignalled

\* The numbers and sequences of the monitor, as arithmetic needs them.
LEMMA MonitorTypes ==
    ASSUME MonitorInv
    PROVE  /\ v2 \in Seq(Layouts) /\ v3 \in Seq(Layouts) /\ v4 \in Layouts
           /\ v8 \in Nat /\ v9 \in Int /\ v9 >= -1 /\ v9 <= v8 /\ v10 \in Nat /\ v14 \in Nat
           /\ MaxChanges \in Nat /\ v14 <= MaxChanges /\ v10 <= v8
           /\ Len(v2) \in Nat /\ Len(v3) \in Nat
BY MonitorIsSized DEF MonitorInv, Monitor!TypeOK, Monitor!MonitorAssumption

\* The thread takes the layouts that it has read and publishes the last (monitor_outputs).
LEMMA DispatchKeeps ==
    ASSUME MonitorInv, Monitor!Dispatch
    PROVE  MonitorInv'
<1> DEFINE now == IF v3 = << >> THEN v4 ELSE Monitor!Last(v3)
<1>1. /\ v4' = now /\ v3' = << >> /\ v5' = FALSE /\ v6' \in {"poll", "ended"}
      /\ UNCHANGED <<v1, v2, v9, v10, v11, v12, v13, v14>>
  BY DEF Monitor!Dispatch, Monitor!appVars
<1>2. /\ v2 \in Seq(Layouts) /\ v3 \in Seq(Layouts) /\ v4 \in Layouts
      /\ v8 \in Nat /\ v9 \in Int /\ v9 >= -1 /\ v9 <= v8 /\ v10 \in Nat /\ v14 \in Nat
      /\ MaxChanges \in Nat /\ v14 <= MaxChanges /\ v10 <= v8
      /\ Len(v2) \in Nat /\ Len(v3) \in Nat
  BY MonitorTypes
<1>3. now \in Layouts /\ (v3 # << >> => Len(v3) >= 1)
  BY <1>2 DEF Monitor!Last
<1>4. v7' = Monitor!select_region(now)
  BY <1>1 DEF Monitor!Dispatch, Monitor!publish_region, Monitor!flagged, Monitor!channelVars,
              MonitorInv, RegionInv
<1>5. v8' = IF v7' = v7 THEN v8 ELSE v8 + 1
  BY <1>4 DEF Monitor!Dispatch, Monitor!publish_region, Monitor!channelVars
<1>6. v7' # v7 => v3 # << >>
  BY <1>1, <1>4 DEF MonitorInv, RegionInv
<1>7. Len(v3') = 0 /\ v3' \in Seq(Layouts)
  BY <1>1
<1>8. v8' \in Nat /\ v8' + Len(v2') + Len(v3') <= v14'
  BY <1>1, <1>2, <1>3, <1>5, <1>6, <1>7 DEF MonitorInv, VersionInv
<1>9. Monitor!TypeOK'
  <2>1. v8' \in 0 .. MaxChanges /\ v9' \in -1 .. v8' /\ v10' \in 0 .. v8'
    BY <1>1, <1>2, <1>5, <1>7, <1>8
  <2>2. v1' \in Layouts /\ v4' \in Layouts /\ v2' \in Seq(Layouts) /\ v5' \in BOOLEAN
    BY <1>1, <1>2, <1>3 DEF MonitorInv, Monitor!TypeOK
  <2>3. /\ v6' \in {"dispatch", "poll", "ended"} /\ v12' \in BOOLEAN
        /\ v13' \in {"no", "asked", "joined"} /\ v14' \in 0 .. MaxChanges
    BY <1>1 DEF MonitorInv, Monitor!TypeOK
  <2>4. QED
    BY <1>7, <2>1, <2>2, <2>3 DEF Monitor!TypeOK
<1>10. RegionInv' /\ VersionInv'
  BY <1>1, <1>4, <1>8 DEF MonitorInv, RegionInv, VersionInv
<1>11. SeenInv'
  BY <1>1, <1>2, <1>5 DEF MonitorInv, SeenInv
<1>12. Monitor!StaleRegionIsSignalled'
  BY <1>1, <1>2, <1>5 DEF MonitorInv, Monitor!StaleRegionIsSignalled
<1>13. QED
  BY <1>9, <1>10, <1>11, <1>12 DEF MonitorInv

\* The thread reads what was announced, or ends.
LEMMA PollKeeps ==
    ASSUME MonitorInv, Monitor!Poll \/ Monitor!Lost
    PROVE  MonitorInv'
<1>1. /\ UNCHANGED <<v1, v4, v5, v7, v8, v9, v10, v11, v12, v13, v14>>
      /\ v6' \in {"dispatch", "poll", "ended"}
      /\ \/ v3' = v3 \o v2 /\ v2' = << >>
         \/ UNCHANGED <<v2, v3>>
  BY DEF Monitor!Poll, Monitor!Lost, Monitor!channelVars, Monitor!appVars
<1>2. v2 \in Seq(Layouts) /\ v3 \in Seq(Layouts)
  BY MonitorTypes
<1>3. v2' \in Seq(Layouts) /\ v3' \in Seq(Layouts) /\ Len(v2') + Len(v3') = Len(v2) + Len(v3)
  <2>1. CASE v3' = v3 \o v2 /\ v2' = << >>
    <3>1. v2' \in Seq(Layouts) /\ Len(v2') = 0
      BY <2>1
    <3>2. v3' \in Seq(Layouts) /\ Len(v3') = Len(v3) + Len(v2)
      BY <1>2, <2>1
    <3>3. QED
      BY <1>2, <3>1, <3>2
  <2>2. QED
    BY <1>1, <1>2, <2>1
<1>4. Monitor!TypeOK'
  BY <1>1, <1>3 DEF MonitorInv, Monitor!TypeOK
<1>5. VersionInv'
  BY <1>1, <1>2, <1>3, MonitorTypes DEF MonitorInv, VersionInv
<1>6. RegionInv' /\ SeenInv' /\ Monitor!StaleRegionIsSignalled'
  BY <1>1 DEF MonitorInv, RegionInv, SeenInv, Monitor!StaleRegionIsSignalled
<1>7. QED
  BY <1>4, <1>5, <1>6 DEF MonitorInv

\* The compositor announces another layout.
LEMMA ChangeKeeps ==
    ASSUME MonitorInv, Monitor!Change
    PROVE  MonitorInv'
<1>1. /\ v14 < MaxChanges /\ v14' = v14 + 1
      /\ UNCHANGED <<v3, v4, v5, v6, v7, v8, v9, v10, v11, v12, v13>>
  BY DEF Monitor!Change, Monitor!threadVars, Monitor!channelVars, Monitor!appVars
<1>2. PICK L \in Layouts : v1' = L /\ v2' = Append(v2, L)
  BY DEF Monitor!Change
<1>3. v2' \in Seq(Layouts) /\ Len(v2') = Len(v2) + 1
  BY <1>2, MonitorTypes
<1>4. Monitor!TypeOK'
  BY <1>1, <1>2, <1>3, MonitorTypes DEF MonitorInv, Monitor!TypeOK
<1>5. VersionInv'
  BY <1>1, <1>3, MonitorTypes DEF MonitorInv, VersionInv
<1>6. RegionInv' /\ SeenInv' /\ Monitor!StaleRegionIsSignalled'
  BY <1>1 DEF MonitorInv, RegionInv, SeenInv, Monitor!StaleRegionIsSignalled
<1>7. QED
  BY <1>4, <1>5, <1>6 DEF MonitorInv

\* App is made and reads the region; the subscription starts later, and has seen the channel
\* as it was made (App::new, subscription).
LEMMA SubscribeKeeps ==
    ASSUME MonitorInv, Monitor!Start \/ Monitor!Subscribe
    PROVE  MonitorInv'
<1>1. UNCHANGED <<v1, v2, v3, v4, v5, v6, v7, v8, v10, v13, v14>>
  BY DEF Monitor!Start, Monitor!Subscribe, Monitor!threadVars, Monitor!channelVars
<1>2. RegionInv' /\ VersionInv'
  <2>1. IsRegion(v7)
    BY MonitorTypes, SelectedIsPlaced DEF MonitorInv, RegionInv
  <2>2. QED
    BY <1>1, <2>1 DEF MonitorInv, RegionInv, VersionInv, Monitor!Start, Monitor!Subscribe
<1>3. Monitor!TypeOK'
  <2>1. v9' \in {-1, 0} /\ v12' = TRUE
    BY DEF MonitorInv, Monitor!TypeOK, Monitor!Start, Monitor!Subscribe, Monitor!Subscribed
  <2>2. v9' \in -1 .. v8' /\ v12' \in BOOLEAN
    BY <1>1, <2>1, MonitorTypes
  <2>3. QED
    BY <1>1, <2>2 DEF MonitorInv, Monitor!TypeOK
<1>4. SeenInv' /\ Monitor!StaleRegionIsSignalled'
  BY <1>1, MonitorTypes DEF MonitorInv, SeenInv, Monitor!StaleRegionIsSignalled,
                            Monitor!Start, Monitor!Subscribe, Monitor!Subscribed
<1>5. QED
  BY <1>2, <1>3, <1>4 DEF MonitorInv

\* The subscription sees a version, and App reads the region (OutputLayoutChanged).
LEMMA AppKeeps ==
    ASSUME MonitorInv, Monitor!Changed \/ Monitor!OutputLayoutChanged
    PROVE  MonitorInv'
<1>1. UNCHANGED <<v1, v2, v3, v4, v5, v6, v7, v8, v12, v13, v14>>
  BY DEF Monitor!Changed, Monitor!OutputLayoutChanged, Monitor!threadVars,
         Monitor!channelVars
<1>2. RegionInv' /\ VersionInv'
  <2>1. IsRegion(v7)
    BY MonitorTypes, SelectedIsPlaced DEF MonitorInv, RegionInv
  <2>2. QED
    BY <1>1, <2>1 DEF MonitorInv, RegionInv, VersionInv, Monitor!Changed,
                      Monitor!OutputLayoutChanged
<1>3. Monitor!TypeOK'
  BY <1>1, MonitorTypes DEF MonitorInv, SeenInv, Monitor!TypeOK, Monitor!Changed,
                            Monitor!OutputLayoutChanged
<1>4. SeenInv' /\ Monitor!StaleRegionIsSignalled'
  BY <1>1, MonitorTypes DEF MonitorInv, SeenInv, Monitor!StaleRegionIsSignalled,
                            Monitor!Changed, Monitor!OutputLayoutChanged
<1>5. QED
  BY <1>2, <1>3, <1>4 DEF MonitorInv

\* Worker is dropped.
LEMMA DropKeeps ==
    ASSUME MonitorInv, Monitor!Drop \/ Monitor!Joined
    PROVE  MonitorInv'
<1>1. /\ UNCHANGED <<v1, v2, v3, v4, v5, v6, v7, v8, v9, v10, v11, v12, v14>>
      /\ v13' \in {"asked", "joined"}
  BY DEF Monitor!Drop, Monitor!Joined, Monitor!threadVars, Monitor!channelVars,
         Monitor!appVars
<1>2. QED
  BY <1>1 DEF MonitorInv, Monitor!TypeOK, RegionInv, VersionInv, SeenInv,
              Monitor!StaleRegionIsSignalled

LEMMA MonitorInit == Monitor!Init => MonitorInv
<1> SUFFICES ASSUME Monitor!Init PROVE MonitorInv
  OBVIOUS
<1>1. Monitor!TypeOK /\ VersionInv
  <2>1. << >> \in Seq(Layouts) /\ Len(<< >>) = 0 /\ MaxChanges \in Nat
    BY MonitorIsSized DEF Monitor!MonitorAssumption
  <2>2. /\ v2 = << >> /\ v3 = << >> /\ v8 = 0 /\ v9 = 0 /\ v10 = 0 /\ v14 = 0
        /\ v1 \in Layouts /\ v4 \in Layouts /\ v5 \in BOOLEAN /\ v12 \in BOOLEAN
        /\ v6 = "dispatch" /\ v13 = "no"
    BY DEF Monitor!Init
  <2>3. v8 \in 0 .. MaxChanges /\ v9 \in -1 .. v8 /\ v10 \in 0 .. v8 /\ v14 \in 0 .. MaxChanges
    BY <2>1, <2>2
  <2>4. Monitor!TypeOK
    BY <2>1, <2>2, <2>3 DEF Monitor!TypeOK
  <2>5. QED
    BY <2>1, <2>2, <2>4 DEF VersionInv
<1>2. RegionInv /\ SeenInv /\ Monitor!StaleRegionIsSignalled
  BY DEF Monitor!Init, RegionInv, IsRegion, SeenInv, Monitor!StaleRegionIsSignalled
<1>3. QED
  BY <1>1, <1>2 DEF MonitorInv

\* Every step of the monitor keeps its invariant, and a step of another part leaves it.
LEMMA StepKeepsInv ==
    ASSUME MonitorInv, part = "monitor", [MCNext]_mcVars
    PROVE  MonitorInv'
<1>1. CASE Monitor!Next
  BY <1>1, DispatchKeeps, PollKeeps, ChangeKeeps, SubscribeKeeps, AppKeeps, DropKeeps
     DEF Monitor!Next, Monitor!Thread, Monitor!App
<1>2. CASE UNCHANGED monitorVars
  BY <1>2 DEF monitorVars, MonitorInv, Monitor!TypeOK, RegionInv, VersionInv, SeenInv,
              Monitor!StaleRegionIsSignalled
<1>3. Monitor!Next \/ UNCHANGED monitorVars
  BY DEF MCNext, mcVars
<1>4. QED
  BY <1>1, <1>2, <1>3

-----------------------------------------------------------------------------
(* Theorems *)

\* The output monitor of the greeter keeps its invariant: the region is that of the layout
\* the thread knows, and versions, what has been seen of them, and messages count up together
\* (src/outputs.rs).
THEOREM MonitorInvariance == MCSpec => [](part = "monitor" => MonitorInv)
<1>1. MCInit => (part = "monitor" => MonitorInv)
  BY MonitorInit DEF MCInit
<1>2. (part = "monitor" => MonitorInv) /\ [MCNext]_mcVars
        => (part = "monitor" => MonitorInv)'
  <2>1. SUFFICES ASSUME part = "monitor" => MonitorInv, [MCNext]_mcVars, part' = "monitor"
                 PROVE  MonitorInv'
    OBVIOUS
  <2>2. part = "monitor"
    BY <2>1 DEF MCNext, mcVars
  <2>3. QED
    BY <2>1, <2>2, StepKeepsInv
<1>3. QED
  BY <1>1, <1>2, PTL DEF MCSpec

\* Authentication is presented within the window, whatever the layouts and the windows, and a
\* region App does not know of yet is one it will be told of (Region::scale_to, publish_region,
\* subscription).
THEOREM OnScreen == MCSpec => []RegionIsOnScreen
<1>1. (part = "monitor" => MonitorInv) => RegionIsOnScreen
  <2>1. SUFFICES ASSUME MonitorInv
                 PROVE  Monitor!ShownRegionIsOnScreen
    BY DEF MonitorInv, RegionIsOnScreen
  <2>2. IsRegion(v11)
    BY <2>1 DEF MonitorInv, RegionInv
  <2>3. QED
    BY <2>2, PlacedFitsWindow DEF Monitor!ShownRegionIsOnScreen
<1>2. QED
  BY <1>1, MonitorInvariance, PTL
=============================================================================
