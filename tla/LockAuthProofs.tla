--------------------------- MODULE LockAuthProofs ---------------------------
(***************************************************************************)
(* Proofs about LockAuth, and about what it takes as given of the worker   *)
(* (MCLockAuth): of PAM, here, and of the channel in WorkerChannelProofs.  *)
(*                                                                         *)
(* The argument is a turn-taking discipline.  While the worker lives,      *)
(* exactly one of the parties has the turn: the worker (it runs PAM), the  *)
(* link (a prompt or a failure is on its way up, behind notices only), the *)
(* user, or the link again (a response or a retry is on its way down).     *)
(* The inductive invariant TurnInv says where the turn is for each place   *)
(* the worker can be in.  Everything else follows: an answer finds the     *)
(* prompt it was typed for, a success finds the attempt it was granted to. *)
(*                                                                         *)
(* In a transaction with PAM the list of responses is in one of three      *)
(* hands, and which one follows from where the transaction is.  While the  *)
(* guard has it, the messages before index have been dealt with and nothing*)
(* is allocated for the others, so that a failure at any message frees     *)
(* exactly what there is.                                                  *)
(***************************************************************************)
EXTENDS MCLockAuth, SequenceTheorems, TLAPS

\* Only notices: nothing that changes whose turn it is.
Quiet(s)    == \A i \in 1 .. Len(s) : s[i] = Notice
QuietReader == reader.pc = "reading" \/ (reader.pc = "sending" /\ reader.held = Notice)
Silent      == Quiet(events) /\ QuietReader /\ Quiet(toLocker)
Drained     == events = <<>> /\ reader.pc = "reading" /\ toLocker = <<>>

\* m is the last element of s, behind notices only.
EndsWith(s, m) ==
    /\ Len(s) > 0 /\ s[Len(s)] = m
    /\ \A i \in 1 .. Len(s) - 1 : s[i] = Notice

\* m travels from the worker to the UI thread.
Carried(m) ==
    \/ Quiet(events) /\ QuietReader /\ EndsWith(toLocker, m)
    \/ Quiet(events) /\ reader = [pc |-> "sending", held |-> m] /\ toLocker = <<>>
    \/ EndsWith(events, m) /\ reader.pc = "reading" /\ toLocker = <<>>

\* The prompt the worker sent last.
LastPrompt == [kind |-> "Prompt", txn |-> txn, id |-> nextId - 1]

AwaitBegin ==
    worker = "await_begin" =>
        /\ Silent /\ status = "Submitting"
        /\ \/ ~confirmed /\ toWorker = <<>>
           \/ confirmed /\ toWorker = <<[kind |-> "Begin", attempt |-> attempt]>>

InPam ==
    worker = "pam" =>
        /\ Silent /\ status = "Submitting" /\ toWorker = <<>> /\ confirmed
        /\ serving = attempt

AwaitResponse ==
    worker = "await_response" =>
        /\ serving = attempt /\ confirmed
        /\ \/ Carried(LastPrompt) /\ status = "Submitting" /\ toWorker = <<>>
           \/ /\ Drained /\ status = "Waiting" /\ toWorker = <<>>
              /\ promptId = nextId - 1 /\ shown = <<txn, promptId>>
           \/ /\ Drained /\ status = "Submitting" /\ Len(toWorker) = 1
              /\ toWorker[1].kind = "Response"
              /\ toWorker[1].typed \subseteq {<<txn, nextId - 1>>}

AwaitRetry ==
    worker = "await_retry" =>
        /\ confirmed
        /\ \/ Carried(Failure) /\ status = "Submitting" /\ toWorker = <<>>
           \/ Drained /\ status = "Failed" /\ toWorker = <<>>
           \/ /\ Drained /\ status = "Submitting"
              /\ toWorker = <<[kind |-> "Retry", attempt |-> attempt]>>

Exiting ==
    worker = "exiting" =>
        /\ Quiet(events) /\ status = "Submitting" /\ toWorker = <<>>
        /\ confirmed /\ granted /\ serving = attempt
        /\ \/ QuietReader /\ EndsWith(toLocker, Success)
           \/ reader.pc = "reaping" /\ toLocker = <<>>

\* A live worker belongs to the current client, whose UI thread dispatches.
LiveInv ==
    worker # "exited" =>
        client.present /\ ~dropped /\ ~shut /\ ~authorized /\ ~unlocked

TurnInv == AwaitBegin /\ InPam /\ AwaitResponse /\ AwaitRetry /\ Exiting

ClientInv ==
    /\ client.present => ui = "dispatch" /\ client.attempt = attempt
    /\ ui # "dispatch" => confirmed /\ status = "Submitting" /\ ~authorized /\ ~unlocked

\* A success that travels was granted; past the reap its worker exited cleanly.
GrantInv ==
    /\ granted => worker \in {"exiting", "exited"}
    /\ granted /\ client.present => serving = attempt
    /\ \A i \in 1 .. Len(toLocker) : toLocker[i] = Success => granted
    /\ reader.pc = "reaping" => granted
    /\ reader.pc = "sending" => reader.held # Success
    /\ reader.pc = "sendLast" /\ reader.held = Success => granted /\ clean
    /\ \A i \in 1 .. Len(events) : events[i] = Success => granted /\ clean
    /\ clean => worker = "exited"

InputInv ==
    /\ status = "Waiting" => input \subseteq {shown}
    /\ ResponseReachesItsPrompt

CoreInv ==
    /\ LiveInv /\ TurnInv /\ ClientInv /\ GrantInv /\ InputInv
    /\ AuthorizedByCurrentAttempt

\* The inductive invariant.
Inv == TypeOK /\ CoreInv

-----------------------------------------------------------------------------
(* Types *)

\* The events a worker can send are events.
LEMMA EventTypes ==
    /\ Notice \in Event /\ Success \in Event /\ Failure \in Event
    /\ \A t, i \in Nat : [kind |-> "Prompt", txn |-> t, id |-> i] \in Event
    /\ \A e \in Event : e.kind = "Prompt" => e.txn \in Nat /\ e.id \in Nat
BY DEF Event, Prompt, Notice, Success, Failure

\* The messages the locker sends to its worker are requests.
LEMMA RequestTypes ==
    /\ \A a \in Nat : [kind |-> "Begin", attempt |-> a] \in Request
    /\ \A a \in Nat : [kind |-> "Retry", attempt |-> a] \in Request
    /\ \A i \in Nat, t \in SUBSET Origin :
           [kind |-> "Response", id |-> i, typed |-> t] \in Request
    /\ \A r \in Request :
           /\ r.kind \in {"Begin", "Retry"} => r.attempt \in Nat
           /\ r.kind = "Response" => r.id \in Nat /\ r.typed \in SUBSET Origin
BY DEF Request

\* A prompt on display, or none, is an origin of keystrokes.
LEMMA OriginTypes == NoPrompt \in Origin /\ \A t, i \in Nat : <<t, i>> \in Origin
BY DEF NoPrompt, Origin

\* The locker starts with well-typed state (LockerPresentation::new).
LEMMA TypeInit == Init => TypeOK
<1> SUFFICES ASSUME Init PROVE TypeOK
  OBVIOUS
<1>1. reader \in [pc : ReaderPcs, held : Event]
  BY EventTypes DEF Init, Reading, ReaderPcs
<1>2. shown \in Origin /\ handed \in [prompt : Origin, typed : SUBSET Origin]
  BY OriginTypes DEF Init
<1>3. client \in [present : BOOLEAN, attempt : Nat]
  BY DEF Init, Holding
<1>4. events \in Seq(Event) /\ Len(events) <= EventCapacity
  BY CapacityAssumption DEF Init
<1>5. toLocker \in Seq(Event) /\ toWorker \in Seq(Request) /\ input \in SUBSET Origin
  BY DEF Init
<1>6. nextId \in 1 .. MaxPrompts + 1
  BY CapacityAssumption DEF Init
<1>7. QED
  BY <1>1, <1>2, <1>3, <1>4, <1>5, <1>6
     DEF Init, TypeOK, Statuses, UiStates, WorkerPcs

\* Every step keeps the types, the event channel within its capacity and the
\* prompt ids within MAX_MESSAGES.
LEMMA TypeStep == TypeOK /\ [Next]_vars => TypeOK'
<1> SUFFICES ASSUME TypeOK, [Next]_vars PROVE TypeOK'
  OBVIOUS
<1> USE DEF uiVars, convVars, linkVars, workerVars, txnVars, exitVars
<1>1. CASE lock_confirmed
  <2>1. [kind |-> "Begin", attempt |-> attempt] \in Request
    BY RequestTypes DEF TypeOK
  <2>2. toWorker' \in Seq(Request)
    <3>1. \/ toWorker' = toWorker
          \/ toWorker' = Append(toWorker, [kind |-> "Begin", attempt |-> attempt])
      BY <1>1 DEF lock_confirmed
    <3>2. toWorker \in Seq(Request)
      BY DEF TypeOK
    <3>3. QED
      BY <2>1, <3>1, <3>2
  <2>3. status' \in Statuses /\ attempt' \in Nat /\ input' \in SUBSET Origin
    BY <1>1 DEF TypeOK, lock_confirmed, Statuses, clear_response, fail
  <2>4. QED
    BY <1>1, <2>1, <2>2, <2>3 DEF TypeOK, lock_confirmed
<1>2. CASE receive_auth
  <2>1. events' \in Seq(Event) /\ Len(events') <= EventCapacity
    <3>1. events # <<>> /\ events' = Tail(events)
      BY <1>2 DEF receive_auth
    <3>2. QED
      BY <3>1, CapacityAssumption DEF TypeOK
  <2>2. status' \in Statuses /\ attempt' \in Nat /\ input' \in SUBSET Origin
    BY <1>2 DEF TypeOK, receive_auth, Statuses, clear_response, fail
  <2>3. promptId' \in Nat /\ shown' \in Origin
    BY <1>2, EventTypes, OriginTypes DEF TypeOK, receive_auth
  <2>4. QED
    BY <1>2, <2>1, <2>2, <2>3 DEF TypeOK, receive_auth
<1>3. CASE take_authorization
  BY <1>3 DEF TypeOK, take_authorization
<1>4. CASE push_input
  BY <1>4 DEF TypeOK, push_input
<1>5. CASE pop_input
  BY <1>5 DEF TypeOK, pop_input
<1>6. CASE Answer
  <2>1. [kind |-> "Response", id |-> promptId, typed |-> input] \in Request
    BY RequestTypes DEF TypeOK
  <2>2. toWorker' \in Seq(Request)
    <3>1. \/ toWorker' = toWorker
          \/ toWorker' = Append(toWorker, [kind |-> "Response", id |-> promptId,
                                           typed |-> input])
      BY <1>6 DEF Answer
    <3>2. toWorker \in Seq(Request)
      BY DEF TypeOK
    <3>3. QED
      BY <2>1, <3>1, <3>2
  <2>3. status' \in Statuses /\ attempt' \in Nat /\ input' \in SUBSET Origin
    BY <1>6 DEF TypeOK, Answer, submit, Statuses, clear_response, fail
  <2>4. QED
    BY <1>6, <2>1, <2>2, <2>3 DEF TypeOK, Answer
<1>7. CASE retry
  <2>1. status' \in Statuses /\ attempt' \in Nat /\ input' \in SUBSET Origin
    BY <1>7 DEF TypeOK, retry, begin_attempt, clear_response, Statuses
  <2>2. [kind |-> "Retry", attempt |-> attempt'] \in Request
    BY <2>1, RequestTypes
  <2>3. toWorker' \in Seq(Request)
    <3>1. \/ toWorker' = toWorker
          \/ toWorker' = Append(toWorker, [kind |-> "Retry", attempt |-> attempt'])
      BY <1>7 DEF retry
    <3>2. toWorker \in Seq(Request)
      BY DEF TypeOK
    <3>3. QED
      BY <2>2, <3>1, <3>2
  <2>4. client' \in [present : BOOLEAN, attempt : Nat]
    <3>1. client' \in {client, NoClient, Holding(attempt')}
      BY <1>7 DEF retry, BeginCancel, AdoptAttempt
    <3>2. /\ NoClient \in [present : BOOLEAN, attempt : Nat]
          /\ Holding(attempt') \in [present : BOOLEAN, attempt : Nat]
      BY <2>1 DEF Holding, NoClient
    <3>3. QED
      BY <3>1, <3>2 DEF TypeOK
  <2>5. shown' \in Origin /\ ui' \in UiStates
    BY <1>7, OriginTypes DEF TypeOK, retry, BeginCancel, UiStates
  <2>6. QED
    BY <1>7, <2>1, <2>2, <2>3, <2>4, <2>5 DEF TypeOK, retry, BeginCancel,
       DropReceiver, KillWorker, WorkerPcs
<1>8. CASE cancel_attempt
  <2>1. status' \in Statuses /\ attempt' \in Nat /\ input' \in SUBSET Origin
    BY <1>8 DEF TypeOK, cancel_attempt, begin_attempt, clear_response, Statuses
  <2>2. client' \in [present : BOOLEAN, attempt : Nat]
    BY <1>8 DEF TypeOK, cancel_attempt, BeginCancel, NoClient
  <2>3. shown' \in Origin /\ ui' \in UiStates
    BY <1>8, OriginTypes DEF TypeOK, cancel_attempt, BeginCancel, UiStates
  <2>4. QED
    BY <1>8, <2>1, <2>2, <2>3 DEF TypeOK, cancel_attempt, BeginCancel, DropReceiver,
       KillWorker, WorkerPcs
<1>9. CASE join
  BY <1>9 DEF TypeOK, join, UiStates
<1>10. CASE StartWorker
  <2>1. toWorker' \in Seq(Request)
    BY <1>10, RequestTypes DEF TypeOK, StartWorker
  <2>2. reader' \in [pc : ReaderPcs, held : Event]
    BY <1>10, EventTypes DEF StartWorker, Reading, ReaderPcs
  <2>3. events' \in Seq(Event) /\ Len(events') <= EventCapacity
    BY <1>10, CapacityAssumption DEF StartWorker
  <2>4. client' \in [present : BOOLEAN, attempt : Nat]
    BY <1>10 DEF TypeOK, StartWorker, Holding
  <2>5. nextId' \in 1 .. MaxPrompts + 1
    BY <1>10, CapacityAssumption DEF StartWorker
  <2>6. QED
    BY <1>10, <2>1, <2>2, <2>3, <2>4, <2>5 DEF TypeOK, StartWorker, UiStates,
       WorkerPcs
<1>11. CASE StartWorkerFails
  <2>1. status' \in Statuses /\ attempt' \in Nat /\ input' \in SUBSET Origin
    BY <1>11 DEF TypeOK, StartWorkerFails, Statuses, clear_response, fail
  <2>2. QED
    BY <1>11, <2>1 DEF TypeOK, StartWorkerFails, UiStates
<1>12. CASE ReaderReceive
  <2>1. toLocker' \in Seq(Event)
    BY <1>12 DEF TypeOK, ReaderReceive
  <2>2. reader' \in [pc : ReaderPcs, held : Event]
    BY <1>12 DEF TypeOK, ReaderReceive, ReaderPcs
  <2>3. QED
    BY <1>12, <2>1, <2>2 DEF TypeOK, ReaderReceive
<1>13. CASE ReaderBreak
  <2>1. reader' \in [pc : ReaderPcs, held : Event]
    BY <1>13, EventTypes DEF ReaderBreak, ReportFailure, ReaderPcs
  <2>2. QED
    BY <1>13, <2>1 DEF TypeOK, ReaderBreak, KillWorker, WorkerPcs
<1>14. CASE ReaderSend
  <2>1. events' \in Seq(Event) /\ Len(events') <= EventCapacity
    BY <1>14, CapacityAssumption DEF TypeOK, ReaderSend
  <2>2. reader' \in [pc : ReaderPcs, held : Event]
    BY <1>14, EventTypes DEF ReaderSend, Reading, ReaderPcs
  <2>3. QED
    BY <1>14, <2>1, <2>2 DEF TypeOK, ReaderSend
<1>15. CASE ReaderReap
  <2>1. reader' \in [pc : ReaderPcs, held : Event]
    BY <1>15, EventTypes DEF ReaderReap, Verdict, ReaderPcs
  <2>2. QED
    BY <1>15, <2>1 DEF TypeOK, ReaderReap
<1>16. CASE ReaderSendLast
  <2>1. reader.held \in Event
    BY  DEF TypeOK
  <2>2. events' \in Seq(Event) /\ Len(events') <= EventCapacity
    <3>1. \/ events' = events
          \/ Len(events) < EventCapacity /\ events' = Append(events, reader.held)
      BY <1>16 DEF ReaderSendLast
    <3>2. events \in Seq(Event) /\ Len(events) <= EventCapacity
      BY DEF TypeOK
    <3>3. QED
      BY <2>1, <3>1, <3>2, CapacityAssumption
  <2>3. reader' \in [pc : ReaderPcs, held : Event]
    BY <1>16, <2>1 DEF ReaderSendLast, ReaderPcs
  <2>4. QED
    BY <1>16, <2>1, <2>2, <2>3 DEF TypeOK, ReaderSendLast
<1>17. CASE WorkerBegin
  <2>1. toWorker' \in Seq(Request)
    BY <1>17 DEF TypeOK, WorkerBegin
  <2>2. serving' \in Nat
    BY <1>17, RequestTypes DEF TypeOK, WorkerBegin
  <2>3. nextId' \in 1 .. MaxPrompts + 1
    BY <1>17, CapacityAssumption DEF WorkerBegin
  <2>4. QED
    BY <1>17, <2>1, <2>2, <2>3 DEF TypeOK, WorkerBegin, WorkerPcs
<1>18. CASE PamPrompt
  <2>1. toLocker' \in Seq(Event)
    BY <1>18, EventTypes DEF TypeOK, PamPrompt
  <2>2. nextId' \in 1 .. MaxPrompts + 1
    BY <1>18, CapacityAssumption DEF TypeOK, PamPrompt, MayPrompt
  <2>3. QED
    BY <1>18, <2>1, <2>2 DEF TypeOK, PamPrompt, WorkerPcs
<1>19. CASE PromptReply
  <2>1. toWorker' \in Seq(Request)
    BY <1>19 DEF TypeOK, PromptReply
  <2>2. handed' \in [prompt : Origin, typed : SUBSET Origin]
    BY <1>19, RequestTypes, OriginTypes DEF TypeOK, PromptReply
  <2>3. QED
    BY <1>19, <2>1, <2>2 DEF TypeOK, PromptReply, WorkerPcs
<1>20. CASE PamNotice
  <2>1. toLocker' \in Seq(Event)
    BY <1>20, EventTypes DEF TypeOK, PamNotice
  <2>2. QED
    BY <1>20, <2>1 DEF TypeOK, PamNotice
<1>21. CASE PamGrant
  <2>1. toLocker' \in Seq(Event)
    BY <1>21, EventTypes DEF TypeOK, PamGrant
  <2>2. QED
    BY <1>21, <2>1 DEF TypeOK, PamGrant, WorkerPcs
<1>22. CASE PamDeny
  <2>1. toLocker' \in Seq(Event)
    BY <1>22, EventTypes DEF TypeOK, PamDeny
  <2>2. QED
    BY <1>22, <2>1 DEF TypeOK, PamDeny, WorkerPcs
<1>23. CASE WorkerExit
  BY <1>23 DEF TypeOK, WorkerExit, WorkerPcs
<1>24. CASE WorkerCrash
  BY <1>24 DEF TypeOK, WorkerCrash, WorkerPcs
<1>25. CASE UNCHANGED vars BY <1>25 DEF TypeOK, vars
<1>26. QED
  BY <1>1, <1>2, <1>3, <1>4, <1>5, <1>6, <1>7, <1>8, <1>9, <1>10, <1>11, <1>12,
     <1>13, <1>14, <1>15, <1>16, <1>17, <1>18, <1>19, <1>20, <1>21, <1>22, <1>23,
     <1>24, <1>25 DEF Next, UiNext, ReaderNext, WorkerNext

\* Every variable keeps its type, no channel outgrows its bound and no prompt
\* its MAX_MESSAGES limit.
THEOREM TypeCorrect == Spec => []TypeOK
<1>1. QED
  BY TypeInit, TypeStep, PTL DEF Spec

-----------------------------------------------------------------------------
(* Channels *)

\* The kinds of event are distinct, so a success is never taken for another.
LEMMA Kinds ==
    /\ Notice # Success /\ Notice # Failure /\ Success # Failure
    /\ Notice.kind = "Notice" /\ Success.kind = "Success" /\ Failure.kind = "Failure"
    /\ LastPrompt # Notice /\ LastPrompt # Success /\ LastPrompt # Failure
BY DEF Notice, Success, Failure, LastPrompt

\* A channel with one message has length one.
LEMMA SingletonLen == ASSUME NEW x PROVE Len(<<x>>) = 1
OBVIOUS

\* A notice sent into a channel of notices leaves it a channel of notices.
LEMMA QuietAppend ==
    ASSUME NEW s \in Seq(Event), Quiet(s)
    PROVE  Quiet(Append(s, Notice))
BY EventTypes DEF Quiet

\* A message sent into a channel of notices is its last message.
LEMMA EndsWithAppend ==
    ASSUME NEW s \in Seq(Event), NEW m \in Event, Quiet(s)
    PROVE  EndsWith(Append(s, m), m)
BY DEF Quiet, EndsWith

\* Receiving from a channel of notices leaves a channel of notices.
LEMMA QuietTail ==
    ASSUME NEW s \in Seq(Event), s # <<>>, Quiet(s)
    PROVE  Head(s) = Notice /\ Quiet(Tail(s))
BY DEF Quiet

\* Receiving from a channel whose last message is m: either m itself, which
\* empties the channel, or a notice before it.
LEMMA EndsWithTail ==
    ASSUME NEW s \in Seq(Event), NEW m \in Event, EndsWith(s, m)
    PROVE  \/ Head(s) = m /\ Tail(s) = <<>>
           \/ Head(s) = Notice /\ EndsWith(Tail(s), m)
<1>1. CASE Len(s) = 1
  <2>1. s # <<>> /\ Tail(s) \in Seq(Event) /\ Len(Tail(s)) = 0
    BY <1>1
  <2>2. Tail(s) = <<>>
    BY <2>1, EmptySeq
  <2>3. QED
    BY <1>1, <2>1, <2>2 DEF EndsWith
<1>2. CASE Len(s) > 1
  BY <1>2 DEF EndsWith
<1>3. QED
  BY <1>1, <1>2 DEF EndsWith

-----------------------------------------------------------------------------
(* Every action keeps the invariant.  In each proof the first step covers   *)
(* the conjuncts the action leaves alone, the others those it can disturb.  *)

\* Begin goes out exactly once, to the first worker.
LEMMA lock_confirmedKeepsInv == ASSUME Inv, lock_confirmed PROVE CoreInv'
<1> USE DEF uiVars, convVars, linkVars, workerVars, txnVars, exitVars
<1>1. /\ LiveInv' /\ InPam' /\ AwaitResponse' /\ AwaitRetry' /\ Exiting' /\ ClientInv'
      /\ GrantInv' /\ InputInv' /\ AuthorizedByCurrentAttempt'
  BY DEF Inv, CoreInv, TurnInv, lock_confirmed, WorkerOpen, fail, clear_response, LiveInv,
     InPam, Silent, QuietReader, AwaitResponse, Drained, Carried, LastPrompt,
     AwaitRetry, Exiting, ClientInv, GrantInv, InputInv, ResponseReachesItsPrompt,
     AuthorizedByCurrentAttempt
<1>2. AwaitBegin'
  BY DEF Inv, CoreInv, lock_confirmed, WorkerOpen, fail, clear_response, TurnInv, AwaitBegin,
     TypeOK, LiveInv, Silent, QuietReader
<1>3. QED
  BY <1>1, <1>2 DEF CoreInv, TurnInv

\* Receiving an event moves the turn to the user, or to nobody.
LEMMA receive_authKeepsInv == ASSUME Inv, receive_auth PROVE CoreInv'
<1> USE DEF uiVars, convVars, linkVars, workerVars, txnVars, exitVars
<1>1. events \in Seq(Event) /\ events # <<>> /\ events' = Tail(events)
  BY DEF Inv, CoreInv, TypeOK, receive_auth
<1>2. /\ confirmed /\ ~authorized /\ ~unlocked
      /\ client.present /\ client.attempt = attempt
  BY DEF Inv, CoreInv, ClientInv, receive_auth, AcceptsInput, Dispatching
<1>3. ASSUME worker \in {"await_begin", "pam", "exiting"}
      PROVE  Head(events) = Notice /\ Quiet(Tail(events))
  <2>1. Quiet(events)
    BY <1>3 DEF Inv, CoreInv, TurnInv, AwaitBegin, InPam, Exiting, Silent
  <2>2. QED
    BY <1>1, <2>1, QuietTail
<1>4. ASSUME worker = "await_response"
      PROVE  /\ status = "Submitting" /\ toWorker = <<>> /\ serving = attempt
             /\ \/ Head(events) = Notice /\ Carried(LastPrompt)'
                \/ Head(events) = LastPrompt /\ Drained'
  <2>1. Carried(LastPrompt) /\ status = "Submitting" /\ toWorker = <<>> /\ serving = attempt
    BY <1>1, <1>4 DEF Inv, CoreInv, TurnInv, AwaitResponse, Drained
  <2>2. LastPrompt \in Event
    BY EventTypes DEF LastPrompt, Inv, CoreInv, TypeOK
  <2>3. CASE Quiet(events)
    BY <1>1, <2>1, <2>3, QuietTail, Kinds DEF Carried, EndsWith, Quiet, QuietReader,
       LastPrompt, receive_auth, workerVars, txnVars
  <2>4. CASE EndsWith(events, LastPrompt) /\ reader.pc = "reading" /\ toLocker = <<>>
    <3>1. \/ Head(events) = LastPrompt /\ Tail(events) = <<>>
          \/ Head(events) = Notice /\ EndsWith(Tail(events), LastPrompt)
      BY <1>1, <2>2, <2>4, EndsWithTail
    <3>2. QED
      BY <1>1, <2>1, <2>4, <3>1 DEF Carried, Drained, LastPrompt, receive_auth,
         workerVars, txnVars
  <2>5. QED
    BY <2>1, <2>3, <2>4 DEF Carried
<1>5. ASSUME worker = "await_retry"
      PROVE  /\ status = "Submitting" /\ toWorker = <<>>
             /\ \/ Head(events) = Notice /\ Carried(Failure)'
                \/ Head(events) = Failure /\ Drained'
  <2>1. Carried(Failure) /\ status = "Submitting" /\ toWorker = <<>>
    BY <1>1, <1>5 DEF Inv, CoreInv, TurnInv, AwaitRetry, Drained
  <2>2. CASE Quiet(events)
    BY <1>1, <2>1, <2>2, QuietTail, Kinds DEF Carried, EndsWith, Quiet, QuietReader,
       receive_auth
  <2>3. CASE EndsWith(events, Failure) /\ reader.pc = "reading" /\ toLocker = <<>>
    <3>1. \/ Head(events) = Failure /\ Tail(events) = <<>>
          \/ Head(events) = Notice /\ EndsWith(Tail(events), Failure)
      BY <1>1, <2>3, EndsWithTail, EventTypes
    <3>2. QED
      BY <1>1, <2>1, <2>3, <3>1 DEF Carried, Drained, receive_auth
  <2>4. QED
    BY <2>1, <2>2, <2>3 DEF Carried
<1>6. worker # "exited" => Head(events).kind # "Success"
  BY <1>3, <1>4, <1>5, Kinds DEF Inv, CoreInv, TypeOK, WorkerPcs, LastPrompt
<1>7. ClientInv' /\ GrantInv' /\ InputInv'
  BY DEF Inv, CoreInv, TurnInv, receive_auth, fail, clear_response, AcceptsInput,
     Dispatching, ClientInv, GrantInv, InputInv, ResponseReachesItsPrompt
<1>8. LiveInv'
  BY <1>6 DEF Inv, CoreInv, receive_auth, fail, clear_response, AcceptsInput, Dispatching,
     TurnInv, LiveInv
<1>9. AwaitBegin'
  BY <1>1, <1>2, <1>3, Kinds DEF Inv, CoreInv, receive_auth, fail, clear_response,
     AcceptsInput, Dispatching, TurnInv, AwaitBegin, Silent, QuietReader
<1>10. InPam'
  BY <1>1, <1>2, <1>3, Kinds DEF Inv, CoreInv, receive_auth, fail, clear_response,
     AcceptsInput, Dispatching, TurnInv, InPam, Silent, QuietReader
<1>11. Exiting'
  BY <1>1, <1>2, <1>3, Kinds DEF Inv, CoreInv, receive_auth, fail, clear_response,
     AcceptsInput, Dispatching, TurnInv, Exiting, QuietReader
<1>12. AwaitResponse'
  BY <1>2, <1>4, Kinds DEF Inv, CoreInv, receive_auth, fail, clear_response, AcceptsInput,
     Dispatching, TurnInv, AwaitResponse, LastPrompt
<1>13. AwaitRetry'
  BY <1>2, <1>5, Kinds DEF Inv, CoreInv, receive_auth, fail, clear_response, AcceptsInput,
     Dispatching, TurnInv, AwaitRetry
<1>14. AuthorizedByCurrentAttempt'
  <2>1. CASE Head(events).kind = "Success"
    <3>1. events[1] = Success
      BY <1>1, <2>1 DEF Event, Prompt, Notice, Success, Failure
    <3>2. granted /\ clean /\ serving = attempt
      BY <1>1, <1>2, <3>1 DEF Inv, CoreInv, GrantInv
    <3>3. QED
      BY <1>2, <3>2, <2>1 DEF AuthorizedByCurrentAttempt, receive_auth
  <2>2. CASE Head(events).kind # "Success"
    BY <1>2, <2>2 DEF AuthorizedByCurrentAttempt, receive_auth
  <2>3. QED
    BY <2>1, <2>2
<1>15. QED
  BY <1>7, <1>8, <1>9, <1>10, <1>11, <1>12, <1>13, <1>14 DEF CoreInv, TurnInv

\* Unlocking uses the authorisation of the current attempt.
LEMMA take_authorizationKeepsInv == ASSUME Inv, take_authorization PROVE CoreInv'
<1> USE DEF uiVars, convVars, linkVars, workerVars, txnVars, exitVars
<1>1. /\ LiveInv' /\ AwaitBegin' /\ InPam' /\ AwaitResponse' /\ AwaitRetry' /\ Exiting'
      /\ ClientInv' /\ GrantInv' /\ InputInv' /\ AuthorizedByCurrentAttempt'
  BY DEF Inv, CoreInv, TurnInv, take_authorization, Dispatching, LiveInv, AwaitBegin, Silent,
     QuietReader, InPam, AwaitResponse, Drained, Carried, LastPrompt, AwaitRetry,
     Exiting, ClientInv, GrantInv, InputInv, ResponseReachesItsPrompt,
     AuthorizedByCurrentAttempt
<1>2. QED
  BY <1>1 DEF CoreInv, TurnInv

\* A keystroke belongs to the prompt on display.
LEMMA push_inputKeepsInv == ASSUME Inv, push_input PROVE CoreInv'
<1> USE DEF uiVars, convVars, linkVars, workerVars, txnVars, exitVars
<1>1. /\ LiveInv' /\ AwaitBegin' /\ InPam' /\ AwaitResponse' /\ AwaitRetry' /\ Exiting'
      /\ ClientInv' /\ GrantInv' /\ InputInv' /\ AuthorizedByCurrentAttempt'
  BY DEF Inv, CoreInv, TurnInv, push_input, AcceptsInput, Dispatching, LiveInv, AwaitBegin,
     Silent, QuietReader, InPam, AwaitResponse, Drained, Carried, LastPrompt,
     AwaitRetry, Exiting, ClientInv, GrantInv, InputInv, ResponseReachesItsPrompt,
     AuthorizedByCurrentAttempt
<1>2. QED
  BY <1>1 DEF CoreInv, TurnInv

\* Deleting input adds none.
LEMMA pop_inputKeepsInv == ASSUME Inv, pop_input PROVE CoreInv'
<1> USE DEF uiVars, convVars, linkVars, workerVars, txnVars, exitVars
<1>1. /\ LiveInv' /\ AwaitBegin' /\ InPam' /\ AwaitResponse' /\ AwaitRetry' /\ Exiting'
      /\ ClientInv' /\ GrantInv' /\ InputInv' /\ AuthorizedByCurrentAttempt'
  BY DEF Inv, CoreInv, TurnInv, pop_input, AcceptsInput, Dispatching, LiveInv, AwaitBegin,
     Silent, QuietReader, InPam, AwaitResponse, Drained, Carried, LastPrompt,
     AwaitRetry, Exiting, ClientInv, GrantInv, InputInv, ResponseReachesItsPrompt,
     AuthorizedByCurrentAttempt
<1>2. QED
  BY <1>1 DEF CoreInv, TurnInv

\* A submitted response moves the turn to the worker, with the id it awaits.
LEMMA AnswerKeepsInv == ASSUME Inv, Answer PROVE CoreInv'
<1> USE DEF uiVars, convVars, linkVars, workerVars, txnVars, exitVars
<1>1. /\ LiveInv' /\ AwaitBegin' /\ InPam' /\ AwaitRetry' /\ Exiting' /\ ClientInv'
      /\ GrantInv' /\ InputInv' /\ AuthorizedByCurrentAttempt'
  BY DEF Inv, CoreInv, TurnInv, Answer, AcceptsInput, Dispatching, WorkerOpen, submit, fail,
     clear_response, LiveInv, AwaitBegin, Silent, QuietReader, InPam, AwaitRetry,
     Drained, Carried, Exiting, ClientInv, GrantInv, InputInv,
     ResponseReachesItsPrompt, AuthorizedByCurrentAttempt
<1>2. AwaitResponse'
  <2> SUFFICES ASSUME worker = "await_response" PROVE AwaitResponse'
    BY DEF Answer, AwaitResponse
  <2>1. AwaitResponse /\ WorkerOpen /\ client.present /\ client.attempt = attempt
    BY DEF Inv, CoreInv, TurnInv, LiveInv, ClientInv, WorkerOpen
  <2>2. CASE status = "Waiting"
    <3>1. /\ Drained /\ toWorker = <<>> /\ serving = attempt /\ confirmed
          /\ promptId = nextId - 1 /\ shown = <<txn, nextId - 1>> /\ input \subseteq {shown}
      BY <2>1, <2>2 DEF AwaitResponse, Inv, CoreInv, InputInv
    <3>2. /\ /\ toWorker' = Append(<<>>, [kind |-> "Response", id |-> promptId, typed |-> input])
          /\ status' = "Submitting" /\ attempt' = attempt
      BY <2>1, <2>2, <3>1 DEF Answer, submit
    <3>3. /\ Len(toWorker') = 1 /\ toWorker'[1].kind = "Response"
          /\ toWorker'[1].typed = input
      BY <3>2
    <3>4. QED
      BY <3>1, <3>2, <3>3 DEF AwaitResponse, Answer, Drained
  <2>3. CASE status # "Waiting"
    BY <2>1, <2>3 DEF AwaitResponse, Answer, Drained, Carried, QuietReader, LastPrompt
  <2>4. QED
    BY <2>2, <2>3
<1>3. QED
  BY <1>1, <1>2 DEF CoreInv, TurnInv

\* A retry starts an attempt that the surviving worker will serve.
LEMMA retryKeepsInv == ASSUME Inv, retry PROVE CoreInv'
<1> USE DEF uiVars, convVars, linkVars, workerVars, txnVars, exitVars
<1>1. /\ LiveInv' /\ AwaitBegin' /\ InPam' /\ AwaitResponse' /\ Exiting' /\ ClientInv'
      /\ InputInv' /\ AuthorizedByCurrentAttempt'
  BY DEF Inv, CoreInv, TurnInv, retry, CanRetry, AcceptsInput, Dispatching, WorkerOpen,
     begin_attempt, clear_response, BeginCancel, DropReceiver, KillWorker,
     AdoptAttempt, Holding, NoClient, LiveInv, AwaitBegin, Silent, QuietReader,
     InPam, AwaitResponse, Drained, Carried, LastPrompt, Exiting, ClientInv,
     InputInv, ResponseReachesItsPrompt, AuthorizedByCurrentAttempt
<1>2. AwaitRetry'
  <2> SUFFICES ASSUME worker' = "await_retry" PROVE AwaitRetry'
    BY DEF AwaitRetry
  <2>1. worker = "await_retry" /\ client.present
    BY DEF Inv, CoreInv, LiveInv, retry, BeginCancel, KillWorker
  <2>2. Drained /\ toWorker = <<>> /\ confirmed
    BY <2>1 DEF Inv, CoreInv, TurnInv, AwaitRetry, retry, CanRetry
  <2>3. toWorker' = <<[kind |-> "Retry", attempt |-> attempt']>>
    BY <2>1, <2>2 DEF retry, BeginCancel, KillWorker
  <2>4. QED
    BY <2>2, <2>3 DEF AwaitRetry, Drained, retry, begin_attempt
<1>3. GrantInv'
  BY DEF Inv, CoreInv, retry, CanRetry, AcceptsInput, Dispatching, WorkerOpen, begin_attempt,
     clear_response, BeginCancel, DropReceiver, KillWorker, AdoptAttempt, Holding,
     NoClient, GrantInv, TypeOK, LiveInv, TurnInv, Exiting
<1>4. QED
  BY <1>1, <1>2, <1>3 DEF CoreInv, TurnInv

\* A cancelled attempt leaves no client behind.
LEMMA cancel_attemptKeepsInv == ASSUME Inv, cancel_attempt PROVE CoreInv'
<1> USE DEF uiVars, convVars, linkVars, workerVars, txnVars, exitVars
<1>1. /\ LiveInv' /\ AwaitBegin' /\ InPam' /\ AwaitResponse' /\ AwaitRetry' /\ Exiting'
      /\ ClientInv' /\ GrantInv' /\ InputInv' /\ AuthorizedByCurrentAttempt'
  BY DEF Inv, CoreInv, TurnInv, cancel_attempt, AcceptsInput, Dispatching, begin_attempt,
     clear_response, BeginCancel, DropReceiver, KillWorker, NoClient, LiveInv,
     AwaitBegin, Silent, QuietReader, InPam, AwaitResponse, Drained, Carried,
     LastPrompt, AwaitRetry, Exiting, ClientInv, GrantInv, InputInv,
     ResponseReachesItsPrompt, AuthorizedByCurrentAttempt
<1>2. QED
  BY <1>1 DEF CoreInv, TurnInv

\* Joining the reader changes nothing of the protocol.
LEMMA joinKeepsInv == ASSUME Inv, join PROVE CoreInv'
<1> USE DEF uiVars, convVars, linkVars, workerVars, txnVars, exitVars
<1>1. /\ LiveInv' /\ AwaitBegin' /\ InPam' /\ AwaitResponse' /\ AwaitRetry' /\ Exiting'
      /\ ClientInv' /\ GrantInv' /\ InputInv' /\ AuthorizedByCurrentAttempt'
  BY DEF Inv, CoreInv, TurnInv, join, LiveInv, AwaitBegin, Silent, QuietReader, InPam,
     AwaitResponse, Drained, Carried, LastPrompt, AwaitRetry, Exiting, ClientInv,
     GrantInv, InputInv, ResponseReachesItsPrompt, AuthorizedByCurrentAttempt
<1>2. QED
  BY <1>1 DEF CoreInv, TurnInv

\* A replacement worker starts with empty channels and one Begin.
LEMMA StartWorkerKeepsInv == ASSUME Inv, StartWorker PROVE CoreInv'
<1> USE DEF uiVars, convVars, linkVars, workerVars, txnVars, exitVars
<1>1. /\ InPam' /\ AwaitResponse' /\ AwaitRetry' /\ Exiting' /\ ClientInv' /\ GrantInv'
      /\ InputInv'
  BY DEF Inv, CoreInv, TurnInv, StartWorker, Holding, Reading, InPam, Silent, QuietReader,
     AwaitResponse, Drained, Carried, LastPrompt, AwaitRetry, Exiting, ClientInv,
     GrantInv, InputInv, ResponseReachesItsPrompt
<1>2. LiveInv'
  BY DEF Inv, CoreInv, StartWorker, Holding, Reading, TurnInv, LiveInv, ClientInv
<1>3. AwaitBegin'
  <2>1. confirmed /\ status = "Submitting"
    BY DEF Inv, CoreInv, ClientInv, StartWorker
  <2>2. Silent'
    BY DEF StartWorker, Silent, Quiet, QuietReader, Reading
  <2>3. QED
    BY <2>1, <2>2 DEF AwaitBegin, StartWorker
<1>4. AuthorizedByCurrentAttempt'
  BY DEF Inv, CoreInv, StartWorker, Holding, Reading, TurnInv, AuthorizedByCurrentAttempt,
     ClientInv
<1>5. QED
  BY <1>1, <1>2, <1>3, <1>4 DEF CoreInv, TurnInv

\* A replacement that cannot be started fails the attempt.
LEMMA StartWorkerFailsKeepsInv == ASSUME Inv, StartWorkerFails PROVE CoreInv'
<1> USE DEF uiVars, convVars, linkVars, workerVars, txnVars, exitVars
<1>1. LiveInv' /\ ClientInv' /\ GrantInv' /\ InputInv' /\ AuthorizedByCurrentAttempt'
  BY DEF Inv, CoreInv, TurnInv, StartWorkerFails, fail, clear_response, LiveInv, ClientInv,
     GrantInv, InputInv, ResponseReachesItsPrompt, AuthorizedByCurrentAttempt
<1>2. AwaitBegin'
  BY DEF Inv, CoreInv, StartWorkerFails, fail, clear_response, TurnInv, AwaitBegin, LiveInv,
     ClientInv
<1>3. InPam'
  BY DEF Inv, CoreInv, StartWorkerFails, fail, clear_response, TurnInv, InPam, LiveInv,
     ClientInv
<1>4. AwaitResponse'
  BY DEF Inv, CoreInv, StartWorkerFails, fail, clear_response, TurnInv, AwaitResponse,
     LiveInv, ClientInv
<1>5. AwaitRetry'
  BY DEF Inv, CoreInv, StartWorkerFails, fail, clear_response, TurnInv, AwaitRetry, LiveInv,
     ClientInv
<1>6. Exiting'
  BY DEF Inv, CoreInv, StartWorkerFails, fail, clear_response, TurnInv, Exiting, LiveInv,
     ClientInv
<1>7. QED
  BY <1>1, <1>2, <1>3, <1>4, <1>5, <1>6 DEF CoreInv, TurnInv

\* The reader takes the next message off the socket, in order.
LEMMA ReaderReceiveKeepsInv == ASSUME Inv, ReaderReceive PROVE CoreInv'
<1> USE DEF uiVars, convVars, linkVars, workerVars, txnVars, exitVars
<1>1. LiveInv' /\ ClientInv' /\ GrantInv' /\ InputInv' /\ AuthorizedByCurrentAttempt'
  BY DEF Inv, CoreInv, TurnInv, ReaderReceive, LiveInv, ClientInv, GrantInv, InputInv,
     ResponseReachesItsPrompt, AuthorizedByCurrentAttempt
<1>2. /\ toLocker \in Seq(Event) /\ toLocker # <<>> /\ toLocker' = Tail(toLocker)
      /\ reader.pc = "reading" /\ reader'.held = Head(toLocker)
      /\ reader'.pc = IF Head(toLocker) = Success THEN "reaping" ELSE "sending"
  BY DEF Inv, CoreInv, TypeOK, ReaderReceive
<1>3. ASSUME Quiet(toLocker) PROVE QuietReader' /\ Quiet(toLocker)'
  BY <1>2, <1>3, QuietTail, Kinds DEF QuietReader
<1>4. AwaitBegin' /\ InPam'
  BY <1>3 DEF Inv, CoreInv, TurnInv, AwaitBegin, InPam, Silent, ReaderReceive
<1>5. ASSUME NEW m \in Event, m # Success, Carried(m) PROVE Carried(m)'
  <2>1. Quiet(events) /\ EndsWith(toLocker, m)
    BY <1>2, <1>5 DEF Carried
  <2>2. \/ Head(toLocker) = m /\ Tail(toLocker) = <<>>
        \/ Head(toLocker) = Notice /\ EndsWith(Tail(toLocker), m)
    BY <1>2, <2>1, EndsWithTail
  <2>3. QED
    BY <1>2, <1>5, <2>1, <2>2, Kinds DEF Carried, QuietReader, ReaderReceive
<1>6. AwaitResponse'
  <2>1. LastPrompt \in Event /\ LastPrompt' = LastPrompt
    BY EventTypes DEF LastPrompt, Inv, CoreInv, TypeOK, ReaderReceive
  <2>2. Carried(LastPrompt) => Carried(LastPrompt)'
    BY <1>5, <2>1, Kinds DEF Carried
  <2>3. QED
    BY <1>2, <2>2 DEF Inv, CoreInv, TurnInv, AwaitResponse, Drained, ReaderReceive
<1>7. AwaitRetry'
  BY <1>2, <1>5, Kinds, EventTypes DEF Inv, CoreInv, TurnInv, AwaitRetry, Drained, ReaderReceive
<1>8. Exiting'
  <2>1. EndsWith(toLocker, Success) =>
          \/ Head(toLocker) = Success /\ Tail(toLocker) = <<>>
          \/ Head(toLocker) = Notice /\ EndsWith(Tail(toLocker), Success)
    BY <1>2, EndsWithTail, EventTypes
  <2>2. QED
    BY <1>2, <2>1, Kinds DEF Inv, CoreInv, TurnInv, Exiting, QuietReader, ReaderReceive
<1>9. QED
  BY <1>1, <1>4, <1>6, <1>7, <1>8 DEF CoreInv, TurnInv


\* The reader only gives up on a worker that is gone or was cancelled.
LEMMA ReaderBreakKeepsInv == ASSUME Inv, ReaderBreak PROVE CoreInv'
<1> USE DEF uiVars, convVars, linkVars, workerVars, txnVars, exitVars
<1>1. /\ LiveInv' /\ AwaitBegin' /\ InPam' /\ AwaitResponse' /\ AwaitRetry' /\ Exiting'
      /\ ClientInv' /\ InputInv'
  BY DEF Inv, CoreInv, TurnInv, ReaderBreak, WorkerOpen, KillWorker, ReportFailure, LiveInv,
     AwaitBegin, Silent, QuietReader, InPam, AwaitResponse, Drained, Carried,
     LastPrompt, AwaitRetry, Exiting, ClientInv, InputInv, ResponseReachesItsPrompt
<1>2. GrantInv'
  <2>1. /\ reader' = [pc |-> "sendLast", held |-> Failure] /\ worker' = worker
        /\ clean' = clean
    BY DEF Inv, CoreInv, LiveInv, GrantInv, ReaderBreak, ReportFailure, WorkerOpen, KillWorker,
       TypeOK
  <2>2. QED
    BY <2>1, Kinds DEF Inv, CoreInv, GrantInv, ReaderBreak
<1>3. AuthorizedByCurrentAttempt'
  BY DEF Inv, CoreInv, ReaderBreak, WorkerOpen, KillWorker, ReportFailure, TurnInv,
     AuthorizedByCurrentAttempt, LiveInv
<1>4. QED
  BY <1>1, <1>2, <1>3 DEF CoreInv, TurnInv

\* The reader passes its message on, in order.
LEMMA ReaderSendKeepsInv == ASSUME Inv, ReaderSend PROVE CoreInv'
<1> USE DEF uiVars, convVars, linkVars, workerVars, txnVars, exitVars
<1>1. LiveInv' /\ ClientInv' /\ GrantInv' /\ InputInv' /\ AuthorizedByCurrentAttempt'
  BY DEF Inv, CoreInv, TurnInv, ReaderSend, Reading, LiveInv, ClientInv, GrantInv, InputInv,
     ResponseReachesItsPrompt, AuthorizedByCurrentAttempt
<1>2. /\ events \in Seq(Event) /\ reader.held \in Event
      /\ events' = Append(events, reader.held)
      /\ reader.pc = "sending" /\ reader'.pc = "reading"
  BY DEF Inv, CoreInv, TypeOK, ReaderSend, Reading
<1>3. ASSUME Quiet(events), QuietReader PROVE Quiet(events)' /\ QuietReader'
  BY <1>2, <1>3, QuietAppend DEF QuietReader
<1>4. AwaitBegin' /\ InPam' /\ Exiting'
  BY <1>2, <1>3 DEF Inv, CoreInv, TurnInv, AwaitBegin, InPam, Exiting, Silent, ReaderSend
<1>5. ASSUME NEW m \in Event, Carried(m) PROVE Carried(m)'
  <2>1. CASE Quiet(events) /\ QuietReader /\ EndsWith(toLocker, m)
    BY <1>3, <2>1 DEF Carried, ReaderSend
  <2>2. CASE Quiet(events) /\ reader.held = m /\ toLocker = <<>>
    BY <1>2, <2>2, EndsWithAppend DEF Carried, ReaderSend
  <2>3. QED
    BY <1>2, <1>5, <2>1, <2>2 DEF Carried
<1>6. AwaitResponse'
  <2>1. LastPrompt \in Event /\ LastPrompt' = LastPrompt
    BY EventTypes DEF LastPrompt, Inv, CoreInv, TypeOK, ReaderSend
  <2>2. Carried(LastPrompt) => Carried(LastPrompt)'
    BY <1>5, <2>1 DEF Carried
  <2>3. QED
    BY <1>2, <2>2 DEF Inv, CoreInv, TurnInv, AwaitResponse, Drained, ReaderSend
<1>7. AwaitRetry'
  BY <1>2, <1>5, EventTypes DEF Inv, CoreInv, TurnInv, AwaitRetry, Drained, ReaderSend
<1>8. QED
  BY <1>1, <1>4, <1>6, <1>7 DEF CoreInv, TurnInv


\* A success counts only with a clean exit (send_terminal).
LEMMA ReaderReapKeepsInv == ASSUME Inv, ReaderReap PROVE CoreInv'
<1> USE DEF uiVars, convVars, linkVars, workerVars, txnVars, exitVars
<1>1. /\ LiveInv' /\ AwaitBegin' /\ InPam' /\ AwaitResponse' /\ AwaitRetry' /\ Exiting'
      /\ ClientInv' /\ InputInv' /\ AuthorizedByCurrentAttempt'
  BY DEF Inv, CoreInv, TurnInv, ReaderReap, Verdict, LiveInv, AwaitBegin, Silent,
     QuietReader, InPam, AwaitResponse, Drained, Carried, LastPrompt, AwaitRetry,
     Exiting, ClientInv, InputInv, ResponseReachesItsPrompt,
     AuthorizedByCurrentAttempt
<1>2. GrantInv'
  BY Kinds DEF Inv, CoreInv, ReaderReap, Verdict, TurnInv, GrantInv, TypeOK
<1>3. QED
  BY <1>1, <1>2 DEF CoreInv, TurnInv

\* The terminal event is the last one.
LEMMA ReaderSendLastKeepsInv == ASSUME Inv, ReaderSendLast PROVE CoreInv'
<1> USE DEF uiVars, convVars, linkVars, workerVars, txnVars, exitVars
<1>1. LiveInv' /\ ClientInv' /\ InputInv' /\ AuthorizedByCurrentAttempt'
  BY DEF Inv, CoreInv, TurnInv, ReaderSendLast, LiveInv, ClientInv, InputInv,
     ResponseReachesItsPrompt, AuthorizedByCurrentAttempt
<1>2. GrantInv'
  <2>1. events \in Seq(Event) /\ reader.held \in Event /\ reader.pc = "sendLast" /\ GrantInv
    BY DEF Inv, CoreInv, TypeOK, ReaderSendLast, Drained
  <2>2. \A i \in 1 .. Len(events') : events'[i] = Success => granted /\ clean
    BY <2>1 DEF ReaderSendLast, GrantInv
  <2>3. QED
    BY <2>1, <2>2 DEF ReaderSendLast, GrantInv
<1>3. AwaitBegin' /\ InPam' /\ Exiting'
  BY DEF Inv, CoreInv, TurnInv, ReaderSendLast, LiveInv, AwaitBegin, InPam, Exiting, Silent,
     QuietReader
<1>4. AwaitResponse' /\ AwaitRetry'
  BY DEF Inv, CoreInv, TurnInv, ReaderSendLast, LiveInv, AwaitResponse, AwaitRetry, Drained,
     Carried, LastPrompt, QuietReader
<1>5. QED
  BY <1>1, <1>2, <1>3, <1>4 DEF CoreInv, TurnInv

\* A transaction serves the attempt that asked for it.
LEMMA WorkerBeginKeepsInv == ASSUME Inv, WorkerBegin PROVE CoreInv'
<1> USE DEF uiVars, convVars, linkVars, workerVars, txnVars, exitVars
<1>1. /\ LiveInv' /\ AwaitBegin' /\ AwaitResponse' /\ AwaitRetry' /\ Exiting'
      /\ ClientInv' /\ GrantInv' /\ InputInv'
  BY DEF Inv, CoreInv, TurnInv, WorkerBegin, LiveInv, AwaitBegin, Silent, QuietReader,
     AwaitResponse, Drained, Carried, LastPrompt, AwaitRetry, Exiting, ClientInv,
     GrantInv, InputInv, ResponseReachesItsPrompt
<1>2. InPam'
  BY DEF Inv, CoreInv, WorkerBegin, TurnInv, InPam, TypeOK, LiveInv, AwaitBegin, AwaitRetry,
     Drained, Silent, Quiet, QuietReader
<1>3. AuthorizedByCurrentAttempt'
  BY DEF Inv, CoreInv, WorkerBegin, TurnInv, AuthorizedByCurrentAttempt, LiveInv
<1>4. QED
  BY <1>1, <1>2, <1>3 DEF CoreInv, TurnInv

\* A prompt passes the turn on, behind notices only.
LEMMA PamPromptKeepsInv == ASSUME Inv, PamPrompt PROVE CoreInv'
<1> USE DEF uiVars, convVars, linkVars, workerVars, txnVars, exitVars
<1>1. /\ LiveInv' /\ AwaitBegin' /\ InPam' /\ AwaitRetry' /\ Exiting' /\ ClientInv'
      /\ InputInv' /\ AuthorizedByCurrentAttempt'
  BY DEF Inv, CoreInv, TurnInv, PamPrompt, LiveInv, AwaitBegin, Silent, QuietReader, InPam,
     AwaitRetry, Drained, Carried, Exiting, ClientInv, InputInv,
     ResponseReachesItsPrompt, AuthorizedByCurrentAttempt
<1>2. AwaitResponse'
  <2>1. Silent /\ status = "Submitting" /\ toWorker = <<>> /\ confirmed /\ serving = attempt
    BY DEF Inv, CoreInv, TurnInv, InPam, PamPrompt
  <2>2. LastPrompt' = [kind |-> "Prompt", txn |-> txn, id |-> nextId]
    BY DEF LastPrompt, PamPrompt, Inv, CoreInv, TypeOK
  <2>3. EndsWith(toLocker', LastPrompt')
    <3>1. /\ toLocker \in Seq(Event)
          /\ [kind |-> "Prompt", txn |-> txn, id |-> nextId] \in Event
      BY EventTypes DEF Inv, CoreInv, TypeOK
    <3>2. QED
      BY <2>1, <2>2, <3>1, EndsWithAppend DEF Silent, PamPrompt
  <2>4. QED
    BY <2>1, <2>3 DEF AwaitResponse, Carried, Silent, QuietReader, PamPrompt
<1>3. GrantInv'
  BY Kinds DEF Inv, CoreInv, PamPrompt, TurnInv, GrantInv, TypeOK
<1>4. QED
  BY <1>1, <1>2, <1>3 DEF CoreInv, TurnInv

\* The worker finds the response to the prompt it sent last.
LEMMA PromptReplyKeepsInv == ASSUME Inv, PromptReply PROVE CoreInv'
<1> USE DEF uiVars, convVars, linkVars, workerVars, txnVars, exitVars
<1>1. /\ LiveInv' /\ AwaitBegin' /\ AwaitResponse' /\ AwaitRetry' /\ Exiting'
      /\ ClientInv' /\ GrantInv' /\ AuthorizedByCurrentAttempt'
  BY DEF Inv, CoreInv, TurnInv, PromptReply, LiveInv, AwaitBegin, Silent, QuietReader,
     AwaitResponse, Drained, Carried, LastPrompt, AwaitRetry, Exiting, ClientInv,
     GrantInv, AuthorizedByCurrentAttempt
<1>2. InPam'
  <2>1. /\ Drained /\ status = "Submitting" /\ Len(toWorker) = 1 /\ serving = attempt
        /\ confirmed
    BY DEF Inv, CoreInv, TurnInv, AwaitResponse, PromptReply
  <2>2. Silent'
    BY <2>1 DEF Drained, Silent, Quiet, QuietReader, PromptReply
  <2>3. Tail(toWorker) = <<>>
    <3>1. toWorker \in Seq(Request) /\ toWorker # <<>>
      BY DEF Inv, CoreInv, TypeOK, PromptReply
    <3>2. Tail(toWorker) \in Seq(Request) /\ Len(Tail(toWorker)) = 0
      BY <2>1, <3>1
    <3>3. QED
      BY <3>2, EmptySeq
  <2>4. QED
    BY <2>1, <2>2, <2>3 DEF InPam, PromptReply
<1>3. InputInv'
  BY DEF Inv, CoreInv, PromptReply, TurnInv, InputInv, TypeOK, AwaitResponse,
     ResponseReachesItsPrompt
<1>4. QED
  BY <1>1, <1>2, <1>3 DEF CoreInv, TurnInv

\* A notice does not change whose turn it is.
LEMMA PamNoticeKeepsInv == ASSUME Inv, PamNotice PROVE CoreInv'
<1> USE DEF uiVars, convVars, linkVars, workerVars, txnVars, exitVars
<1>1. /\ LiveInv' /\ AwaitBegin' /\ AwaitResponse' /\ AwaitRetry' /\ Exiting'
      /\ ClientInv' /\ InputInv' /\ AuthorizedByCurrentAttempt'
  BY DEF Inv, CoreInv, TurnInv, PamNotice, LiveInv, AwaitBegin, Silent, QuietReader,
     AwaitResponse, Drained, Carried, LastPrompt, AwaitRetry, Exiting, ClientInv,
     InputInv, ResponseReachesItsPrompt, AuthorizedByCurrentAttempt
<1>2. InPam'
  <2>1. Silent /\ status = "Submitting" /\ toWorker = <<>> /\ confirmed /\ serving = attempt
    BY DEF Inv, CoreInv, TurnInv, InPam, PamNotice
  <2>2. Quiet(toLocker')
    BY <2>1, QuietAppend DEF Inv, CoreInv, TypeOK, Silent, PamNotice
  <2>3. QED
    BY <2>1, <2>2 DEF InPam, Silent, QuietReader, PamNotice
<1>3. GrantInv'
  BY Kinds DEF Inv, CoreInv, PamNotice, TurnInv, GrantInv, TypeOK
<1>4. QED
  BY <1>1, <1>2, <1>3 DEF CoreInv, TurnInv

\* A grant is for the attempt being served.
LEMMA PamGrantKeepsInv == ASSUME Inv, PamGrant PROVE CoreInv'
<1> USE DEF uiVars, convVars, linkVars, workerVars, txnVars, exitVars
<1>1. /\ LiveInv' /\ AwaitBegin' /\ InPam' /\ AwaitResponse' /\ AwaitRetry'
      /\ ClientInv' /\ InputInv' /\ AuthorizedByCurrentAttempt'
  BY DEF Inv, CoreInv, TurnInv, PamGrant, LiveInv, AwaitBegin, Silent, QuietReader, InPam,
     AwaitResponse, Drained, Carried, LastPrompt, AwaitRetry, ClientInv, InputInv,
     ResponseReachesItsPrompt, AuthorizedByCurrentAttempt
<1>2. Exiting'
  <2>1. Silent /\ status = "Submitting" /\ toWorker = <<>> /\ confirmed /\ serving = attempt
    BY DEF Inv, CoreInv, TurnInv, InPam, PamGrant
  <2>2. EndsWith(toLocker', Success)
    BY <2>1, EndsWithAppend, EventTypes DEF Inv, CoreInv, TypeOK, Silent, PamGrant
  <2>3. QED
    BY <2>1, <2>2 DEF Exiting, Silent, QuietReader, PamGrant
<1>3. GrantInv'
  BY DEF Inv, CoreInv, PamGrant, TurnInv, GrantInv, TypeOK, InPam
<1>4. QED
  BY <1>1, <1>2, <1>3 DEF CoreInv, TurnInv

\* A denial passes the turn on and keeps the worker for a retry.
LEMMA PamDenyKeepsInv == ASSUME Inv, PamDeny PROVE CoreInv'
<1> USE DEF uiVars, convVars, linkVars, workerVars, txnVars, exitVars
<1>1. /\ LiveInv' /\ AwaitBegin' /\ InPam' /\ AwaitResponse' /\ Exiting' /\ ClientInv'
      /\ InputInv' /\ AuthorizedByCurrentAttempt'
  BY DEF Inv, CoreInv, TurnInv, PamDeny, LiveInv, AwaitBegin, Silent, QuietReader, InPam,
     AwaitResponse, Drained, Carried, LastPrompt, Exiting, ClientInv, InputInv,
     ResponseReachesItsPrompt, AuthorizedByCurrentAttempt
<1>2. AwaitRetry'
  <2>1. Silent /\ status = "Submitting" /\ toWorker = <<>> /\ confirmed /\ serving = attempt
    BY DEF Inv, CoreInv, TurnInv, InPam, PamDeny
  <2>2. EndsWith(toLocker', Failure)
    BY <2>1, EndsWithAppend, EventTypes DEF Inv, CoreInv, TypeOK, Silent, PamDeny
  <2>3. QED
    BY <2>1, <2>2 DEF AwaitRetry, Silent, Carried, QuietReader, PamDeny
<1>3. GrantInv'
  BY Kinds DEF Inv, CoreInv, PamDeny, TurnInv, GrantInv, TypeOK
<1>4. QED
  BY <1>1, <1>2, <1>3 DEF CoreInv, TurnInv

\* Only a worker that was granted the attempt exits cleanly.
LEMMA WorkerExitKeepsInv == ASSUME Inv, WorkerExit PROVE CoreInv'
<1> USE DEF uiVars, convVars, linkVars, workerVars, txnVars, exitVars
<1>1. /\ LiveInv' /\ AwaitBegin' /\ InPam' /\ AwaitResponse' /\ AwaitRetry' /\ Exiting'
      /\ ClientInv' /\ GrantInv' /\ InputInv' /\ AuthorizedByCurrentAttempt'
  BY DEF Inv, CoreInv, TurnInv, WorkerExit, LiveInv, AwaitBegin, Silent, QuietReader, InPam,
     AwaitResponse, Drained, Carried, LastPrompt, AwaitRetry, Exiting, ClientInv,
     GrantInv, InputInv, ResponseReachesItsPrompt, AuthorizedByCurrentAttempt
<1>2. QED
  BY <1>1 DEF CoreInv, TurnInv

\* A crash proves nothing about the attempt.
LEMMA WorkerCrashKeepsInv == ASSUME Inv, WorkerCrash PROVE CoreInv'
<1> USE DEF uiVars, convVars, linkVars, workerVars, txnVars, exitVars
<1>1. /\ LiveInv' /\ AwaitBegin' /\ InPam' /\ AwaitResponse' /\ AwaitRetry' /\ Exiting'
      /\ ClientInv' /\ GrantInv' /\ InputInv'
  BY DEF Inv, CoreInv, TurnInv, WorkerCrash, LiveInv, AwaitBegin, Silent, QuietReader, InPam,
     AwaitResponse, Drained, Carried, LastPrompt, AwaitRetry, Exiting, ClientInv,
     GrantInv, InputInv, ResponseReachesItsPrompt
<1>2. AuthorizedByCurrentAttempt'
  BY DEF Inv, CoreInv, WorkerCrash, TurnInv, AuthorizedByCurrentAttempt, LiveInv
<1>3. QED
  BY <1>1, <1>2 DEF CoreInv, TurnInv

\* The inductive invariant holds when the lock is requested.
LEMMA InvInit == Init => Inv
<1> SUFFICES ASSUME Init PROVE CoreInv
  BY TypeInit DEF Inv
<1>1. LiveInv /\ ClientInv /\ InputInv /\ AuthorizedByCurrentAttempt
  BY DEF Init, LiveInv, ClientInv, InputInv, ResponseReachesItsPrompt,
         AuthorizedByCurrentAttempt, Holding
<1>2. GrantInv
  BY DEF Init, GrantInv, Reading
<1>3. TurnInv
  BY DEF Init, TurnInv, AwaitBegin, InPam, AwaitResponse, AwaitRetry, Exiting,
         Silent, Quiet, QuietReader, Reading
<1>4. QED
  BY <1>1, <1>2, <1>3 DEF CoreInv

\* A step of nobody keeps the invariant.
LEMMA StutterKeepsInv == ASSUME Inv, UNCHANGED vars PROVE CoreInv'
BY DEF vars, uiVars, convVars, linkVars, workerVars, txnVars, exitVars,
       Inv, CoreInv, LiveInv, TurnInv, AwaitBegin, InPam, AwaitResponse, AwaitRetry,
       Exiting, ClientInv, GrantInv, InputInv, ResponseReachesItsPrompt,
       AuthorizedByCurrentAttempt, Silent, Drained, Carried, QuietReader, LastPrompt

\* Every step of the UI thread, the reader and the worker keeps the
\* inductive invariant.
LEMMA InvStep == Inv /\ [Next]_vars => Inv'
<1> SUFFICES ASSUME Inv, [Next]_vars PROVE CoreInv'
  BY TypeStep DEF Inv
<1>1. CASE UiNext
  BY <1>1, lock_confirmedKeepsInv, receive_authKeepsInv, take_authorizationKeepsInv,
     push_inputKeepsInv, pop_inputKeepsInv, AnswerKeepsInv, retryKeepsInv,
     cancel_attemptKeepsInv, joinKeepsInv, StartWorkerKeepsInv,
     StartWorkerFailsKeepsInv DEF UiNext
<1>2. CASE ReaderNext
  BY <1>2, ReaderReceiveKeepsInv, ReaderBreakKeepsInv, ReaderSendKeepsInv,
     ReaderReapKeepsInv, ReaderSendLastKeepsInv DEF ReaderNext
<1>3. CASE WorkerNext
  BY <1>3, WorkerBeginKeepsInv, PamPromptKeepsInv, PromptReplyKeepsInv,
     PamNoticeKeepsInv, PamGrantKeepsInv, PamDenyKeepsInv, WorkerExitKeepsInv,
     WorkerCrashKeepsInv DEF WorkerNext
<1>4. QED
  BY <1>1, <1>2, <1>3, StutterKeepsInv DEF Next

-----------------------------------------------------------------------------
(* Theorems *)

\* The turn-taking discipline between UI thread, reader, worker and user holds
\* in every reachable state (receive_auth, read_worker, PamConversation::prompt).
THEOREM Invariance == Spec => []Inv
<1>1. QED
  BY InvInit, InvStep, PTL DEF Spec

\* The session is only ever authorised by the transaction PAM granted to the
\* current attempt in a worker that exited cleanly, for channels and prompt
\* limits of any size and any number of attempts.
THEOREM Authorization == Spec => []AuthorizedByCurrentAttempt
<1>1. Inv => AuthorizedByCurrentAttempt
  BY DEF Inv, CoreInv
<1>2. QED
  BY <1>1, Invariance, PTL

\* What PAM receives for a prompt was typed for that prompt.
THEOREM Responses == Spec => []ResponseReachesItsPrompt
<1>1. Inv => ResponseReachesItsPrompt
  BY DEF Inv, CoreInv, InputInv
<1>2. QED
  BY <1>1, Invariance, PTL

\* The prompt on display is the one a live worker waits for.
THEOREM Prompts == Spec => []PromptIsAnswerable
<1>1. Inv => PromptIsAnswerable
  BY DEF Inv, CoreInv, TypeOK, WorkerPcs, PromptIsAnswerable, WorkerOpen, LiveInv, TurnInv,
         AwaitBegin, InPam, AwaitResponse, AwaitRetry, Exiting
<1>2. QED
  BY <1>1, Invariance, PTL

\* The UI thread never finds more than one unread message in the socket.
THEOREM Writes == Spec => []WriteNeverBlocks
<1>1. Inv => WriteNeverBlocks
  <2> SUFFICES ASSUME Inv, worker # "exited" PROVE Len(toWorker) = 0 \/ Len(toWorker) = 1
    <3>1. Inv => Len(toWorker) \in Nat
      BY DEF Inv, TypeOK
    <3>2. \A n \in Nat : n = 0 \/ n = 1 => n <= 1
      OBVIOUS
    <3>3. QED
      BY <3>1, <3>2 DEF WriteNeverBlocks, WorkerOpen
  <2>1. CASE worker = "await_begin"
    BY <2>1, SingletonLen DEF Inv, CoreInv, TurnInv, AwaitBegin
  <2>2. CASE worker = "await_response"
    BY <2>2 DEF Inv, CoreInv, TurnInv, AwaitResponse
  <2>3. CASE worker = "await_retry"
    BY <2>3, SingletonLen DEF Inv, CoreInv, TurnInv, AwaitRetry
  <2>4. CASE worker \in {"pam", "exiting"}
    BY <2>4 DEF Inv, CoreInv, TurnInv, InPam, Exiting
  <2>5. QED
    BY <2>1, <2>2, <2>3, <2>4 DEF Inv, TypeOK, WorkerPcs
<1>2. QED
  BY <1>1, Invariance, PTL

-----------------------------------------------------------------------------
(* The transaction with PAM *)

\* Whose the list is, and how far the callback has filled it.
ListInv ==
    /\ p_owner = "guard" <=> p_pc = "callback"
    /\ p_owner = "PAM" => p_pc = "modules" /\ p_index = Len(p_messages) + 1
    /\ p_owner = "nobody" => p_messages = << >> /\ p_slots = << >> /\ p_index = 0
    /\ p_owner # "nobody" => /\ Len(p_messages) \in 1 .. PAM_MAX_NUM_MSG
                             /\ Len(p_slots) = Len(p_messages)
                             /\ p_index \in 1 .. Len(p_messages) + 1

SlotInv ==
    \A i \in 1 .. Len(p_slots) :
        /\ p_slots[i] \in {0, i}
        /\ i < p_index => ((p_messages[i] = "prompt") <=> (p_slots[i] = i))
        /\ i >= p_index => p_slots[i] = 0

\* What has been decided of the transaction.
VerdictInv ==
    /\ p_handle = "live" <=> p_pc \in {"modules", "callback", "check", "end"}
    /\ p_same_user => p_pc \in {"end", "done"} /\ p_user = Self /\ p_status = "success"
    /\ p_verdict # "none" => p_pc = "done"
    /\ p_verdict = "Success" => p_same_user /\ ~p_cancelled

PamInv == Pam!TypeOK /\ ListInv /\ SlotInv /\ Pam!ResponsesAreOwnedOnce /\ VerdictInv

-----------------------------------------------------------------------------
(* The callback *)

\* A callback that fails gives back all that was allocated for it (ConversationFails,
\* the drop of PendingResponses).
LEMMA FailureKeeps ==
    ASSUME Pam!PamWorkerAssumption, PamInv, p_pc = "callback", Pam!ConversationFails,
           p_next_id' \in 1 .. MAX_MESSAGES + 1, p_cancelled' \in BOOLEAN, UNCHANGED Pam!transaction
    PROVE  PamInv'
<1>1. p_heap = Pam!Reached
  BY DEF PamInv, ListInv, Pam!ResponsesAreOwnedOnce
<1>2. /\ p_pc' = "modules" /\ p_heap' = {} /\ p_slots' = << >> /\ p_owner' = "nobody"
      /\ p_messages' = << >> /\ p_index' = 0
  BY <1>1 DEF Pam!ConversationFails, Pam!Drop
<1>3. UNCHANGED <<p_handle, p_user, p_status, p_same_user, p_verdict>>
  BY DEF Pam!transaction
<1>4. Pam!TypeOK'
  BY <1>2, <1>3 DEF PamInv, Pam!TypeOK, Pam!PamWorkerAssumption
<1>5. ListInv' /\ SlotInv' /\ Pam!ResponsesAreOwnedOnce'
  BY <1>2 DEF ListInv, SlotInv, Pam!ResponsesAreOwnedOnce
<1>6. VerdictInv'
  BY <1>2, <1>3 DEF PamInv, VerdictInv
<1>7. QED
  BY <1>4, <1>5, <1>6 DEF PamInv

\* A module's call allocates the list, empty (PamCalls).
LEMMA CallKeeps ==
    ASSUME Pam!PamWorkerAssumption, PamInv, Pam!PamCalls
    PROVE  PamInv'
<1>1. PICK count \in 1 .. PAM_MAX_NUM_MSG : p_messages' \in [1 .. count -> Pam!Message]
  BY DEF Pam!PamCalls
<1>2. /\ p_pc = "modules" /\ p_owner = "nobody" /\ p_pc' = "callback" /\ p_index' = 1
      /\ p_owner' = "guard" /\ p_heap' = p_heap \cup {0}
      /\ p_slots' = [i \in DOMAIN p_messages' |-> 0]
      /\ UNCHANGED <<p_handle, p_user, p_status, p_same_user, p_verdict,
                   p_next_id, p_cancelled>>
  BY DEF Pam!PamCalls, Pam!transaction, Pam!conversation
<1>3. /\ count \in Nat /\ p_messages' \in Seq(Pam!Message) /\ Len(p_messages') = count
      /\ DOMAIN p_messages' = 1 .. count
  BY <1>1 DEF Pam!PamWorkerAssumption
<1>4. /\ p_slots' \in Seq(0 .. PAM_MAX_NUM_MSG) /\ Len(p_slots') = count
      /\ \A i \in 1 .. count : p_slots'[i] = 0
      /\ DOMAIN p_slots' = 1 .. count
  <2>1. p_slots' \in [1 .. count -> 0 .. PAM_MAX_NUM_MSG]
    BY <1>2, <1>3 DEF Pam!PamWorkerAssumption
  <2>2. QED
    BY <1>2, <1>3, <2>1
<1>5. Pam!Reached' = {0}
  BY <1>4 DEF Pam!Reached
<1>6. p_heap' = {0}
  BY <1>2 DEF PamInv, Pam!ResponsesAreOwnedOnce
<1>7. Pam!TypeOK'
  BY <1>1, <1>2, <1>3, <1>4, <1>6 DEF PamInv, Pam!TypeOK, Pam!PamWorkerAssumption
<1>8. ListInv' /\ SlotInv'
  BY <1>1, <1>2, <1>3, <1>4 DEF ListInv, SlotInv
<1>9. Pam!ResponsesAreOwnedOnce'
  BY <1>2, <1>5, <1>6 DEF Pam!ResponsesAreOwnedOnce
<1>10. VerdictInv'
  BY <1>2 DEF PamInv, VerdictInv
<1>11. QED
  BY <1>7, <1>8, <1>9, <1>10 DEF PamInv

\* The message at index has been dealt with, and its response, if it is a prompt, is in its place.
LEMMA AdvanceKeeps ==
    ASSUME Pam!PamWorkerAssumption, PamInv, p_pc = "callback", p_index <= Len(p_messages),
           \/ p_messages[p_index] = "notice" /\ UNCHANGED <<p_heap, p_slots>>
           \/ /\ p_messages[p_index] = "prompt" /\ p_heap' = p_heap \cup {p_index}
              /\ p_slots' = [p_slots EXCEPT ![p_index] = p_index],
           p_index' = p_index + 1, p_next_id' \in 1 .. MAX_MESSAGES + 1,
           UNCHANGED <<p_pc, p_messages, p_owner, p_cancelled, Pam!transaction>>
    PROVE  PamInv'
<1> DEFINE n == Len(p_messages)
<1>1. /\ p_owner = "guard" /\ n \in 1 .. PAM_MAX_NUM_MSG /\ Len(p_slots) = n
      /\ n \in Nat /\ PAM_MAX_NUM_MSG \in Nat /\ p_index \in 1 .. n
      /\ p_slots \in Seq(0 .. PAM_MAX_NUM_MSG) /\ DOMAIN p_slots = 1 .. n
  BY DEF PamInv, Pam!TypeOK, ListInv, Pam!PamWorkerAssumption
<1>2. /\ p_slots' \in Seq(0 .. PAM_MAX_NUM_MSG) /\ Len(p_slots') = n /\ DOMAIN p_slots' = 1 .. n
      /\ \A i \in 1 .. n : i # p_index => p_slots'[i] = p_slots[i]
      /\ p_messages[p_index] = "prompt" => p_slots'[p_index] = p_index
      /\ p_messages[p_index] # "prompt" => p_slots'[p_index] = p_slots[p_index]
  <2>1. p_index \in 0 .. PAM_MAX_NUM_MSG
    BY <1>1
  <2>2. CASE p_messages[p_index] = "notice" /\ UNCHANGED <<p_heap, p_slots>>
    BY <1>1, <2>2
  <2>3. CASE p_messages[p_index] = "prompt" /\ p_slots' = [p_slots EXCEPT ![p_index] = p_index]
    <3>1. p_slots' \in Seq(0 .. PAM_MAX_NUM_MSG) /\ Len(p_slots') = Len(p_slots)
      BY <1>1, <2>1, <2>3, ExceptSeq
    <3>2. QED
      BY <1>1, <2>3, <3>1
  <2>4. QED
    BY <2>2, <2>3
<1>3. UNCHANGED <<p_pc, p_messages, p_owner, p_cancelled, p_handle, p_user, p_status, p_same_user,
                p_verdict>>
  BY DEF Pam!transaction
<1>4. p_slots[p_index] = 0
  BY <1>1 DEF PamInv, SlotInv
<1>5. p_heap = Pam!Reached /\ p_heap' = Pam!Reached'
  <2>1. p_heap = {0} \cup {p_slots[i] : i \in 1 .. n}
    BY <1>1 DEF PamInv, Pam!ResponsesAreOwnedOnce, Pam!Reached
  <2>2. Pam!Reached' = {0} \cup {p_slots'[i] : i \in 1 .. n}
    BY <1>2 DEF Pam!Reached
  <2>3. p_heap = Pam!Reached
    BY <1>1 DEF PamInv, Pam!ResponsesAreOwnedOnce
  <2>4. CASE p_messages[p_index] = "notice" /\ UNCHANGED <<p_heap, p_slots>>
    BY <2>1, <2>2, <2>3, <2>4
  <2>5. CASE /\ p_messages[p_index] = "prompt" /\ p_heap' = p_heap \cup {p_index}
             /\ p_slots' = [p_slots EXCEPT ![p_index] = p_index]
    BY <1>1, <1>2, <1>4, <2>1, <2>2, <2>3, <2>5
  <2>6. QED
    BY <2>4, <2>5
<1>6. ListInv'
  BY <1>1, <1>2, <1>3 DEF PamInv, ListInv
<1>7. SlotInv'
  <2>1. ASSUME NEW i \in 1 .. n
        PROVE  /\ p_slots'[i] \in {0, i}
               /\ i < p_index + 1 => ((p_messages[i] = "prompt") <=> (p_slots'[i] = i))
               /\ i >= p_index + 1 => p_slots'[i] = 0
    <3>1. /\ p_slots[i] \in {0, i} /\ (i >= p_index => p_slots[i] = 0)
          /\ i < p_index => ((p_messages[i] = "prompt") <=> (p_slots[i] = i))
      BY <1>1 DEF PamInv, SlotInv
    <3>2. CASE i = p_index
      BY <1>1, <1>2, <1>4, <3>2
    <3>3. CASE i # p_index
      BY <1>1, <1>2, <3>1, <3>3
    <3>4. QED
      BY <3>2, <3>3
  <2>2. QED
    BY <1>2, <1>3, <2>1 DEF SlotInv
<1>8. p_heap' \subseteq 0 .. PAM_MAX_NUM_MSG
  <2>1. \A i \in 1 .. n : p_slots'[i] \in 0 .. PAM_MAX_NUM_MSG
    BY <1>1, <1>2
  <2>2. QED
    BY <1>1, <1>2, <1>5, <2>1 DEF Pam!Reached
<1>9. Pam!TypeOK'
  BY <1>1, <1>2, <1>3, <1>8 DEF PamInv, Pam!TypeOK
<1>10. Pam!ResponsesAreOwnedOnce' /\ VerdictInv'
  BY <1>1, <1>3, <1>5 DEF PamInv, Pam!ResponsesAreOwnedOnce, VerdictInv
<1>11. QED
  BY <1>6, <1>7, <1>9, <1>10 DEF PamInv

\* pam_conversation_inner deals with a message or ends the callback.
LEMMA ConversationKeeps ==
    ASSUME Pam!PamWorkerAssumption, PamInv, Pam!pam_conversation_inner
    PROVE  PamInv'
<1>1. /\ p_pc = "callback" /\ p_index <= Len(p_messages) /\ UNCHANGED Pam!transaction
      /\ p_next_id \in 1 .. MAX_MESSAGES + 1 /\ p_cancelled \in BOOLEAN /\ MAX_MESSAGES \in Nat
  BY DEF Pam!pam_conversation_inner, PamInv, Pam!TypeOK, Pam!PamWorkerAssumption
<1>2. Pam!MayPrompt => p_next_id + 1 \in 1 .. MAX_MESSAGES + 1
  BY <1>1 DEF Pam!MayPrompt
<1>3. CASE Pam!ConversationFails /\ UNCHANGED Pam!conversation
  BY <1>1, <1>3, FailureKeeps DEF Pam!conversation
<1>4. CASE Pam!PromptFails
  <2>1. p_next_id' \in 1 .. MAX_MESSAGES + 1 /\ p_cancelled' \in BOOLEAN
    BY <1>1, <1>2, <1>4 DEF Pam!PromptFails, Pam!conversation
  <2>2. QED
    BY <1>1, <1>4, <2>1, FailureKeeps DEF Pam!PromptFails
<1>5. CASE Pam!PromptAnswered /\ p_messages[p_index] = "prompt"
  <2>1. p_next_id' \in 1 .. MAX_MESSAGES + 1 /\ p_cancelled' = p_cancelled
    BY <1>1, <1>2, <1>5 DEF Pam!PromptAnswered
  <2>2. CASE Pam!ConversationFails
    BY <1>1, <2>1, <2>2, FailureKeeps
  <2>3. CASE ~Pam!ConversationFails
    BY <1>1, <1>5, <2>1, <2>3, AdvanceKeeps DEF Pam!PromptAnswered, Pam!NoMemory
  <2>4. QED
    BY <2>2, <2>3
<1>6. CASE /\ p_messages[p_index] = "notice" /\ p_index' = p_index + 1
           /\ UNCHANGED <<p_pc, p_messages, Pam!memory, Pam!conversation>>
  BY <1>1, <1>6, AdvanceKeeps DEF Pam!memory, Pam!conversation
<1>7. QED
  BY <1>3, <1>4, <1>5, <1>6 DEF Pam!pam_conversation_inner

\* The list goes from the guard to PAM as it is, complete (ConversationSucceeds).
LEMMA SuccessKeeps ==
    ASSUME Pam!PamWorkerAssumption, PamInv, Pam!ConversationSucceeds
    PROVE  PamInv'
<1> USE DEF PamInv, Pam!ConversationSucceeds, Pam!transaction, Pam!conversation
<1>1. Pam!TypeOK'
  BY DEF Pam!TypeOK
<1>2. ListInv' /\ SlotInv'
  BY DEF ListInv, SlotInv
<1>3. Pam!ResponsesAreOwnedOnce' /\ VerdictInv'
  BY DEF Pam!ResponsesAreOwnedOnce, VerdictInv, ListInv, Pam!Reached
<1>4. QED
  BY <1>1, <1>2, <1>3

\* PAM frees the list and all that is in it (PamFrees).
LEMMA FreeKeeps ==
    ASSUME Pam!PamWorkerAssumption, PamInv, Pam!PamFrees
    PROVE  PamInv'
<1>1. p_heap = Pam!Reached
  BY DEF PamInv, Pam!PamFrees, Pam!ResponsesAreOwnedOnce
<1>2. /\ p_pc = "modules" /\ p_heap' = {} /\ p_slots' = << >> /\ p_owner' = "nobody"
      /\ p_messages' = << >> /\ p_index' = 0
      /\ UNCHANGED <<p_pc, p_handle, p_user, p_status, p_same_user, p_verdict,
                   p_next_id, p_cancelled>>
  BY <1>1 DEF Pam!PamFrees, Pam!Drop, Pam!transaction, Pam!conversation
<1>3. Pam!TypeOK'
  BY <1>2 DEF PamInv, Pam!TypeOK, Pam!PamWorkerAssumption
<1>4. ListInv' /\ SlotInv' /\ Pam!ResponsesAreOwnedOnce'
  BY <1>2 DEF ListInv, SlotInv, Pam!ResponsesAreOwnedOnce
<1>5. VerdictInv'
  BY <1>2 DEF PamInv, VerdictInv
<1>6. QED
  BY <1>3, <1>4, <1>5 DEF PamInv

\* The steps of authenticate and run, which have no list (PamStart, PamReturns, CheckUser,
\* PamEnd, Retry), and of a module that changes the user.
LEMMA TransactionKeeps ==
    ASSUME Pam!PamWorkerAssumption, PamInv,
           Pam!PamStart \/ Pam!SetUser \/ Pam!PamReturns \/ Pam!CheckUser \/ Pam!PamEnd \/ Pam!Retry
    PROVE  PamInv'
<1>1. UNCHANGED <<p_messages, p_index, p_heap, p_slots, p_owner>>
  BY DEF Pam!PamStart, Pam!SetUser, Pam!PamReturns, Pam!CheckUser, Pam!PamEnd, Pam!Retry, Pam!memory
<1>2. (p_owner = "guard" <=> p_pc' = "callback") /\ (p_owner = "PAM" => p_pc' = "modules")
  BY DEF PamInv, ListInv, Pam!PamStart, Pam!SetUser, Pam!PamReturns, Pam!CheckUser, Pam!PamEnd,
     Pam!Retry
<1>3. ListInv' /\ SlotInv' /\ Pam!ResponsesAreOwnedOnce'
  BY <1>1, <1>2 DEF PamInv, ListInv, SlotInv, Pam!ResponsesAreOwnedOnce, Pam!Reached
<1>4. Pam!TypeOK' /\ VerdictInv'
  <2>1. CASE Pam!PamStart
    BY <1>1, <2>1 DEF PamInv, Pam!TypeOK, VerdictInv, Pam!PamStart, Pam!conversation
  <2>2. CASE Pam!SetUser
    BY <1>1, <2>2 DEF PamInv, Pam!TypeOK, VerdictInv, Pam!SetUser, Pam!conversation
  <2>3. CASE Pam!PamReturns
    BY <1>1, <2>3 DEF PamInv, Pam!TypeOK, VerdictInv, Pam!PamReturns, Pam!conversation
  <2>4. CASE Pam!CheckUser
    <3>1. p_same_user' \in BOOLEAN /\ (p_same_user' => p_user = Self /\ p_status = "success")
      BY <2>4 DEF Pam!CheckUser, Pam!pam_uid, Pam!PamWorkerAssumption
    <3>2. QED
      BY <1>1, <2>4, <3>1 DEF PamInv, Pam!TypeOK, VerdictInv, Pam!CheckUser, Pam!conversation
  <2>5. CASE Pam!PamEnd
    BY <1>1, <2>5 DEF PamInv, Pam!TypeOK, VerdictInv, Pam!PamEnd, Pam!conversation
  <2>6. CASE Pam!Retry
    <3>1. p_next_id' \in 1 .. MAX_MESSAGES + 1
      BY <2>6 DEF Pam!Retry, Pam!PamWorkerAssumption
    <3>2. {p_same_user', p_cancelled'} \subseteq BOOLEAN /\ p_user' \in User
      BY <2>6 DEF Pam!Retry, Pam!PamWorkerAssumption
    <3>3. QED
      BY <1>1, <2>6, <3>1, <3>2 DEF PamInv, Pam!TypeOK, VerdictInv, Pam!Retry
  <2>7. QED
    BY <2>1, <2>2, <2>3, <2>4, <2>5, <2>6
<1>5. QED
  BY <1>3, <1>4 DEF PamInv

-----------------------------------------------------------------------------
(* Theorems *)

\* A transaction that has not begun has allocated nothing.
LEMMA PamInitInv ==
    ASSUME Pam!PamWorkerAssumption, Pam!Init
    PROVE  PamInv
<1> USE DEF Pam!Init, Pam!PamWorkerAssumption
<1>1. Pam!TypeOK
  <2>1. p_next_id \in 1 .. MAX_MESSAGES + 1 /\ p_index \in 0 .. Len(p_messages) + 1
    OBVIOUS
  <2>2. {p_same_user, p_cancelled} \subseteq BOOLEAN /\ p_user \in User
    OBVIOUS
  <2>3. QED
    BY <2>1, <2>2 DEF Pam!TypeOK
<1>2. ListInv /\ SlotInv /\ Pam!ResponsesAreOwnedOnce /\ VerdictInv
  BY DEF ListInv, SlotInv, Pam!ResponsesAreOwnedOnce, VerdictInv
<1>3. QED
  BY <1>1, <1>2 DEF PamInv

\* Every step of PAM and of the worker keeps the invariant.
LEMMA PamNextInv ==
    ASSUME Pam!PamWorkerAssumption, PamInv, [Pam!Next]_(Pam!vars)
    PROVE  PamInv'
<1>1. CASE Pam!PamCalls
  BY <1>1, CallKeeps
<1>2. CASE Pam!pam_conversation_inner
  BY <1>2, ConversationKeeps
<1>3. CASE Pam!ConversationSucceeds
  BY <1>3, SuccessKeeps
<1>4. CASE Pam!PamFrees
  BY <1>4, FreeKeeps
<1>5. CASE Pam!PamStart \/ Pam!SetUser \/ Pam!PamReturns \/ Pam!CheckUser \/ Pam!PamEnd \/ Pam!Retry
  BY <1>5, TransactionKeeps
<1>6. CASE UNCHANGED Pam!vars
  BY <1>6 DEF Pam!vars, Pam!transaction, Pam!conversation, Pam!memory, PamInv, Pam!TypeOK,
     ListInv, SlotInv, Pam!ResponsesAreOwnedOnce, VerdictInv, Pam!Reached
<1>7. QED
  BY <1>1, <1>2, <1>3, <1>4, <1>5, <1>6 DEF Pam!Next

\* What the invariant says to PAM and to the locker.
LEMMA PamInvImplies ==
    ASSUME PamInv
    PROVE  /\ Pam!TypeOK /\ Pam!ResponsesAreOwnedOnce /\ Pam!EveryPromptIsAnswered
           /\ Pam!SuccessIsForSelf /\ Pam!TransactionIsEnded
<1>1. Pam!EveryPromptIsAnswered
  <2>1. SUFFICES ASSUME p_owner = "PAM", NEW i \in DOMAIN p_messages
                 PROVE  (p_messages[i] = "prompt") <=> (p_slots[i] = i)
    BY DEF Pam!EveryPromptIsAnswered
  <2>2. i \in 1 .. Len(p_messages) /\ Len(p_messages) \in Nat
    BY DEF PamInv, Pam!TypeOK
  <2>3. i \in 1 .. Len(p_slots) /\ i < p_index
    BY <2>1, <2>2 DEF PamInv, ListInv
  <2>4. QED
    BY <2>3 DEF PamInv, SlotInv
<1>2. Pam!SuccessIsForSelf
  BY DEF PamInv, VerdictInv, Pam!SuccessIsForSelf
<1>3. Pam!TransactionIsEnded
  BY DEF PamInv, Pam!TypeOK, VerdictInv, ListInv, Pam!TransactionIsEnded
<1>4. QED
  BY <1>1, <1>2, <1>3 DEF PamInv

\* The invariant holds in every behaviour of a transaction and its retries.
THEOREM PamInvariance ==
    ASSUME Pam!PamWorkerAssumption
    PROVE  Pam!Spec => []PamInv
<1>1. Pam!Init => PamInv
  BY PamInitInv
<1>2. PamInv /\ [Pam!Next]_(Pam!vars) => PamInv'
  BY PamNextInv
<1>3. QED
  BY <1>1, <1>2, PTL DEF Pam!Spec

\* However a callback ends, the responses are freed exactly once, by the guard or by PAM, and
\* a list that PAM gets answers its prompts (pam_conversation, PendingResponses).
THEOREM PamOwnership ==
    ASSUME Pam!PamWorkerAssumption
    PROVE  Pam!Spec => [](Pam!ResponsesAreOwnedOnce /\ Pam!EveryPromptIsAnswered)
<1>1. PamInv => Pam!ResponsesAreOwnedOnce /\ Pam!EveryPromptIsAnswered
  BY PamInvImplies
<1>2. QED
  BY <1>1, PamInvariance, PTL

\* Success is reported only for the user who runs the locker, of a transaction that PAM
\* granted, that nobody cancelled and that has been ended (authenticate, run).
THEOREM PamVerdict ==
    ASSUME Pam!PamWorkerAssumption
    PROVE  Pam!Spec => [](Pam!SuccessIsForSelf /\ Pam!TransactionIsEnded)
<1>1. PamInv => Pam!SuccessIsForSelf /\ Pam!TransactionIsEnded
  BY PamInvImplies
<1>2. QED
  BY <1>1, PamInvariance, PTL

-----------------------------------------------------------------------------
(* What LockAuth takes as given of the worker *)

PartInv ==
    /\ part = "channel" => Channel!Inv
    /\ part = "pam" => PamInv

\* Messages arrive as sent, no silent worker is given up and no slow start waited for; the
\* responses of a PAM callback are owned once and success is for the user who runs the
\* locker: for messages, limits and users of any number (Connection::receive_before,
\* start_with_worker, pam_conversation, authenticate).
THEOREM Word == MCSpec => []WorkerKeepsItsWord
<1>1. MCInit => PartInv
  BY PamAssumption, ChannelAssumption, PamInitInv, Channel!InitInv DEF MCInit, PartInv
<1>2. PartInv /\ [MCNext]_mcVars => PartInv'
  <2>1. SUFFICES ASSUME PartInv, [MCNext]_mcVars
                 PROVE  PartInv'
    OBVIOUS
  <2>2. part' = part
    BY <2>1 DEF MCNext, mcVars
  <2>3. part = "pam" => [Pam!Next]_(Pam!vars)
    <3>1. UNCHANGED pamVars => UNCHANGED Pam!vars
      BY DEF pamVars, Pam!vars, Pam!transaction, Pam!conversation, Pam!memory
    <3>2. QED
      BY <2>1, <3>1 DEF MCNext, mcVars
  <2>4. part = "channel" => [Channel!Next]_(Channel!vars)
    <3>1. UNCHANGED pool => UNCHANGED Channel!vars
      BY DEF pool, Channel!vars, Channel!sender, Channel!receiver
    <3>2. QED
      BY <2>1, <3>1 DEF MCNext, mcVars
  <2>5. part = "pam" => PamInv'
    BY <2>1, <2>3, PamAssumption, PamNextInv DEF PartInv
  <2>6. part = "channel" => Channel!Inv'
    BY <2>1, <2>4, ChannelAssumption, Channel!NextInv DEF PartInv
  <2>7. QED
    BY <2>2, <2>5, <2>6 DEF PartInv
<1>3. PartInv => WorkerKeepsItsWord
  BY PamInvImplies, Channel!InvImplies DEF PartInv, WorkerKeepsItsWord
<1>4. QED
  BY <1>1, <1>2, <1>3, PTL DEF MCSpec
=============================================================================
