------------------------------ MODULE LockAuth ------------------------------
(***************************************************************************)
(* Authentication of a locked session: the locker's user-interface thread  *)
(* (LockerPresentation and its Conversation, src/locker/mod.rs), the       *)
(* client of the private authentication worker with its reader thread      *)
(* (src/locker/auth.rs), the worker process (crates/lock-auth) and PAM.    *)
(*                                                                         *)
(*    UI thread --toWorker--> worker process <--> PAM                      *)
(*        ^                        |                                       *)
(*        +--events-- reader <--toLocker                                   *)
(*                                                                         *)
(* The UI thread owns at most one client.  Cancelling one joins its reader *)
(* before a replacement is started, so a single worker, reader and pair of *)
(* channels are enough; a replacement resets them.                         *)
(*                                                                         *)
(* Text is abstracted to its origin: a keystroke is the prompt that was on *)
(* display when it was typed, a response is the set of its keystrokes.     *)
(***************************************************************************)
EXTENDS Naturals, Sequences

CONSTANTS
    EventCapacity,   \* EVENT_CAPACITY: bound of the reader's event channel
    SocketCapacity,  \* messages the kernel buffers from the worker
    MaxPrompts,      \* MAX_MESSAGES: prompts of one PAM transaction
    MaxAttempts,     \* bound of the model on Conversation attempts
    MaxNotices       \* bound of the model on notices of one worker

ASSUME CapacityAssumption ==
    /\ EventCapacity \in Nat \ {0}
    /\ SocketCapacity \in Nat \ {0}
    /\ MaxPrompts \in Nat
    /\ MaxAttempts \in Nat
    /\ MaxNotices \in Nat

VARIABLES
    confirmed,   \* the compositor confirmed the lock
    authorized,  \* LockerPresentation.authorized, not yet taken
    unlocked,    \* the runtime took an authorisation and unlocked
    status,      \* Conversation.status
    attempt,     \* Conversation.attempt
    input,       \* Conversation.input: origins of the typed characters
    promptId,    \* LockerPresentation.prompt_id, 0 when None
    shown,       \* the prompt on display (origin of the next keystroke)
    ui,          \* what the UI thread is doing
    client,      \* LockerPresentation.auth
    events,      \* the bounded channel reader -> UI
    dropped,     \* the UI thread dropped the receiver of events
    reader,      \* the reader thread
    toLocker,    \* socket, worker -> locker
    toWorker,    \* socket, locker -> worker
    shut,        \* the locker shut the socket down
    worker,      \* where the worker process is
    txn,         \* the PAM transaction, numbered over all workers
    nextId,      \* PamConversation.next_id
    serving,     \* the attempt the transaction was begun for
    granted,     \* PAM granted the transaction
    clean,       \* the worker exited with status 0
    notices,     \* notices sent by this worker
    handed       \* the last response the worker handed to PAM

convVars   == <<status, attempt, input>>
uiVars     == <<confirmed, authorized, unlocked, convVars, promptId, shown, ui, client>>
linkVars   == <<events, dropped, reader, toLocker, toWorker, shut>>
exitVars   == <<granted, clean>>
txnVars    == <<txn, nextId, serving>>
workerVars == <<worker, txnVars, exitVars, notices, handed>>
vars       == <<uiVars, linkVars, workerVars>>

-----------------------------------------------------------------------------
(* Values *)

NoPrompt  == <<0, 0>>           \* a prompt is <<transaction, id>>
NoClient  == [present |-> FALSE, attempt |-> 0]
Holding(a) == [present |-> TRUE, attempt |-> a]

Statuses  == {"Waiting", "Submitting", "Succeeded", "Failed"}
UiStates  == {"dispatch", "joining", "starting"}
ReaderPcs == {"reading", "sending", "reaping", "sendLast", "done"}
WorkerPcs == {"await_begin", "pam", "await_response", "await_retry",
              "exiting", "exited"}

Prompt  == [kind : {"Prompt"}, txn : Nat, id : Nat]
Notice  == [kind |-> "Notice"]
Success == [kind |-> "Success"]
Failure == [kind |-> "Failure"]
Event   == Prompt \cup {Notice, Success, Failure}

Origin  == Nat \X Nat
Request == [kind : {"Begin", "Retry"}, attempt : Nat]
             \cup [kind : {"Response"}, id : Nat, typed : SUBSET Origin]

Reading == [pc |-> "reading", held |-> Notice]

TypeOK ==
    /\ confirmed \in BOOLEAN /\ authorized \in BOOLEAN /\ unlocked \in BOOLEAN
    /\ status \in Statuses /\ attempt \in Nat /\ input \in SUBSET Origin
    /\ promptId \in Nat /\ shown \in Origin
    /\ ui \in UiStates
    /\ client \in [present : BOOLEAN, attempt : Nat]
    /\ events \in Seq(Event) /\ Len(events) <= EventCapacity /\ dropped \in BOOLEAN
    /\ reader \in [pc : ReaderPcs, held : Event]
    /\ toLocker \in Seq(Event) /\ toWorker \in Seq(Request) /\ shut \in BOOLEAN
    /\ worker \in WorkerPcs
    /\ txn \in Nat /\ nextId \in 1 .. MaxPrompts + 1 /\ serving \in Nat
    /\ granted \in BOOLEAN /\ clean \in BOOLEAN /\ notices \in Nat
    /\ handed \in [prompt : Origin, typed : SUBSET Origin]

-----------------------------------------------------------------------------
(* Conversation, src/conversation.rs *)

clear_response_Forgotten == UNCHANGED input
clear_response == input' = {}

begin_attempt ==
    /\ attempt' = attempt + 1
    /\ clear_response
    /\ status' = "Submitting"

fail ==
    /\ clear_response
    /\ status' = "Failed"
    /\ UNCHANGED attempt

\* Conversation::submit moves the input out.
submit_KeepsWaiting == input' = {} /\ UNCHANGED <<status, attempt>>
submit ==
    /\ input' = {}
    /\ status' = "Submitting"
    /\ UNCHANGED attempt

\* Writing to the worker fails once its end of the socket is closed.
WorkerOpen == worker # "exited" /\ ~shut

-----------------------------------------------------------------------------
(* The UI thread.  It handles one event at a time and never runs while it  *)
(* waits for a reader to join or for a replacement worker.                 *)

Dispatching == ui = "dispatch" /\ ~unlocked

\* After receive_latest the runtime takes the authorisation before any input.
AcceptsInput == Dispatching /\ confirmed /\ ~authorized

lock_confirmed ==
    /\ Dispatching /\ ~confirmed
    /\ confirmed' = TRUE
    /\ IF WorkerOpen
         THEN /\ toWorker' = Append(toWorker, [kind |-> "Begin", attempt |-> attempt])
              /\ UNCHANGED convVars
         ELSE fail /\ UNCHANGED toWorker
    /\ UNCHANGED <<authorized, unlocked, promptId, shown, ui, client, events, dropped,
                   reader, toLocker, shut, workerVars>>

\* One turn of the loop of receive_auth.
receive_auth ==
    /\ AcceptsInput
    /\ client.present /\ events # <<>>
    /\ events' = Tail(events)
    /\ LET e == Head(events) IN
       IF client.attempt # attempt
         THEN UNCHANGED <<authorized, convVars, promptId, shown>>
         ELSE \/ /\ e.kind = "Prompt"
                 /\ promptId' = e.id /\ shown' = <<e.txn, e.id>>
                 /\ clear_response /\ status' = "Waiting"
                 /\ UNCHANGED <<authorized, attempt>>
              \/ /\ e.kind = "Notice"
                 /\ UNCHANGED <<authorized, convVars, promptId, shown>>
              \/ /\ e.kind = "Success"
                 /\ promptId' = 0 /\ clear_response /\ status' = "Succeeded"
                 /\ authorized' = TRUE
                 /\ UNCHANGED <<attempt, shown>>
              \/ /\ e.kind = "Failure"
                 /\ promptId' = 0 /\ shown' = NoPrompt /\ fail
                 /\ UNCHANGED authorized
    /\ UNCHANGED <<confirmed, unlocked, ui, client, dropped, reader, toLocker, toWorker,
                   shut, workerVars>>

\* The runtime consumes the authorisation in the same turn of its loop,
\* unlocks and terminates.
take_authorization ==
    /\ Dispatching /\ authorized
    /\ authorized' = FALSE
    /\ unlocked' = TRUE
    /\ UNCHANGED <<confirmed, convVars, promptId, shown, ui, client, linkVars, workerVars>>

push_input ==
    /\ AcceptsInput /\ status = "Waiting"
    /\ input' = input \cup {shown}
    /\ UNCHANGED <<confirmed, authorized, unlocked, status, attempt, promptId, shown, ui,
                   client, linkVars, workerVars>>

pop_input ==
    /\ AcceptsInput /\ status = "Waiting" /\ input # {}
    /\ input' \in SUBSET input
    /\ UNCHANGED <<confirmed, authorized, unlocked, status, attempt, promptId, shown, ui,
                   client, linkVars, workerVars>>

\* Input::Submit while a prompt is answered.
Answer ==
    /\ AcceptsInput /\ status # "Failed" /\ promptId # 0
    /\ promptId' = 0
    /\ IF status # "Waiting"
         THEN UNCHANGED <<convVars, toWorker>>
         ELSE IF client.present /\ (client.attempt # attempt \/ ~WorkerOpen)
           THEN fail /\ UNCHANGED toWorker
           ELSE /\ submit
                /\ IF client.present
                     THEN toWorker' = Append(toWorker, [kind |-> "Response", id |-> promptId,
                                                        typed |-> input])
                     ELSE UNCHANGED toWorker
    /\ UNCHANGED <<confirmed, authorized, unlocked, shown, ui, client, events, dropped,
                   reader, toLocker, shut, workerVars>>

\* SIGKILL; the child is reaped, whatever it was doing.
KillWorker ==
    /\ worker' = "exited"
    /\ clean' = (worker = "exited" /\ clean)

DropReceiver_Forgotten == UNCHANGED dropped
DropReceiver == dropped' = TRUE

\* Client::cancel up to the join: drop the receiver, shut the socket down,
\* kill the worker.
BeginCancel ==
    /\ DropReceiver
    /\ shut' = TRUE
    /\ KillWorker
    /\ client' = NoClient
    /\ ui' = "joining"

\* Input::Submit after a failure.
CanRetry_WithoutPrompt == AcceptsInput /\ promptId = 0 /\ attempt < MaxAttempts
CanRetry == AcceptsInput /\ status = "Failed" /\ attempt < MaxAttempts

\* The surviving client now serves the new attempt.
AdoptAttempt == client' = Holding(attempt')

retry ==
    /\ CanRetry
    /\ begin_attempt
    /\ promptId' = 0 /\ shown' = NoPrompt
    /\ \/ /\ client.present /\ WorkerOpen
          /\ toWorker' = Append(toWorker, [kind |-> "Retry", attempt |-> attempt'])
          /\ AdoptAttempt
          /\ UNCHANGED <<ui, dropped, shut, worker, clean>>
       \/ /\ client.present /\ ~WorkerOpen
          /\ BeginCancel
          /\ UNCHANGED toWorker
       \/ /\ ~client.present
          /\ ui' = "starting"
          /\ UNCHANGED <<client, dropped, shut, worker, clean, toWorker>>
    /\ UNCHANGED <<confirmed, authorized, unlocked, events, reader, toLocker, txnVars,
                   granted, notices, handed>>

\* Input::Cancel.
cancel_attempt ==
    /\ AcceptsInput /\ client.present /\ attempt < MaxAttempts
    /\ begin_attempt
    /\ promptId' = 0 /\ shown' = NoPrompt
    /\ BeginCancel
    /\ UNCHANGED <<confirmed, authorized, unlocked, events, reader, toLocker, toWorker,
                   txnVars, granted, notices, handed>>

\* Client::cancel returns when the reader thread ended.
join ==
    /\ ui = "joining" /\ reader.pc = "done"
    /\ ui' = "starting"
    /\ UNCHANGED <<confirmed, authorized, unlocked, convVars, promptId, shown, client,
                   linkVars, workerVars>>

\* replace_worker: a fresh worker answered Ready for the right identity and
\* was told to begin ...
StartWorker ==
    /\ ui = "starting"
    /\ ui' = "dispatch"
    /\ client' = Holding(attempt)
    /\ events' = <<>> /\ dropped' = FALSE /\ reader' = Reading
    /\ toLocker' = <<>> /\ shut' = FALSE
    /\ toWorker' = <<[kind |-> "Begin", attempt |-> attempt]>>
    /\ worker' = "await_begin" /\ nextId' = 1 /\ serving' = 0
    /\ granted' = FALSE /\ clean' = FALSE /\ notices' = 0
    /\ UNCHANGED <<confirmed, authorized, unlocked, convVars, promptId, shown, txn, handed>>

\* ... or it could not be started, timed out, had another identity, or died.
StartWorkerFails ==
    /\ ui = "starting"
    /\ ui' = "dispatch"
    /\ fail
    /\ UNCHANGED <<confirmed, authorized, unlocked, promptId, shown, client, linkVars,
                   workerVars>>

-----------------------------------------------------------------------------
(* The reader thread, read_worker in src/locker/auth.rs *)

ReaderReceive ==
    /\ reader.pc = "reading" /\ toLocker # <<>>
    /\ toLocker' = Tail(toLocker)
    /\ reader' = [pc |-> IF Head(toLocker) = Success THEN "reaping" ELSE "sending",
                  held |-> Head(toLocker)]
    /\ UNCHANGED <<uiVars, events, dropped, toWorker, shut, workerVars>>

ReportFailure == reader' = [pc |-> "sendLast", held |-> Failure]

\* End of file, or an event that can no longer be delivered: kill the worker,
\* reap it and report a failure.
ReaderBreak ==
    /\ \/ reader.pc = "reading" /\ toLocker = <<>> /\ ~WorkerOpen
       \/ reader.pc = "sending" /\ dropped
    /\ KillWorker
    /\ ReportFailure
    /\ UNCHANGED <<uiVars, events, dropped, toLocker, toWorker, shut, txnVars, granted,
                   notices, handed>>

ReaderSend ==
    /\ reader.pc = "sending" /\ ~dropped /\ Len(events) < EventCapacity
    /\ events' = Append(events, reader.held)
    /\ reader' = Reading
    /\ UNCHANGED <<uiVars, dropped, toLocker, toWorker, shut, workerVars>>

Verdict_OfMessage == Success
Verdict == IF clean THEN Success ELSE Failure

\* send_terminal: the success counts only if the worker also exits cleanly.
ReaderReap ==
    /\ reader.pc = "reaping" /\ worker = "exited"
    /\ reader' = [pc |-> "sendLast", held |-> Verdict]
    /\ UNCHANGED <<uiVars, events, dropped, toLocker, toWorker, shut, workerVars>>

ReaderSendLast ==
    /\ reader.pc = "sendLast"
    /\ \/ dropped /\ UNCHANGED events
       \/ ~dropped /\ Len(events) < EventCapacity /\ events' = Append(events, reader.held)
    /\ reader' = [pc |-> "done", held |-> reader.held]
    /\ UNCHANGED <<uiVars, dropped, toLocker, toWorker, shut, workerVars>>

-----------------------------------------------------------------------------
(* The worker process, crates/lock-auth/src/main.rs *)

CanSend == Len(toLocker) < SocketCapacity

\* A PAM transaction begins: await_begin, or Retry after a failure.
WorkerBegin ==
    /\ \/ worker = "await_begin" /\ toWorker # <<>> /\ Head(toWorker).kind = "Begin"
       \/ worker = "await_retry" /\ toWorker # <<>> /\ Head(toWorker).kind = "Retry"
    /\ toWorker' = Tail(toWorker)
    /\ worker' = "pam"
    /\ txn' = txn + 1 /\ nextId' = 1 /\ serving' = Head(toWorker).attempt
    /\ UNCHANGED <<uiVars, events, dropped, reader, toLocker, shut, exitVars, notices, handed>>

\* PamConversation::prompt refuses a prompt beyond MAX_MESSAGES.
MayPrompt == nextId <= MaxPrompts

\* PamConversation::prompt, first half.
PamPrompt ==
    /\ worker = "pam" /\ MayPrompt /\ CanSend
    /\ toLocker' = Append(toLocker, [kind |-> "Prompt", txn |-> txn, id |-> nextId])
    /\ worker' = "await_response" /\ nextId' = nextId + 1
    /\ UNCHANGED <<uiVars, events, dropped, reader, toWorker, shut, txn, serving, exitVars,
                   notices, handed>>

\* PamConversation::prompt, second half: any message but the matching
\* response makes the callback fail; PAM goes on either way.
PromptReply ==
    /\ worker = "await_response" /\ toWorker # <<>>
    /\ toWorker' = Tail(toWorker)
    /\ worker' = "pam"
    /\ LET m == Head(toWorker) IN
       IF m.kind = "Response" /\ m.id = nextId - 1
         THEN handed' = [prompt |-> <<txn, m.id>>, typed |-> m.typed]
         ELSE UNCHANGED handed
    /\ UNCHANGED <<uiVars, events, dropped, reader, toLocker, shut, txnVars, exitVars, notices>>

PamNotice ==
    /\ worker = "pam" /\ notices < MaxNotices /\ CanSend
    /\ toLocker' = Append(toLocker, Notice)
    /\ notices' = notices + 1
    /\ UNCHANGED <<uiVars, events, dropped, reader, toWorker, shut, worker, txnVars, exitVars,
                   handed>>

\* pam_authenticate and pam_end succeeded for the same uid: send Success.
PamGrant ==
    /\ worker = "pam" /\ CanSend
    /\ toLocker' = Append(toLocker, Success)
    /\ worker' = "exiting" /\ granted' = TRUE
    /\ UNCHANGED <<uiVars, events, dropped, reader, toWorker, shut, txnVars, clean, notices,
                   handed>>

\* Authentication failed: send Failure and wait for Retry.
PamDeny ==
    /\ worker = "pam" /\ CanSend
    /\ toLocker' = Append(toLocker, Failure)
    /\ worker' = "await_retry"
    /\ UNCHANGED <<uiVars, events, dropped, reader, toWorker, shut, txnVars, exitVars, notices,
                   handed>>

\* run returned Ok after sending Success.
WorkerExit ==
    /\ worker = "exiting"
    /\ worker' = "exited" /\ clean' = TRUE
    /\ UNCHANGED <<uiVars, linkVars, txnVars, granted, notices, handed>>

\* A PAM module crashes or kills the worker, or run returns Err.
WorkerCrash ==
    /\ worker # "exited"
    /\ worker' = "exited" /\ clean' = FALSE
    /\ UNCHANGED <<uiVars, linkVars, txnVars, granted, notices, handed>>

-----------------------------------------------------------------------------

\* run in src/locker/mod.rs: the first worker is ready before the lock is
\* requested and waits for Begin.
Init ==
    /\ confirmed = FALSE /\ authorized = FALSE /\ unlocked = FALSE
    /\ status = "Submitting" /\ attempt = 1 /\ input = {}
    /\ promptId = 0 /\ shown = NoPrompt
    /\ ui = "dispatch" /\ client = Holding(1)
    /\ events = <<>> /\ dropped = FALSE /\ reader = Reading
    /\ toLocker = <<>> /\ toWorker = <<>> /\ shut = FALSE
    /\ worker = "await_begin" /\ txn = 0 /\ nextId = 1 /\ serving = 0
    /\ granted = FALSE /\ clean = FALSE /\ notices = 0
    /\ handed = [prompt |-> NoPrompt, typed |-> {}]

UiNext ==
    \/ lock_confirmed \/ receive_auth \/ take_authorization
    \/ push_input \/ pop_input \/ Answer \/ retry \/ cancel_attempt
    \/ join \/ StartWorker \/ StartWorkerFails

ReaderNext == ReaderReceive \/ ReaderBreak \/ ReaderSend \/ ReaderReap \/ ReaderSendLast

WorkerNext ==
    \/ WorkerBegin \/ PamPrompt \/ PromptReply \/ PamNotice \/ PamGrant \/ PamDeny
    \/ WorkerExit \/ WorkerCrash

Next == UiNext \/ ReaderNext \/ WorkerNext

\* The threads keep running: the runtime polls receive_latest on every turn
\* and takes an authorisation it finds, the reader thread and a join are not
\* suspended for ever, replace_worker is bounded by READY_TIMEOUT, and a worker
\* blocked in a read resumes when a message arrives.  Nothing is assumed of the
\* user, of PAM or of crashes.
Fairness ==
    /\ WF_vars(receive_auth) /\ WF_vars(take_authorization)
    /\ WF_vars(join) /\ WF_vars(StartWorker \/ StartWorkerFails)
    /\ WF_vars(ReaderNext)
    /\ WF_vars(WorkerBegin) /\ WF_vars(PromptReply) /\ WF_vars(WorkerExit)

Spec == Init /\ [][Next]_vars /\ Fairness
-----------------------------------------------------------------------------
(* Properties *)

\* The session is only ever authorised or unlocked by a PAM transaction that
\* granted the attempt now current, in a worker that then exited cleanly: not
\* by a stale success, a cancelled worker's or a crashing one's (receive_auth,
\* send_terminal, cancel_attempt).
AuthorizedByCurrentAttempt ==
    authorized \/ unlocked =>
        /\ confirmed /\ client.present
        /\ granted /\ clean
        /\ serving = attempt

\* What the worker hands to PAM for a prompt was typed while that very prompt
\* was on display, never for an earlier prompt or transaction (clear_response
\* on every prompt, the id check of PamConversation::prompt).
ResponseReachesItsPrompt == handed.typed \subseteq {handed.prompt}

\* While the conversation waits for input and its worker lives, the worker
\* awaits the answer to exactly the prompt on display: the id that submit will
\* use is the one PamConversation::prompt compares with, although ids restart
\* with every transaction.
PromptIsAnswerable ==
    status = "Waiting" /\ WorkerOpen =>
        /\ client.present /\ toWorker = <<>>
        /\ worker = "await_response"
        /\ promptId = nextId - 1
        /\ shown = <<txn, promptId>>

\* The UI thread writes to the worker with blocking writes.  At most one
\* message is ever unread by a live worker, so such a write cannot stall it
\* while PAM keeps the worker busy (Client::begin, respond, retry).
WriteNeverBlocks == WorkerOpen => Len(toWorker) <= 1

\* Cancelling cannot hang the UI thread: it gets past the join with the reader,
\* even one blocked on a full event channel, and the replacement (Client::cancel,
\* replace_worker).
CancelReturns == (ui = "joining") ~> (ui = "dispatch")

\* A worker that dies while the user waits for it is noticed: the conversation
\* does not stay in Submitting or Waiting (read_worker, receive_auth).
DeadWorkerIsReported ==
    (confirmed /\ client.present /\ worker = "exited")
        ~> (status \in {"Failed", "Succeeded"} \/ ~client.present)

\* A prompt the worker blocks on reaches the display, whatever notices precede
\* it in the bounded channels, unless the worker dies.
PromptIsShown ==
    (worker = "await_response") ~> (status = "Waiting" \/ worker # "await_response")
=============================================================================
