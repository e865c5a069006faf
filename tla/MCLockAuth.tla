----------------------------- MODULE MCLockAuth -----------------------------
(***************************************************************************)
(* The authentication of a locked session on a small instance, with the    *)
(* two things that LockAuth takes as given of the worker: what it does in  *)
(* a PAM transaction (PamWorker), and that messages arrive whole           *)
(* (WorkerChannel).  Each is an automaton of its own, and a behaviour is   *)
(* one of `part`; the variables v1 to v14 are those of the part that is    *)
(* not LockAuth.                                                           *)
(***************************************************************************)
EXTENDS LockAuth

CONSTANTS
    User, Self, PAM_MAX_NUM_MSG, MAX_MESSAGES,    \* of PamWorker
    Messages, Identity, HEADER_BYTES, UID_BYTES, ID_BYTES, MAX_PAYLOAD_BYTES,
    MAX_RESPONSE_BYTES, MAX_MESSAGE_BYTES, READY_TIMEOUT, MaxSent,
    MaxTime                                       \* of WorkerChannel

VARIABLES
    part,
    p_pc, p_handle, p_user, p_status, p_same_user, p_verdict, p_messages, p_index,
    p_next_id, p_cancelled, p_heap, p_slots, p_owner,
    v1, v2, v3, v4, v5, v6, v7, v8, v9, v10, v11, v12, v13, v14

pamVars == <<p_pc, p_handle, p_user, p_status, p_same_user, p_verdict, p_messages, p_index,
             p_next_id, p_cancelled, p_heap, p_slots, p_owner>>
pool    == <<v1, v2, v3, v4, v5, v6, v7, v8, v9, v10, v11, v12, v13, v14>>
mcVars  == <<vars, part, pamVars, pool>>

Unused == "unused"

Pam == INSTANCE PamWorker
    WITH pc <- p_pc, handle <- p_handle, user <- p_user, status <- p_status,
         same_user <- p_same_user, verdict <- p_verdict, messages <- p_messages,
         index <- p_index, next_id <- p_next_id, cancelled <- p_cancelled,
         heap <- p_heap, slots <- p_slots, owner <- p_owner

Channel == INSTANCE WorkerChannelProofs
    WITH sent <- v1, written <- v2, open <- v3, phase <- v4, pc <- v5, header <- v6,
         length <- v7, payload <- v8, read <- v9, received <- v10, error <- v11,
         timeout <- v12, since <- v13, now <- v14

ASSUME PamAssumption == Pam!PamWorkerAssumption
ASSUME ChannelAssumption == Channel!WorkerChannelAssumption

\* Messages of every kind at and beyond their limits.
Sized(kind, size, nul) == [kind |-> kind, size |-> size, nul |-> nul]

ReadyForSelf == Sized("READY", 1, FALSE)

SizedMessages ==
    {ReadyForSelf, Sized("PROMPT", 1, FALSE), Sized("INFO", 2, FALSE),
     Sized("INFO", 1, TRUE), Sized("RESPONSE", 2, FALSE), Sized("RESPONSE", 3, FALSE),
     Sized("READY", 0, FALSE), Sized("SUCCESS", 0, FALSE), Sized("OTHER", 0, FALSE)}

-----------------------------------------------------------------------------
PamIdle ==
    /\ p_pc = Unused /\ p_handle = Unused /\ p_user = Unused /\ p_status = Unused
    /\ p_same_user = Unused /\ p_verdict = Unused /\ p_messages = Unused /\ p_index = Unused
    /\ p_next_id = Unused /\ p_cancelled = Unused /\ p_heap = Unused /\ p_slots = Unused
    /\ p_owner = Unused

ChannelIdle ==
    /\ v1 = Unused /\ v2 = Unused /\ v3 = Unused /\ v4 = Unused /\ v5 = Unused
    /\ v6 = Unused /\ v7 = Unused /\ v8 = Unused /\ v9 = Unused /\ v10 = Unused
    /\ v11 = Unused /\ v12 = Unused /\ v13 = Unused /\ v14 = Unused

MCInit ==
    /\ Init
    /\ \/ part = "locker" /\ PamIdle /\ ChannelIdle
       \/ part = "pam" /\ Pam!Init /\ ChannelIdle
       \/ part = "channel" /\ PamIdle /\ Channel!Init

MCNext ==
    \/ part = "locker" /\ Next /\ UNCHANGED <<part, pamVars, pool>>
    \/ part = "pam" /\ Pam!Next /\ UNCHANGED <<part, vars, pool>>
    \/ part = "channel" /\ Channel!Next /\ UNCHANGED <<part, vars, pamVars>>

\* Fairness of LockAuth, in the behaviours that are its own.
MCFairness ==
    /\ WF_vars(part = "locker" /\ receive_auth)
    /\ WF_vars(part = "locker" /\ take_authorization)
    /\ WF_vars(part = "locker" /\ join)
    /\ WF_vars(part = "locker" /\ (StartWorker \/ StartWorkerFails))
    /\ WF_vars(part = "locker" /\ ReaderNext)
    /\ WF_vars(part = "locker" /\ WorkerBegin)
    /\ WF_vars(part = "locker" /\ PromptReply)
    /\ WF_vars(part = "locker" /\ WorkerExit)

MCSpec == MCInit /\ [][MCNext]_mcVars /\ MCFairness

-----------------------------------------------------------------------------
(* Properties *)

\* The user interface never waits for good: a cancelled worker lets its reader
\* be joined, a worker that died is reported, and a prompt of a live one is
\* shown (cancel_attempt, Client::drop, read_worker, receive_auth).
ConversationMovesOn ==
    part = "locker" => CancelReturns /\ DeadWorkerIsReported /\ PromptIsShown

\* What LockAuth takes as given of the worker.  Messages arrive as they were
\* sent however the stream is cut, a silent worker is kept and a slow start is
\* not (Connection::receive_before, start_with_worker); the responses of a PAM
\* callback are freed exactly once and answer its prompts, and the worker grants
\* only the user who runs it (pam_conversation, authenticate).
WorkerKeepsItsWord ==
    /\ part = "channel" => /\ Channel!TypeOK /\ Channel!ReceivedAsSent
                           /\ Channel!SilentWorkerIsKept /\ Channel!StartEndsByDeadline
    /\ part = "pam" => /\ Pam!TypeOK /\ Pam!ResponsesAreOwnedOnce /\ Pam!EveryPromptIsAnswered
                       /\ Pam!SuccessIsForSelf /\ Pam!TransactionIsEnded
=============================================================================
