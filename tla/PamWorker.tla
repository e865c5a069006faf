------------------------------ MODULE PamWorker ------------------------------
(***************************************************************************)
(* One PAM transaction of the authentication worker                        *)
(* (crates/lock-auth/src/main.rs): authenticate, and the conversation      *)
(* callback that PAM's modules call with lists of messages.  The responses *)
(* are allocated for PAM, which frees them, unless the callback fails or   *)
(* panics between two of them; and a module may have changed the user by   *)
(* the time it reports success.                                            *)
(*                                                                         *)
(* A message is "prompt", "notice", "null", "long" (beyond the protocol's  *)
(* limit) or "odd" (of an unknown style).  An allocation is the list of    *)
(* responses, 0, or the response to message i, i.                          *)
(***************************************************************************)
EXTENDS Naturals, Sequences, FiniteSets

CONSTANTS
    User,              \* names PAM_USER may have
    Self,              \* of the user who runs the worker
    PAM_MAX_NUM_MSG, MAX_MESSAGES

PamWorkerAssumption ==
    /\ Self \in User \ {"nobody"}    \* which stands for a name that is not found
    /\ PAM_MAX_NUM_MSG \in Nat \ {0} /\ MAX_MESSAGES \in Nat

VARIABLES
    pc,         \* "start", "modules", "callback", "check", "end", "done"
    handle,     \* "none", "live" or "ended"
    user,       \* PAM_USER
    status,     \* what pam_authenticate returned
    same_user,
    verdict,    \* what run sends: "Success" or "Failure"
    messages,   \* the list of the callback
    index,      \* the message it is at
    next_id,    \* of PamConversation
    cancelled,
    heap,       \* live allocations
    slots,      \* the response of each message in the list, 0 for none
    owner       \* of the list: "nobody", "guard" (PendingResponses) or "PAM"

transaction  == <<handle, user, status, same_user, verdict>>
conversation == <<next_id, cancelled>>
memory       == <<heap, slots, owner>>
vars == <<pc, transaction, messages, index, conversation, memory>>

Message == {"prompt", "notice", "null", "long", "odd"}

\* Allocations that can be reached through the list.
Reached == {0} \cup {slots[i] : i \in DOMAIN slots}

-----------------------------------------------------------------------------
(* pam_conversation *)

\* Drop of PendingResponses: every response is freed, then the list.
Drop == heap' = heap \ Reached /\ slots' = << >> /\ owner' = "nobody"

\* PAM_CONV_ERR, by a return or a panic that pam_conversation catches.
ConversationFails ==
    /\ pc' = "modules" /\ Drop
    /\ messages' = << >> /\ index' = 0

\* A module calls; the last list of responses, if any, it has freed by then.  A call with
\* a bad count or a null pointer, or one there is no memory for, fails and changes nothing.
PamCalls ==
    /\ pc = "modules" /\ owner = "nobody"
    /\ \E count \in 1 .. PAM_MAX_NUM_MSG : messages' \in [1 .. count -> Message]
    /\ pc' = "callback" /\ index' = 1
    /\ heap' = heap \cup {0} /\ slots' = [i \in DOMAIN messages' |-> 0] /\ owner' = "guard"
    /\ UNCHANGED <<transaction, conversation>>

\* PamConversation::prompt fails: too many, the channel broke, a wrong answer, or Cancel.
MayPrompt == next_id <= MAX_MESSAGES

PromptFails ==
    /\ ConversationFails
    /\ \/ ~MayPrompt /\ UNCHANGED conversation
       \/ MayPrompt /\ next_id' = next_id + 1 /\ cancelled' \in {cancelled, TRUE}

\* No memory for a response.
NoMemory == ConversationFails

PromptAnswered ==
    /\ MayPrompt /\ next_id' = next_id + 1 /\ UNCHANGED cancelled
    /\ \/ NoMemory
       \/ /\ heap' = heap \cup {index} /\ slots' = [slots EXCEPT ![index] = index]
          /\ index' = index + 1 /\ UNCHANGED <<pc, messages, owner>>

pam_conversation_inner ==
    /\ pc = "callback" /\ index <= Len(messages)
    /\ \/ /\ messages[index] \in {"null", "long", "odd"}
          /\ ConversationFails /\ UNCHANGED conversation
       \/ messages[index] = "prompt" /\ (PromptFails \/ PromptAnswered)
       \/ /\ messages[index] = "notice" /\ index' = index + 1
          /\ UNCHANGED <<pc, messages, memory, conversation>>
       \/ ConversationFails /\ UNCHANGED conversation    \* a panic
    /\ UNCHANGED transaction

\* The list is released to PAM, and the guard dropped without it.
ConversationSucceeds ==
    /\ pc = "callback" /\ index = Len(messages) + 1
    /\ pc' = "modules" /\ owner' = "PAM"
    /\ UNCHANGED <<transaction, messages, index, conversation, heap, slots>>

-----------------------------------------------------------------------------
(* PAM: external *)

PamFrees ==
    /\ pc = "modules" /\ owner = "PAM" /\ Drop
    /\ messages' = << >> /\ index' = 0
    /\ UNCHANGED <<pc, transaction, conversation>>

SetUser ==
    /\ pc = "modules" /\ user' \in User
    /\ UNCHANGED <<pc, handle, status, same_user, verdict, messages, index, conversation, memory>>

-----------------------------------------------------------------------------
(* authenticate *)

PamStart ==
    /\ pc = "start"
    /\ \/ pc' = "modules" /\ handle' = "live" /\ UNCHANGED verdict
       \/ pc' = "done" /\ verdict' = "Failure" /\ UNCHANGED handle
    /\ UNCHANGED <<user, status, same_user, messages, index, conversation, memory>>

\* pam_authenticate returns, whatever its modules were told.
PamReturns ==
    /\ pc = "modules" /\ owner = "nobody"
    /\ pc' = "check" /\ status' \in {"success", "error"}
    /\ UNCHANGED <<handle, user, same_user, verdict, messages, index, conversation, memory>>

\* pam_uid: the user PAM has by now; the name may not be found.
\* Bug: the name the transaction began with is taken.
pam_uid_Begun == {Self, "nobody"}
pam_uid == {user, "nobody"}

CheckUser ==
    /\ pc = "check"
    /\ \E found \in pam_uid : same_user' = (status = "success" /\ found = Self)
    /\ pc' = "end"
    /\ UNCHANGED <<handle, user, status, verdict, messages, index, conversation, memory>>

\* pam_end, and run's verdict.
PamEnd ==
    /\ pc = "end" /\ pc' = "done" /\ handle' = "ended"
    /\ \E ended \in {"success", "error"} :
         verdict' = IF same_user /\ ended = "success" /\ ~cancelled THEN "Success" ELSE "Failure"
    /\ UNCHANGED <<user, status, same_user, messages, index, conversation, memory>>

\* run sends the verdict; after a failure Retry begins again.
Retry ==
    /\ pc = "done" /\ verdict = "Failure"
    /\ pc' = "start" /\ handle' = "none" /\ user' = Self /\ status' = "none"
    /\ same_user' = FALSE /\ verdict' = "none" /\ next_id' = 1 /\ cancelled' = FALSE
    /\ UNCHANGED <<messages, index, memory>>

-----------------------------------------------------------------------------
Init ==
    /\ pc = "start" /\ handle = "none" /\ user = Self /\ status = "none"
    /\ same_user = FALSE /\ verdict = "none"
    /\ messages = << >> /\ index = 0 /\ next_id = 1 /\ cancelled = FALSE
    /\ heap = {} /\ slots = << >> /\ owner = "nobody"

Next ==
    \/ PamStart \/ PamCalls \/ pam_conversation_inner \/ ConversationSucceeds
    \/ PamFrees \/ SetUser \/ PamReturns \/ CheckUser \/ PamEnd \/ Retry

Spec == Init /\ [][Next]_vars

-----------------------------------------------------------------------------
(* Properties *)

TypeOK ==
    /\ pc \in {"start", "modules", "callback", "check", "end", "done"}
    /\ handle \in {"none", "live", "ended"} /\ user \in User
    /\ status \in {"none", "success", "error"} /\ {same_user, cancelled} \subseteq BOOLEAN
    /\ verdict \in {"none", "Success", "Failure"}
    /\ messages \in Seq(Message) /\ index \in 0 .. Len(messages) + 1
    /\ next_id \in 1 .. MAX_MESSAGES + 1
    /\ heap \subseteq 0 .. PAM_MAX_NUM_MSG /\ slots \in Seq(0 .. PAM_MAX_NUM_MSG)
    /\ owner \in {"nobody", "guard", "PAM"}

\* However the callback ends (an error at any message, no memory, a panic), the secrets typed
\* so far are freed or PAM's, and nothing PAM or the guard holds has been freed.
ResponsesAreOwnedOnce == heap = IF owner = "nobody" THEN {} ELSE Reached

\* A list that PAM is given answers every prompt in its place and no notice.
EveryPromptIsAnswered ==
    owner = "PAM" => \A i \in DOMAIN messages : (messages[i] = "prompt") = (slots[i] = i)

\* The worker reports success only if PAM succeeded for the very user who runs the locker,
\* though a module changed the user, and nobody cancelled.
SuccessIsForSelf == verdict = "Success" => user = Self /\ status = "success" /\ ~cancelled

\* A transaction that was begun has been ended when its verdict is sent.
TransactionIsEnded == verdict # "none" => handle # "live" /\ owner = "nobody"
=============================================================================
