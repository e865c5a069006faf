------------------------------- MODULE Greeter -------------------------------
(***************************************************************************)
(* The greeter: App and its messages (src/app/mod.rs and auth_flow.rs),    *)
(* its Conversation, and the asynchronous tasks that talk to greetd        *)
(* (src/auth.rs).                                                          *)
(*                                                                         *)
(* App::update handles one message at a time.  The tasks it starts run     *)
(* beside it, one exchange with greetd after the other, and end with a     *)
(* message to App.  greetd is external: it serves one session at a time,   *)
(* over any connection, and keeps it until the session is cancelled.       *)
(*                                                                         *)
(* Text is abstracted to its origin, the question on display when it was   *)
(* typed.  Focus, scrolling, the session menu and previews hold nothing    *)
(* that authentication depends on and are left out.                        *)
(***************************************************************************)
EXTENDS Naturals, FiniteSets

CONSTANTS
    Account,        \* users
    Session,        \* desktop sessions
    None,           \* no user, no desktop session
    Stranger,       \* owner of a session left by an earlier greeter
    MaxAttempts,    \* bound of the model on attempts the user begins
    MaxQuestions    \* bound of the model on questions greetd asks

ASSUME GreeterAssumption ==
    /\ None \notin Account \cup Session /\ Stranger \notin Account \cup {None}
    /\ MaxAttempts \in Nat /\ MaxQuestions \in Nat

VARIABLES
    phase, status, attempt, input, client,  \* App and its Conversation
    username, accounts,                     \* the user, the users discovered
    selected_session,
    selection_session_cancelled,
    power_state, closing,
    shown,       \* the question on display
    exited,      \* iced::exit after the session was started
    tasks,       \* running tasks
    inbox,       \* messages of finished tasks
    timer,       \* close_timeout is running
    confirmed,   \* greetd confirmed the cancellation before the window closed
    owner,       \* greetd: user of the session being set up
    stage,       \* greetd: what that session waits for
    question,    \* greetd: number of the last question asked
    answered,    \* greetd: the last answer and the question it was taken for
    started      \* greetd: the session to start when the greeter is gone

convVars   == <<status, attempt, input, shown>>
userVars   == <<username, accounts, selected_session, selection_session_cancelled>>
closeVars  == <<closing, exited, timer, confirmed>>
appVars    == <<phase, convVars, client, userVars, power_state, closeVars>>
greetdVars == <<owner, stage, question, answered, started>>
vars       == <<appVars, tasks, inbox, greetdVars>>

-----------------------------------------------------------------------------
(* Values *)

Phases == {"Failed", "DiscoveringUsers", "CancellingForUserSelection", "SelectingUser",
           "UserSelectionCancellationFailed", "CreatingSession", "WaitingForInput",
           "Authenticating", "StartingSession"}
Actions == {"Suspend", "Reboot", "PowerOff"}
Idle    == <<"Idle">>
PowerStates == {Idle} \cup ({"Confirming", "Executing"} \X Actions)
Closings == {"None", "WaitingForClient", "WaitingForUserSelectionCancellation",
             "Cancelling", "Dispatching"}

\* The steps of a task, each one exchange with greetd or one call elsewhere.
CreateSteps   == {"cancel", "recover", "create"}
ExchangeSteps == {"post", "acknowledge", "start"}
OtherSteps    == {"cancelToClose", "cancelToSelect", "discover", "power"}

\* A user is given to create a session, typed text to post, a desktop session to
\* start.
Task == [step : CreateSteps, attempt : Nat, user : Account, typed : {{}}, session : {None}]
          \cup [step : ExchangeSteps \cup OtherSteps, attempt : Nat, user : {None},
                typed : SUBSET Nat, session : Session \cup {None}]
Responses == {"Prompt", "Message", "Success", "Error", "Lost"}
Message == [kind : {"AuthResult", "AccountsResult", "UserSelectionCancelled",
                    "SessionCancelled", "PowerResult"},
            attempt : Nat, response : Responses, connected : BOOLEAN, question : Nat]

TypeOK ==
    /\ phase \in Phases /\ status \in {"Waiting", "Submitting", "Succeeded", "Failed"}
    /\ attempt \in Nat /\ input \in SUBSET Nat /\ shown \in Nat /\ client \in BOOLEAN
    /\ username \in Account \cup {None} /\ accounts \in SUBSET Account
    /\ selected_session \in Session \cup {None}
    /\ selection_session_cancelled \in BOOLEAN
    /\ power_state \in PowerStates /\ closing \in Closings
    /\ exited \in BOOLEAN /\ timer \in BOOLEAN /\ confirmed \in BOOLEAN
    /\ tasks \in SUBSET Task /\ inbox \in SUBSET Message
    /\ owner \in Account \cup {None, Stranger}
    /\ stage \in {"question", "message", "authenticated"}
    /\ question \in 0 .. MaxQuestions
    /\ answered \in [question : Nat, typed : SUBSET Nat]
    /\ started \in [user : Account \cup {None}, session : Session \cup {None}]

-----------------------------------------------------------------------------
(* Conversation, src/conversation.rs *)

clear_response_Forgotten == UNCHANGED input
clear_response == input' = {}

begin_attempt ==
    /\ attempt' = attempt + 1
    /\ clear_response
    /\ status' = "Submitting"
    /\ UNCHANGED shown

invalidate_attempt ==
    /\ attempt' = attempt + 1
    /\ clear_response
    /\ UNCHANGED <<status, shown>>

\* Bound of the model: the user begins no more attempts.
MayBegin == attempt < MaxAttempts

-----------------------------------------------------------------------------
(* Tasks, src/app/auth_flow.rs *)

Perform(s, a) ==
    [step |-> s, attempt |-> a, user |-> None, typed |-> {}, session |-> None]
Create(s, a, u) == [Perform(s, a) EXCEPT !.user = u]

begin(u, a, recover)  == Create(IF recover THEN "recover" ELSE "create", a, u)
restart(c, u, a)      == Create(IF c THEN "cancel" ELSE "recover", a, u)
exchange(s, a)        == Perform(s, a)
cancel_for_close      == Perform("cancelToClose", 0)
cancel_for_user_selection(a) == Perform("cancelToSelect", a)
discover_accounts     == Perform("discover", 0)

-----------------------------------------------------------------------------
(* App: what the user does *)

Running == ~exited /\ closing # "Dispatching"

\* The filters at the head of update, for messages of the user's ...
Interactive == Running /\ closing = "None" /\ power_state = Idle

\* ... and for the others.
PassesClosing_WithoutTimeout(kind) ==
    CASE closing = "None" -> TRUE
      [] closing = "WaitingForClient" -> kind \in {"AuthResult", "SessionCancelled"}
      [] closing = "WaitingForUserSelectionCancellation" ->
           kind \in {"UserSelectionCancelled", "CloseTimeout"}
      [] closing = "Cancelling" -> kind \in {"SessionCancelled", "CloseTimeout"}
      [] closing = "Dispatching" -> FALSE
PassesClosing(kind) ==
    CASE closing = "None" -> TRUE
      [] closing = "WaitingForClient" ->
           kind \in {"AuthResult", "SessionCancelled", "CloseTimeout"}
      [] closing = "WaitingForUserSelectionCancellation" ->
           kind \in {"UserSelectionCancelled", "CloseTimeout"}
      [] closing = "Cancelling" -> kind \in {"SessionCancelled", "CloseTimeout"}
      [] closing = "Dispatching" -> FALSE

PassesPower(kind) ==
    \/ power_state = Idle
    \/ kind \in {"AuthResult", "AccountsResult", "CloseRequested", "SessionCancelled",
                 "CloseTimeout"}
    \/ kind = "PowerResult" /\ power_state[1] = "Executing"

can_change_user ==
    /\ Interactive /\ Cardinality(accounts) > 1
    /\ phase \in {"WaitingForInput", "Failed"}

can_select_session_Always == Interactive /\ selected_session # None
can_select_session ==
    /\ Interactive /\ selected_session # None
    /\ phase \notin {"Authenticating", "StartingSession"}

can_select_account == Interactive /\ phase = "SelectingUser"

can_request_power_WhileCancelling ==
    /\ Interactive
    /\ phase \in {"WaitingForInput", "Failed", "SelectingUser",
                  "UserSelectionCancellationFailed", "CancellingForUserSelection"}
can_request_power ==
    /\ Interactive
    /\ phase \in {"WaitingForInput", "Failed", "SelectingUser",
                  "UserSelectionCancellationFailed"}

fail ==
    /\ phase' = "Failed"
    /\ clear_response /\ status' = "Failed"
    /\ UNCHANGED <<attempt, shown>>

\* update_input replaces the text by the field's, which the user edited.
InputChanged ==
    /\ Interactive /\ status = "Waiting"
    /\ input' \in SUBSET (input \cup {shown})
    /\ UNCHANGED <<phase, status, attempt, shown, client, userVars, power_state, closeVars,
                   tasks, inbox, greetdVars>>

Submit ==
    /\ Interactive /\ status = "Waiting"
    /\ IF client
         THEN /\ status' = "Submitting" /\ input' = {} /\ phase' = "Authenticating"
              /\ tasks' = tasks \cup {[exchange("post", attempt) EXCEPT !.typed = input]}
              /\ UNCHANGED <<attempt, shown>>
         ELSE fail /\ UNCHANGED tasks
    /\ UNCHANGED <<client, userVars, power_state, closeVars, inbox, greetdVars>>

retry_authentication ==
    /\ MayBegin
    /\ phase' = "CreatingSession"
    /\ begin_attempt
    /\ tasks' = tasks \cup {restart(client, username, attempt')}
    /\ client' = FALSE

DiscoverAgain ==
    /\ phase' = "DiscoveringUsers"
    /\ tasks' = tasks \cup {discover_accounts}
    /\ UNCHANGED <<convVars, client>>

Retry ==
    /\ Interactive /\ phase = "Failed"
    /\ IF username = None THEN DiscoverAgain ELSE retry_authentication
    /\ UNCHANGED <<userVars, power_state, closeVars, inbox, greetdVars>>

\* With the sessions found this time, or none as before.
RetrySession ==
    /\ Interactive /\ phase = "Failed" /\ selected_session = None
    /\ selected_session' \in Session
    /\ IF username = None THEN DiscoverAgain ELSE retry_authentication
    /\ UNCHANGED <<username, accounts, selection_session_cancelled, power_state, closeVars,
                   inbox, greetdVars>>

ChangeUser ==
    /\ can_change_user /\ MayBegin
    /\ begin_attempt
    /\ username' = None /\ selection_session_cancelled' = FALSE
    /\ phase' = "CancellingForUserSelection"
    /\ client' = FALSE
    /\ tasks' = tasks \cup {cancel_for_user_selection(attempt')}
    /\ UNCHANGED <<accounts, selected_session, power_state, closeVars, inbox, greetdVars>>

RetryUserSelectionCancellation ==
    /\ Interactive /\ phase = "UserSelectionCancellationFailed" /\ MayBegin
    /\ begin_attempt
    /\ phase' = "CancellingForUserSelection"
    /\ tasks' = tasks \cup {cancel_for_user_selection(attempt')}
    /\ UNCHANGED <<client, userVars, power_state, closeVars, inbox, greetdVars>>

\* The session of the account being replaced is gone or is to be recovered.
select_account(u) ==
    /\ MayBegin
    /\ username' = u
    /\ phase' = "CreatingSession"
    /\ begin_attempt
    /\ selection_session_cancelled' = FALSE
    /\ tasks' = tasks \cup {IF username # None THEN restart(client, u, attempt')
                            ELSE begin(u, attempt', ~selection_session_cancelled)}
    /\ client' = IF username # None THEN FALSE ELSE client

SelectAccount(u) ==
    /\ can_select_account /\ u \in accounts /\ u # username
    /\ select_account(u)
    /\ UNCHANGED <<accounts, selected_session, power_state, closeVars, inbox, greetdVars>>

SelectSession(s) ==
    /\ can_select_session
    /\ selected_session' = s
    /\ UNCHANGED <<phase, convVars, client, username, accounts, selection_session_cancelled,
                   power_state, closeVars, tasks, inbox, greetdVars>>

AskPower(a) ==
    /\ can_request_power
    /\ power_state' = <<"Confirming", a>>
    /\ UNCHANGED <<phase, convVars, client, userVars, closeVars, tasks, inbox, greetdVars>>

CancelPower ==
    /\ Running /\ closing = "None" /\ power_state[1] = "Confirming"
    /\ power_state' = Idle
    /\ UNCHANGED <<phase, convVars, client, userVars, closeVars, tasks, inbox, greetdVars>>

ConfirmPower ==
    /\ Running /\ closing = "None" /\ power_state[1] = "Confirming"
    /\ power_state' = <<"Executing", power_state[2]>>
    /\ tasks' = tasks \cup {Perform("power", 0)}
    /\ UNCHANGED <<phase, convVars, client, userVars, closeVars, inbox, greetdVars>>

-----------------------------------------------------------------------------
(* App: closing the window *)

\* The session is being created over a connection App does not have yet.
AwaitsClient_Never == FALSE
AwaitsClient == ~client /\ phase = "CreatingSession"

CloseRequested ==
    /\ Running /\ closing = "None"
    /\ \/ /\ selection_session_cancelled
          /\ closing' = "Dispatching" /\ confirmed' = TRUE
          /\ UNCHANGED <<convVars, client, timer, tasks>>
       \/ /\ ~selection_session_cancelled /\ phase = "CancellingForUserSelection"
          /\ closing' = "WaitingForUserSelectionCancellation" /\ timer' = TRUE
          /\ UNCHANGED <<convVars, client, confirmed, tasks>>
       \/ /\ ~selection_session_cancelled /\ phase # "CancellingForUserSelection"
          /\ AwaitsClient
          /\ closing' = "WaitingForClient" /\ timer' = TRUE
          /\ UNCHANGED <<convVars, client, confirmed, tasks>>
       \/ /\ ~selection_session_cancelled /\ phase # "CancellingForUserSelection"
          /\ ~AwaitsClient
          /\ invalidate_attempt
          /\ closing' = "Cancelling" /\ timer' = TRUE
          /\ tasks' = tasks \cup {cancel_for_close}
          /\ client' = FALSE
          /\ UNCHANGED confirmed
    /\ UNCHANGED <<phase, userVars, power_state, exited, inbox, greetdVars>>

is_cleaning == closing \notin {"None", "Dispatching"}

CloseTimeout ==
    /\ Running /\ timer
    /\ timer' = FALSE
    /\ IF PassesClosing("CloseTimeout") /\ is_cleaning
         THEN invalidate_attempt /\ closing' = "Dispatching"
         ELSE UNCHANGED <<convVars, closing>>
    /\ UNCHANGED <<phase, client, userVars, power_state, exited, confirmed, tasks, inbox,
                   greetdVars>>

-----------------------------------------------------------------------------
(* App: results of tasks *)

Ignore == UNCHANGED <<appVars, tasks>>

\* Which of greetd's messages the user answers (Response::from).
IsPrompt_AnyMessage(r) == r \in {"Prompt", "Message"}
IsPrompt(r) == r = "Prompt"

\* transition and handle_auth_response, for a response of greetd.
handle_auth_response(m) ==
    LET connected == client \/ m.connected IN
    /\ client' = connected
    /\ \/ /\ m.response = "Success" /\ phase = "StartingSession"
          /\ exited' = TRUE
          /\ UNCHANGED <<phase, convVars, tasks>>
       \/ /\ IsPrompt(m.response)
          /\ phase' = "WaitingForInput" /\ status' = "Waiting" /\ shown' = m.question
          /\ clear_response
          /\ UNCHANGED <<attempt, exited, tasks>>
       \/ /\ m.response = "Message" /\ ~IsPrompt("Message")
          /\ IF connected
               THEN /\ tasks' = tasks \cup {exchange("acknowledge", attempt)}
                    /\ UNCHANGED <<phase, convVars>>
               ELSE fail /\ UNCHANGED tasks
          /\ UNCHANGED exited
       \/ /\ m.response = "Success" /\ phase # "StartingSession" /\ selected_session # None
          /\ IF connected
               THEN /\ phase' = "StartingSession"
                    /\ clear_response /\ status' = "Succeeded" /\ UNCHANGED <<attempt, shown>>
                    /\ tasks' = tasks \cup
                         {[exchange("start", attempt) EXCEPT !.session = selected_session]}
               ELSE fail /\ UNCHANGED tasks
          /\ UNCHANGED exited
       \/ /\ \/ m.response = "Error"
             \/ m.response = "Success" /\ phase # "StartingSession" /\ selected_session = None
          /\ fail
          /\ UNCHANGED <<exited, tasks>>
    /\ UNCHANGED <<userVars, power_state, closing, timer, confirmed>>

handle_auth_result(m) ==
    IF m.attempt # attempt THEN Ignore
    ELSE IF closing = "WaitingForClient"
      THEN /\ invalidate_attempt
           /\ closing' = "Cancelling"
           /\ tasks' = tasks \cup {cancel_for_close}
           /\ UNCHANGED <<phase, client, userVars, power_state, exited, timer, confirmed>>
    ELSE IF m.response = "Lost"
      THEN fail /\ UNCHANGED <<client, userVars, power_state, closeVars, tasks>>
    ELSE handle_auth_response(m)

\* AccountsService lists the users A; one of them may be preferred.
AccountsResult(A) ==
    \/ /\ A = {} /\ fail
       /\ UNCHANGED <<client, userVars, power_state, closeVars, tasks>>
    \/ /\ A # {} /\ accounts' = A
       /\ \E u \in A : select_account(u)
       /\ UNCHANGED <<selected_session, power_state, closeVars>>
    \/ /\ Cardinality(A) > 1 /\ accounts' = A
       /\ phase' = "SelectingUser"
       /\ UNCHANGED <<convVars, client, username, selected_session,
                      selection_session_cancelled, power_state, closeVars, tasks>>

UserSelectionCancelled(m) ==
    IF m.attempt # attempt THEN Ignore
    ELSE IF closing = "WaitingForUserSelectionCancellation"
      THEN /\ closing' = "Dispatching" /\ confirmed' = (m.response = "Success")
           /\ UNCHANGED <<phase, convVars, client, userVars, power_state, exited, timer, tasks>>
    ELSE IF phase = "CancellingForUserSelection"
      THEN /\ \/ /\ m.response = "Success"
                 /\ phase' = "SelectingUser" /\ selection_session_cancelled' = TRUE
              \/ /\ m.response # "Success"
                 /\ phase' = "UserSelectionCancellationFailed"
                 /\ UNCHANGED selection_session_cancelled
           /\ UNCHANGED <<convVars, client, username, accounts, selected_session,
                          power_state, closeVars, tasks>>
    ELSE Ignore

SessionCancelled(m) ==
    IF is_cleaning
      THEN /\ closing' = "Dispatching" /\ confirmed' = (m.response = "Success")
           /\ UNCHANGED <<phase, convVars, client, userVars, power_state, exited, timer, tasks>>
      ELSE Ignore

\* A suspended system comes back; one that goes down leaves the dialog as it is.
PowerResult(m) ==
    /\ power_state' = IF m.response # "Success" \/ power_state = <<"Executing", "Suspend">>
                        THEN Idle ELSE power_state
    /\ UNCHANGED <<phase, convVars, client, userVars, closeVars, tasks>>

\* One message of a task, which the filters may drop.
Receive(m) ==
    /\ Running /\ m \in inbox
    /\ inbox' = inbox \ {m}
    /\ IF ~(PassesClosing(m.kind) /\ PassesPower(m.kind)) THEN Ignore
       ELSE \/ m.kind = "AuthResult" /\ handle_auth_result(m)
            \/ m.kind = "AccountsResult" /\ \E A \in SUBSET Account : AccountsResult(A)
            \/ m.kind = "UserSelectionCancelled" /\ UserSelectionCancelled(m)
            \/ m.kind = "SessionCancelled" /\ SessionCancelled(m)
            \/ m.kind = "PowerResult" /\ PowerResult(m)
    /\ UNCHANGED greetdVars

-----------------------------------------------------------------------------
(* greetd.  A session that is set up asks questions and sends messages     *)
(* until it is authenticated; only then can it be started.                 *)

Refuse == UNCHANGED greetdVars

\* What the session does next: r is greetd's response.
Proceed(r) ==
    \/ /\ r = "Prompt" /\ question < MaxQuestions
       /\ question' = question + 1 /\ stage' = "question"
    \/ r = "Message" /\ stage' = "message" /\ UNCHANGED question
    \/ r = "Success" /\ stage' = "authenticated" /\ UNCHANGED question

\* A failed session is gone, or waits to be cancelled.
Fails ==
    /\ owner' \in {owner, None}
    /\ UNCHANGED <<stage, question, started>>

Serve(t, r) ==
    CASE t.step \in {"cancel", "recover", "cancelToClose", "cancelToSelect"} ->
           \/ /\ r = "Success" /\ owner' = None
              /\ UNCHANGED <<stage, question, answered, started>>
           \/ r = "Error" /\ Refuse
      [] t.step = "create" ->
           \/ /\ owner = None /\ owner' = t.user /\ Proceed(r)
              /\ UNCHANGED <<answered, started>>
           \/ r = "Error" /\ Refuse
      [] t.step = "post" ->
           \/ /\ owner # None /\ stage = "question"
              /\ answered' = [question |-> question, typed |-> t.typed]
              /\ \/ Proceed(r) /\ UNCHANGED <<owner, started>>
                 \/ r = "Error" /\ Fails
           \/ r = "Error" /\ ~(owner # None /\ stage = "question") /\ Refuse
      [] t.step = "acknowledge" ->
           \/ /\ owner # None /\ stage = "message"
              /\ UNCHANGED answered
              /\ \/ Proceed(r) /\ UNCHANGED <<owner, started>>
                 \/ r = "Error" /\ Fails
           \/ r = "Error" /\ ~(owner # None /\ stage = "message") /\ Refuse
      [] t.step = "start" ->
           \/ /\ owner \in Account /\ stage = "authenticated" /\ r = "Success"
              /\ started' = [user |-> owner, session |-> t.session]
              /\ owner' = None
              /\ UNCHANGED <<stage, question, answered>>
           \/ r = "Error" /\ Refuse
      [] OTHER -> r \in {"Success", "Error"} /\ Refuse

-----------------------------------------------------------------------------
(* Running tasks *)

ReplyKind(step) ==
    CASE step \in CreateSteps \cup ExchangeSteps -> "AuthResult"
      [] step = "cancelToClose" -> "SessionCancelled"
      [] step = "cancelToSelect" -> "UserSelectionCancelled"
      [] step = "discover" -> "AccountsResult"
      [] step = "power" -> "PowerResult"

Finish(t, r) ==
    /\ tasks' = tasks \ {t}
    /\ inbox' = inbox \cup {[kind |-> ReplyKind(t.step), attempt |-> t.attempt, response |-> r,
                             connected |-> t.step = "create" /\ r # "Lost",
                             question |-> IF r = "Prompt" THEN question' ELSE 0]}

\* restart_at and recover_and_begin_at: a cancellation that fails is tried again
\* over a connection of its own, and the session is created whatever came of that.
NextStep(step, r) == IF step = "cancel" /\ r # "Success" THEN "recover" ELSE "create"

Continue(t, r) ==
    /\ tasks' = (tasks \ {t}) \cup {[t EXCEPT !.step = NextStep(t.step, r)]}
    /\ UNCHANGED inbox

\* One exchange of a task.  The connection may break before greetd sees the
\* request, or before its response arrives.
Exchange(t) ==
    /\ t \in tasks
    /\ \E r \in Responses, arrives \in BOOLEAN :
         /\ IF r = "Lost" THEN Refuse ELSE Serve(t, r)
         /\ LET seen == IF arrives THEN r ELSE "Lost" IN
            IF t.step \in {"cancel", "recover"} THEN Continue(t, seen) ELSE Finish(t, seen)
    /\ UNCHANGED appVars

-----------------------------------------------------------------------------

\* App::new, with a session in greetd that a crashed greeter may have left.
Init ==
    /\ status = "Submitting" /\ attempt = 1 /\ input = {} /\ shown = 0
    /\ client = FALSE /\ selection_session_cancelled = FALSE
    /\ power_state = Idle /\ closing = "None" /\ exited = FALSE /\ timer = FALSE
    /\ confirmed = FALSE /\ inbox = {}
    /\ username \in Account \cup {None}
    /\ accounts = {username} \ {None}
    /\ selected_session \in Session \cup {None}
    /\ \/ /\ selected_session # None /\ username # None
          /\ phase = "CreatingSession" /\ tasks = {begin(username, attempt, TRUE)}
       \/ /\ selected_session # None /\ username = None
          /\ phase = "DiscoveringUsers" /\ tasks = {discover_accounts}
       \/ /\ selected_session = None
          /\ phase = "Failed" /\ tasks = {}
    /\ owner \in {None, Stranger} /\ stage = "question" /\ question = 0
    /\ answered = [question |-> 0, typed |-> {}]
    /\ started = [user |-> None, session |-> None]

User ==
    \/ InputChanged \/ Submit \/ Retry \/ RetrySession \/ ChangeUser
    \/ RetryUserSelectionCancellation \/ CancelPower \/ ConfirmPower \/ CloseRequested
    \/ \E u \in Account : SelectAccount(u)
    \/ \E s \in Session : SelectSession(s)
    \/ \E a \in Actions : AskPower(a)

Next ==
    \/ User \/ CloseTimeout
    \/ \E m \in inbox : Receive(m)
    \/ \E t \in tasks : Exchange(t)

\* Messages are handled and the timer expires.  Nothing is assumed of the user
\* or of greetd, which may take for ever.
Fairness == WF_vars(CloseTimeout) /\ WF_vars(\E m \in inbox : Receive(m))

Spec == Init /\ [][Next]_vars /\ Fairness

-----------------------------------------------------------------------------
(* Properties *)

\* What greetd takes as the answer to a question was typed while that question
\* was on display: not for an earlier one, nor for another user's session
\* (update_input, submit, begin_attempt).
ResponseReachesItsQuestion == answered.typed \subseteq {answered.question}

\* The greeter exits only when greetd is to start the desktop session that is
\* selected for the user on display (can_select_session, transition).
ExitStartsSelection ==
    exited => started = [user |-> username, session |-> selected_session]

\* The reply that a phase waits for.
Expects ==
    CASE phase \in {"CreatingSession", "Authenticating", "StartingSession"} -> {"AuthResult"}
      [] phase = "CancellingForUserSelection" -> {"UserSelectionCancelled"}
      [] phase = "DiscoveringUsers" -> {"AccountsResult"}
      [] OTHER -> {}
\* The replies under way for attempt a, and those that belong to no attempt.
Replies(a) ==
    {<<ReplyKind(t.step), t>> : t \in {s \in tasks : s.attempt \in {0, a}}}
      \cup {<<m.kind, m>> : m \in {n \in inbox : n.attempt \in {0, a}}}

\* A phase that waits does so for exactly one reply, which is under way; a phase
\* that waits for the user has no reply to come.  No filter of update and no
\* stale attempt swallows the one it needs (update, handle_auth_result).
ReplyIsOwed ==
    Running /\ closing = "None" =>
        LET owed == {p \in Replies(attempt) : p[1] # "PowerResult"} IN
        /\ {p[1] : p \in owed} = Expects
        /\ Cardinality(owed) <= 1

\* A request over the current client fits what greetd's session waits for: the
\* user's answer goes to a question, never to a message, and the session that
\* is started is the user's and authenticated (handle_auth_response, Submit).
RequestFitsSession ==
    Running /\ closing = "None" =>
        \A t \in tasks :
            t.step \in ExchangeSteps =>
                /\ owner = username
                /\ t.step = "post" => stage = "question" /\ question = shown
                /\ t.step = "acknowledge" => stage = "message"
                /\ t.step = "start" => stage = "authenticated"

\* A window that closes after a confirmed cancellation leaves no session in
\* greetd, half authenticated for whoever connects next (CloseRequested,
\* handle_auth_result, select_account).
CloseLeavesNoSession ==
    closing = "Dispatching" /\ confirmed => owner = None

\* Closing ends, although greetd may never answer (close_timeout).
ClosingEnds == (closing # "None") ~> (closing = "Dispatching")
=============================================================================
