--------------------------- MODULE GreeterProofs ---------------------------
(***************************************************************************)
(* Proofs about Greeter, for any sets of users and desktop sessions and    *)
(* any number of attempts and questions.                                   *)
(*                                                                         *)
(* The argument rests on there being one conversation: apart from a power  *)
(* action and the cancellation a closing window sends, at most one task or *)
(* reply is under way at any time, whatever the user does (OneAtATime).    *)
(* What the reply says of greetd's session is therefore still true when    *)
(* App handles it (ReplyInv), and what App then asks fits the session      *)
(* (TaskInv).                                                              *)
(*                                                                         *)
(* Then proofs about GreeterFocus, in MCGreeter's part of it, for any      *)
(* number of accounts, sessions and messages on their way.  The order of   *)
(* the controls has what is offered, each once (OrderFacts).  Whatever     *)
(* handler sets the focus takes it from that order in the state it makes;  *)
(* a handler that leaves the focus alone leaves what is offered alone too, *)
(* or goes on to a phase that waits (OfferedInv).  A dialog only stands    *)
(* over a page that waits for the user, so no reply changes the page under *)
(* it (DialogInv), and what iced and App think of the input differs only   *)
(* while the press that made the difference is on its way (TypingInv).     *)
(***************************************************************************)
EXTENDS MCGreeter, FiniteSetTheorems, SequenceTheorems, NaturalsInduction,
        WellFoundedInduction, TLAPS

-----------------------------------------------------------------------------
(* The inductive invariant *)

\* Tasks of the conversation, and their replies.
Own  == {t \in tasks : t.step \notin {"power", "cancelToClose"}}
Mail == {m \in inbox : m.kind \notin {"PowerResult", "SessionCancelled"}}

OneAtATime ==
    /\ \A t, u \in Own : t = u
    /\ \A m, n \in Mail : m = n
    /\ Own = {} \/ Mail = {}

\* App listens to the conversation.
Open == ~exited /\ closing = "None"

\* The conversation is of the current attempt and of the kind the phase expects.
CurrentInv ==
    Open =>
        /\ \A t \in Own : /\ t.attempt = IF t.step = "discover" THEN 0 ELSE attempt
                          /\ ReplyKind(t.step) \in Expects
        /\ \A m \in Mail : /\ m.attempt = IF m.kind = "AccountsResult" THEN 0 ELSE attempt
                           /\ m.kind \in Expects
        /\ Expects # {} => Own # {} \/ Mail # {}
        /\ \A t \in tasks : t.step # "cancelToClose"
        /\ \A m \in inbox : m.kind # "SessionCancelled"

\* Phases that belong to a user, and those without one.
UserInv ==
    /\ phase \in {"CreatingSession", "WaitingForInput", "Authenticating", "StartingSession"}
         => username # None
    /\ phase \in {"DiscoveringUsers", "CancellingForUserSelection", "SelectingUser",
                  "UserSelectionCancellationFailed"} => username = None
    /\ username = None => ~client
    /\ status = "Waiting" => phase = "WaitingForInput"
    /\ power_state # Idle =>
         phase \in {"WaitingForInput", "Failed", "SelectingUser",
                    "UserSelectionCancellationFailed"}

\* A session is created only while App has no connection, and never after a
\* cancellation that counts.
Creates == {t \in tasks : t.step \in CreateSteps}
Cancels == {m \in inbox : m.kind \in {"SessionCancelled", "UserSelectionCancelled"}}

CreateInv ==
    Creates # {} =>
        /\ ~client /\ phase = "CreatingSession"
        /\ \A t \in Creates : t.user = username
        /\ \A t \in tasks : t.step # "cancelToClose"
        /\ Cancels = {} /\ ~confirmed /\ ~selection_session_cancelled

ConfirmInv ==
    /\ confirmed => closing = "Dispatching"
    /\ selection_session_cancelled => phase = "SelectingUser"
    /\ confirmed \/ selection_session_cancelled \/ (\E m \in Cancels : m.response = "Success")
         => owner = None

\* What is typed was typed for the question on display.
TypedInv ==
    /\ input \subseteq {shown}
    /\ \A t \in tasks : t.step = "post" => t.typed \subseteq {question}

\* A request fits the session that greetd sets up ...
TaskInv ==
    Open =>
        \A t \in tasks :
            /\ t.step \in ExchangeSteps => owner = username
            /\ t.step = "post" => /\ phase = "Authenticating" /\ stage = "question"
                                  /\ question = shown
            /\ t.step = "acknowledge" => phase # "StartingSession" /\ stage = "message"
            /\ t.step = "start" => /\ phase = "StartingSession" /\ stage = "authenticated"
                                   /\ t.session = selected_session

\* ... and a reply says what became of it.
ReplyInv ==
    Open =>
        /\ phase = "WaitingForInput" =>
             owner = username /\ stage = "question" /\ question = shown
        /\ \A m \in inbox : m.kind = "AuthResult" =>
             /\ m.response = "Prompt" =>
                  owner = username /\ stage = "question" /\ question = m.question
             /\ m.response = "Message" =>
                  phase # "StartingSession" /\ owner = username /\ stage = "message"
             /\ m.response = "Success" =>
                  IF phase = "StartingSession"
                    THEN started = [user |-> username, session |-> selected_session]
                    ELSE owner = username /\ stage = "authenticated"

\* The greeter is gone once it exits.
ExitInv ==
    exited => closing = "None" /\ Own = {} /\ ExitStartsSelection

Inv ==
    /\ TypeOK /\ OneAtATime /\ CurrentInv /\ UserInv /\ CreateInv /\ ConfirmInv /\ TypedInv
    /\ TaskInv /\ ReplyInv /\ ExitInv /\ ResponseReachesItsQuestion

\* App takes a message of a task.
Takes(m) == Running /\ inbox' = inbox \ {m} /\ UNCHANGED greetdVars

-----------------------------------------------------------------------------
(* Tasks *)

\* The tasks of auth_flow.rs are tasks of the model.
LEMMA Performed ==
    ASSUME NEW s \in ExchangeSteps \cup OtherSteps, NEW a \in Nat
    PROVE  /\ Perform(s, a) \in Task
           /\ Perform(s, a).step = s /\ Perform(s, a).attempt = a
  BY DEF Perform, Task

\* So are those that create a session for a user,
LEMMA Created ==
    ASSUME NEW s \in CreateSteps, NEW a \in Nat, NEW u \in Account
    PROVE  /\ Create(s, a, u) \in Task
           /\ Create(s, a, u).step = s /\ Create(s, a, u).attempt = a /\ Create(s, a, u).user = u
  BY DEF Create, Perform, Task

\* those that post what was typed,
LEMMA Posted ==
    ASSUME NEW a \in Nat, NEW T \in SUBSET Nat
    PROVE  LET x == [exchange("post", a) EXCEPT !.typed = T] IN
           x \in Task /\ x.step = "post" /\ x.attempt = a /\ x.typed = T
  BY DEF exchange, Perform, Task, ExchangeSteps

\* and those that start a desktop session.
LEMMA StartTask ==
    ASSUME NEW a \in Nat, NEW s \in Session
    PROVE  LET x == [exchange("start", a) EXCEPT !.session = s] IN
           x \in Task /\ x.step = "start" /\ x.attempt = a /\ x.session = s
  BY DEF exchange, Perform, Task, ExchangeSteps

-----------------------------------------------------------------------------
(* Every step keeps the invariant *)

\* Typing (update_input).
LEMMA InputChangedKeeps ==
    ASSUME Inv, InputChanged
    PROVE  Inv'
<1> USE GreeterAssumption DEF Inv, CreateSteps, ExchangeSteps, OtherSteps, InputChanged,
    Interactive, Running, convVars, userVars, closeVars, appVars, greetdVars
<1>1. TypeOK'
  BY DEF TypeOK, Phases, Closings, PowerStates, Actions, Idle
<1>2. OneAtATime'
  BY DEF OneAtATime, Own, Mail
<1>3. CurrentInv'
  BY DEF CurrentInv, OneAtATime, Own, Mail, Open, Expects, ReplyKind, TypeOK
<1>4. UserInv'
  BY DEF UserInv, TypeOK, CurrentInv, Open
<1>5. CreateInv'
  BY DEF CreateInv, Creates, Cancels, TypeOK
<1>6. ConfirmInv'
  BY DEF ConfirmInv, CreateInv, Creates, Cancels, TypeOK
<1>7. TypedInv'
  BY DEF TypedInv, TypeOK
<1>8. TaskInv'
  BY DEF TaskInv, Open, TypeOK
<1>9. ReplyInv'
  BY DEF ReplyInv, Open, TypeOK
<1>10. ExitInv'
  BY DEF ExitInv, ExitStartsSelection, Own
<1>11. ResponseReachesItsQuestion'
  BY DEF ResponseReachesItsQuestion
<1>12. QED
  BY <1>1, <1>2, <1>3, <1>4, <1>5, <1>6, <1>7, <1>8, <1>9, <1>10, <1>11

\* Submitting posts what was typed (submit).
LEMMA SubmitPostsKeeps ==
    ASSUME Inv, Submit, client
    PROVE  Inv'
<1> USE GreeterAssumption DEF Inv, CreateSteps, ExchangeSteps, OtherSteps, Submit,
    Interactive, Running, convVars, userVars, closeVars, appVars, greetdVars
<1>1. PICK x : x = [exchange("post", attempt) EXCEPT !.typed = input]
  OBVIOUS
<1>2. /\ attempt \in Nat /\ attempt' \in Nat /\ input \in SUBSET Nat
      /\ username \in Account \cup {None}
  BY DEF TypeOK
<1>3. tasks' = tasks \cup {x}
  BY <1>1
<1>4. x \in Task /\ x.step = "post" /\ x.attempt = attempt /\ x.typed = input
  BY <1>1, <1>2, Posted
<1>5. Own = {} /\ Mail = {}
  BY DEF CurrentInv, Open, Expects, UserInv, Own, Mail, Idle, Phases, TypeOK
<1>6. TypeOK'
  BY <1>3, <1>4, <1>5
     DEF TypeOK, Phases, Closings, PowerStates, Actions, Idle
<1>7. OneAtATime'
  BY <1>3, <1>4, <1>5 DEF OneAtATime, Own, Mail
<1>8. CurrentInv'
  BY <1>3, <1>4, <1>5
     DEF CurrentInv, OneAtATime, Own, Mail, Open, Expects, ReplyKind, TypeOK
<1>9. UserInv'
  BY <1>3, <1>4, <1>5 DEF UserInv, TypeOK, CurrentInv, Open
<1>10. CreateInv'
  BY <1>3, <1>4, <1>5 DEF CreateInv, Creates, Cancels, TypeOK
<1>11. ConfirmInv'
  BY <1>3, <1>4, <1>5
     DEF ConfirmInv, CreateInv, Creates, Cancels, TypeOK, UserInv
<1>12. TypedInv'
  BY <1>3, <1>4, <1>5 DEF TypedInv, TypeOK, UserInv, ReplyInv, Open
<1>13. TaskInv'
  BY <1>3, <1>4, <1>5 DEF TaskInv, Open, TypeOK, ReplyInv, UserInv, Own
<1>14. ReplyInv'
  BY <1>3, <1>4, <1>5 DEF ReplyInv, Open, TypeOK, UserInv, Mail
<1>15. ExitInv'
  BY <1>3, <1>4, <1>5 DEF ExitInv, ExitStartsSelection, Own
<1>16. ResponseReachesItsQuestion'
  BY <1>3, <1>4, <1>5 DEF ResponseReachesItsQuestion
<1>17. QED
  BY <1>6, <1>7, <1>8, <1>9, <1>10, <1>11, <1>12, <1>13, <1>14, <1>15, <1>16

\* Without a connection it fails (submit).
LEMMA SubmitFailsKeeps ==
    ASSUME Inv, Submit, ~client
    PROVE  Inv'
<1> USE GreeterAssumption DEF Inv, CreateSteps, ExchangeSteps, OtherSteps, Submit, fail,
    clear_response, Interactive, Running, convVars, userVars, closeVars, appVars, greetdVars
<1>1. Own = {} /\ Mail = {}
  BY DEF CurrentInv, Open, Expects, UserInv, Own, Mail, Idle, Phases, TypeOK
<1>2. TypeOK'
  BY <1>1 DEF TypeOK, Phases, Closings, PowerStates, Actions, Idle
<1>3. OneAtATime'
  BY <1>1 DEF OneAtATime, Own, Mail
<1>4. CurrentInv'
  BY <1>1
     DEF CurrentInv, OneAtATime, Own, Mail, Open, Expects, ReplyKind, TypeOK
<1>5. UserInv'
  BY <1>1 DEF UserInv, TypeOK, CurrentInv, Open
<1>6. CreateInv'
  BY <1>1 DEF CreateInv, Creates, Cancels, TypeOK, Own
<1>7. ConfirmInv'
  BY <1>1 DEF ConfirmInv, CreateInv, Creates, Cancels, TypeOK, UserInv
<1>8. TypedInv'
  BY <1>1 DEF TypedInv, TypeOK
<1>9. TaskInv'
  BY <1>1 DEF TaskInv, Open, TypeOK, UserInv, Own
<1>10. ReplyInv'
  BY <1>1 DEF ReplyInv, Open, TypeOK, UserInv, Mail
<1>11. ExitInv'
  BY <1>1 DEF ExitInv, ExitStartsSelection, Own
<1>12. ResponseReachesItsQuestion'
  BY <1>1 DEF ResponseReachesItsQuestion
<1>13. QED
  BY <1>2, <1>3, <1>4, <1>5, <1>6, <1>7, <1>8, <1>9, <1>10, <1>11, <1>12

\* Retrying without a user discovers them again (retry).
LEMMA RetryDiscoversKeeps ==
    ASSUME Inv, Retry \/ RetrySession, username = None
    PROVE  Inv'
<1> USE GreeterAssumption DEF Inv, CreateSteps, ExchangeSteps, OtherSteps, Retry,
    RetrySession, DiscoverAgain, Interactive, Running, convVars, userVars, closeVars,
    appVars, greetdVars
<1>1. PICK x : x = discover_accounts
  OBVIOUS
<1>2. /\ attempt \in Nat /\ attempt' \in Nat /\ input \in SUBSET Nat
      /\ username \in Account \cup {None}
  BY DEF TypeOK
<1>3. tasks' = tasks \cup {x}
  BY <1>1
<1>4. x \in Task /\ x.step = "discover" /\ x.attempt = 0
  BY <1>1, <1>2, Performed DEF discover_accounts, OtherSteps
<1>5. Own = {} /\ Mail = {}
  BY DEF CurrentInv, Open, Expects, UserInv, Own, Mail, Idle, Phases, TypeOK
<1>6. TypeOK'
  BY <1>3, <1>4, <1>5
     DEF TypeOK, Phases, Closings, PowerStates, Actions, Idle
<1>7. OneAtATime'
  BY <1>3, <1>4, <1>5 DEF OneAtATime, Own, Mail
<1>8. CurrentInv'
  BY <1>3, <1>4, <1>5
     DEF CurrentInv, OneAtATime, Own, Mail, Open, Expects, ReplyKind, TypeOK
<1>9. UserInv'
  BY <1>3, <1>4, <1>5 DEF UserInv, TypeOK, CurrentInv, Open
<1>10. CreateInv'
  BY <1>3, <1>4, <1>5 DEF CreateInv, Creates, Cancels, TypeOK
<1>11. ConfirmInv'
  BY <1>3, <1>4, <1>5 DEF ConfirmInv, CreateInv, Creates, Cancels, TypeOK
<1>12. TypedInv'
  BY <1>3, <1>4, <1>5 DEF TypedInv, TypeOK
<1>13. TaskInv'
  BY <1>3, <1>4, <1>5 DEF TaskInv, Open, TypeOK
<1>14. ReplyInv'
  BY <1>3, <1>4, <1>5 DEF ReplyInv, Open, TypeOK
<1>15. ExitInv'
  BY <1>3, <1>4, <1>5 DEF ExitInv, ExitStartsSelection, Own
<1>16. ResponseReachesItsQuestion'
  BY <1>3, <1>4, <1>5 DEF ResponseReachesItsQuestion
<1>17. QED
  BY <1>6, <1>7, <1>8, <1>9, <1>10, <1>11, <1>12, <1>13, <1>14, <1>15, <1>16

\* Retrying with a user restarts the session (retry_authentication).
LEMMA RetryRestartsKeeps ==
    ASSUME Inv, Retry \/ RetrySession, username # None
    PROVE  Inv'
<1> USE GreeterAssumption DEF Inv, CreateSteps, ExchangeSteps, OtherSteps, Retry,
    RetrySession, retry_authentication, MayBegin, begin_attempt, clear_response,
    Interactive, Running, convVars, userVars, closeVars, appVars, greetdVars
<1>1. PICK x : x = restart(client, username, attempt')
  OBVIOUS
<1>2. /\ attempt \in Nat /\ attempt' \in Nat /\ input \in SUBSET Nat
      /\ username \in Account \cup {None}
  BY DEF TypeOK
<1>3. tasks' = tasks \cup {x}
  BY <1>1
<1>4. x \in Task /\ x.step \in CreateSteps /\ x.attempt = attempt' /\ x.user = username
  BY <1>1, <1>2, Created DEF restart, CreateSteps
<1>5. Own = {} /\ Mail = {}
  BY DEF CurrentInv, Open, Expects, UserInv, Own, Mail, Idle, Phases, TypeOK
<1>6. TypeOK'
  <2>1. /\ phase' \in Phases /\ status' \in {"Waiting", "Submitting", "Succeeded", "Failed"}
        /\ attempt' \in Nat /\ input' \in SUBSET Nat /\ shown' \in Nat
        /\ username' \in Account \cup {None} /\ accounts' \in SUBSET Account
        /\ selected_session' \in Session \cup {None}
        /\ power_state' \in PowerStates /\ closing' \in Closings
    BY <1>3, <1>4, <1>5 DEF TypeOK, Phases, Closings, PowerStates, Actions, Idle
  <2>2. /\ client' \in BOOLEAN /\ selection_session_cancelled' \in BOOLEAN
        /\ exited' \in BOOLEAN /\ timer' \in BOOLEAN /\ confirmed' \in BOOLEAN
    BY <1>3, <1>4, <1>5 DEF TypeOK
  <2>3. tasks' \in SUBSET Task /\ inbox' \in SUBSET Message
    BY <1>3, <1>4, <1>5 DEF TypeOK
  <2>4. /\ owner' \in Account \cup {None, Stranger}
        /\ stage' \in {"question", "message", "authenticated"} /\ question' \in 0 .. MaxQuestions
        /\ answered' \in [question : Nat, typed : SUBSET Nat]
        /\ started' \in [user : Account \cup {None}, session : Session \cup {None}]
    BY <1>3, <1>4, <1>5 DEF TypeOK
  <2>5. QED
    BY <2>1, <2>2, <2>3, <2>4 DEF TypeOK
<1>7. OneAtATime'
  BY <1>3, <1>4, <1>5 DEF OneAtATime, Own, Mail
<1>8. CurrentInv'
  BY <1>3, <1>4, <1>5
     DEF CurrentInv, OneAtATime, Own, Mail, Open, Expects, ReplyKind, TypeOK
<1>9. UserInv'
  BY <1>3, <1>4, <1>5 DEF UserInv, TypeOK, CurrentInv, Open
<1>10. CreateInv'
  BY <1>3, <1>4, <1>5
     DEF CreateInv, Creates, Cancels, TypeOK, ConfirmInv, Own, Mail, CurrentInv, Open
<1>11. ConfirmInv'
  BY <1>3, <1>4, <1>5 DEF ConfirmInv, CreateInv, Creates, Cancels, TypeOK
<1>12. TypedInv'
  BY <1>3, <1>4, <1>5 DEF TypedInv, TypeOK
<1>13. TaskInv'
  BY <1>3, <1>4, <1>5 DEF TaskInv, Open, TypeOK
<1>14. ReplyInv'
  BY <1>3, <1>4, <1>5 DEF ReplyInv, Open, TypeOK
<1>15. ExitInv'
  BY <1>3, <1>4, <1>5 DEF ExitInv, ExitStartsSelection, Own
<1>16. ResponseReachesItsQuestion'
  BY <1>3, <1>4, <1>5 DEF ResponseReachesItsQuestion
<1>17. QED
  BY <1>6, <1>7, <1>8, <1>9, <1>10, <1>11, <1>12, <1>13, <1>14, <1>15, <1>16

\* Changing the user cancels the session first (change_user).
LEMMA ChangeUserKeeps ==
    ASSUME Inv, ChangeUser
    PROVE  Inv'
<1> USE GreeterAssumption DEF Inv, CreateSteps, ExchangeSteps, OtherSteps, ChangeUser,
    can_change_user, MayBegin, begin_attempt, clear_response, Interactive, Running,
    convVars, userVars, closeVars, appVars, greetdVars
<1>1. PICK x : x = cancel_for_user_selection(attempt')
  OBVIOUS
<1>2. /\ attempt \in Nat /\ attempt' \in Nat /\ input \in SUBSET Nat
      /\ username \in Account \cup {None}
  BY DEF TypeOK
<1>3. tasks' = tasks \cup {x}
  BY <1>1
<1>4. x \in Task /\ x.step = "cancelToSelect" /\ x.attempt = attempt'
  BY <1>1, <1>2, Performed DEF cancel_for_user_selection, OtherSteps
<1>5. Own = {} /\ Mail = {}
  BY DEF CurrentInv, Open, Expects, UserInv, Own, Mail, Idle, Phases, TypeOK
<1>6. TypeOK'
  <2>1. /\ phase' \in Phases /\ status' \in {"Waiting", "Submitting", "Succeeded", "Failed"}
        /\ attempt' \in Nat /\ input' \in SUBSET Nat /\ shown' \in Nat
        /\ username' \in Account \cup {None} /\ accounts' \in SUBSET Account
        /\ selected_session' \in Session \cup {None}
        /\ power_state' \in PowerStates /\ closing' \in Closings
    BY <1>3, <1>4, <1>5 DEF TypeOK, Phases, Closings, PowerStates, Actions, Idle
  <2>2. /\ client' \in BOOLEAN /\ selection_session_cancelled' \in BOOLEAN
        /\ exited' \in BOOLEAN /\ timer' \in BOOLEAN /\ confirmed' \in BOOLEAN
    BY <1>3, <1>4, <1>5 DEF TypeOK
  <2>3. tasks' \in SUBSET Task /\ inbox' \in SUBSET Message
    BY <1>3, <1>4, <1>5 DEF TypeOK
  <2>4. /\ owner' \in Account \cup {None, Stranger}
        /\ stage' \in {"question", "message", "authenticated"} /\ question' \in 0 .. MaxQuestions
        /\ answered' \in [question : Nat, typed : SUBSET Nat]
        /\ started' \in [user : Account \cup {None}, session : Session \cup {None}]
    BY <1>3, <1>4, <1>5 DEF TypeOK
  <2>5. QED
    BY <2>1, <2>2, <2>3, <2>4 DEF TypeOK
<1>7. OneAtATime'
  BY <1>3, <1>4, <1>5 DEF OneAtATime, Own, Mail
<1>8. CurrentInv'
  BY <1>3, <1>4, <1>5
     DEF CurrentInv, OneAtATime, Own, Mail, Open, Expects, ReplyKind, TypeOK
<1>9. UserInv'
  BY <1>3, <1>4, <1>5 DEF UserInv, TypeOK, CurrentInv, Open
<1>10. CreateInv'
  BY <1>3, <1>4, <1>5 DEF CreateInv, Creates, Cancels, TypeOK
<1>11. ConfirmInv'
  BY <1>3, <1>4, <1>5 DEF ConfirmInv, CreateInv, Creates, Cancels, TypeOK
<1>12. TypedInv'
  BY <1>3, <1>4, <1>5 DEF TypedInv, TypeOK
<1>13. TaskInv'
  BY <1>3, <1>4, <1>5 DEF TaskInv, Open, TypeOK, Own
<1>14. ReplyInv'
  BY <1>3, <1>4, <1>5 DEF ReplyInv, Open, TypeOK, Mail
<1>15. ExitInv'
  BY <1>3, <1>4, <1>5 DEF ExitInv, ExitStartsSelection, Own
<1>16. ResponseReachesItsQuestion'
  BY <1>3, <1>4, <1>5 DEF ResponseReachesItsQuestion
<1>17. QED
  BY <1>6, <1>7, <1>8, <1>9, <1>10, <1>11, <1>12, <1>13, <1>14, <1>15, <1>16

\* A failed cancellation is tried again (retry_user_selection_cancellation).
LEMMA RetryUserSelectionCancellationKeeps ==
    ASSUME Inv, RetryUserSelectionCancellation
    PROVE  Inv'
<1> USE GreeterAssumption DEF Inv, CreateSteps, ExchangeSteps, OtherSteps,
    RetryUserSelectionCancellation, MayBegin, begin_attempt, clear_response, Interactive,
    Running, convVars, userVars, closeVars, appVars, greetdVars
<1>1. PICK x : x = cancel_for_user_selection(attempt')
  OBVIOUS
<1>2. /\ attempt \in Nat /\ attempt' \in Nat /\ input \in SUBSET Nat
      /\ username \in Account \cup {None}
  BY DEF TypeOK
<1>3. tasks' = tasks \cup {x}
  BY <1>1
<1>4. x \in Task /\ x.step = "cancelToSelect" /\ x.attempt = attempt'
  BY <1>1, <1>2, Performed DEF cancel_for_user_selection, OtherSteps
<1>5. Own = {} /\ Mail = {}
  BY DEF CurrentInv, Open, Expects, UserInv, Own, Mail, Idle, Phases, TypeOK
<1>6. TypeOK'
  BY <1>3, <1>4, <1>5
     DEF TypeOK, Phases, Closings, PowerStates, Actions, Idle
<1>7. OneAtATime'
  BY <1>3, <1>4, <1>5 DEF OneAtATime, Own, Mail
<1>8. CurrentInv'
  BY <1>3, <1>4, <1>5
     DEF CurrentInv, OneAtATime, Own, Mail, Open, Expects, ReplyKind, TypeOK
<1>9. UserInv'
  BY <1>3, <1>4, <1>5 DEF UserInv, TypeOK, CurrentInv, Open
<1>10. CreateInv'
  BY <1>3, <1>4, <1>5 DEF CreateInv, Creates, Cancels, TypeOK
<1>11. ConfirmInv'
  BY <1>3, <1>4, <1>5 DEF ConfirmInv, CreateInv, Creates, Cancels, TypeOK
<1>12. TypedInv'
  BY <1>3, <1>4, <1>5 DEF TypedInv, TypeOK
<1>13. TaskInv'
  BY <1>3, <1>4, <1>5 DEF TaskInv, Open, TypeOK
<1>14. ReplyInv'
  BY <1>3, <1>4, <1>5 DEF ReplyInv, Open, TypeOK
<1>15. ExitInv'
  BY <1>3, <1>4, <1>5 DEF ExitInv, ExitStartsSelection, Own
<1>16. ResponseReachesItsQuestion'
  BY <1>3, <1>4, <1>5 DEF ResponseReachesItsQuestion
<1>17. QED
  BY <1>6, <1>7, <1>8, <1>9, <1>10, <1>11, <1>12, <1>13, <1>14, <1>15, <1>16

\* Selecting a user begins a session (select_account).
LEMMA SelectAccountKeeps ==
    ASSUME Inv, NEW u \in Account, SelectAccount(u)
    PROVE  Inv'
<1> USE GreeterAssumption DEF Inv, CreateSteps, ExchangeSteps, OtherSteps, SelectAccount,
    can_select_account, select_account, MayBegin, begin_attempt, clear_response,
    Interactive, Running, convVars, userVars, closeVars, appVars, greetdVars
<1>1. username = None
  BY DEF UserInv
<1>2. PICK x : x = begin(u, attempt', ~selection_session_cancelled)
  OBVIOUS
<1>3. /\ attempt \in Nat /\ attempt' \in Nat /\ input \in SUBSET Nat
      /\ username \in Account \cup {None}
  BY DEF TypeOK
<1>4. tasks' = tasks \cup {x}
  BY <1>2, <1>1
<1>5. x \in Task /\ x.step \in CreateSteps /\ x.attempt = attempt' /\ x.user = u
  BY <1>2, <1>3, Created DEF begin, CreateSteps
<1>6. Own = {} /\ Mail = {}
  BY DEF CurrentInv, Open, Expects, UserInv, Own, Mail, Idle, Phases, TypeOK
<1>7. TypeOK'
  <2>1. /\ phase' \in Phases /\ status' \in {"Waiting", "Submitting", "Succeeded", "Failed"}
        /\ attempt' \in Nat /\ input' \in SUBSET Nat /\ shown' \in Nat
        /\ username' \in Account \cup {None} /\ accounts' \in SUBSET Account
        /\ selected_session' \in Session \cup {None}
        /\ power_state' \in PowerStates /\ closing' \in Closings
    BY <1>1, <1>4, <1>5, <1>6 DEF TypeOK, Phases, Closings, PowerStates, Actions, Idle
  <2>2. /\ client' \in BOOLEAN /\ selection_session_cancelled' \in BOOLEAN
        /\ exited' \in BOOLEAN /\ timer' \in BOOLEAN /\ confirmed' \in BOOLEAN
    BY <1>1, <1>4, <1>5, <1>6 DEF TypeOK
  <2>3. tasks' \in SUBSET Task /\ inbox' \in SUBSET Message
    BY <1>1, <1>4, <1>5, <1>6 DEF TypeOK
  <2>4. /\ owner' \in Account \cup {None, Stranger}
        /\ stage' \in {"question", "message", "authenticated"} /\ question' \in 0 .. MaxQuestions
        /\ answered' \in [question : Nat, typed : SUBSET Nat]
        /\ started' \in [user : Account \cup {None}, session : Session \cup {None}]
    BY <1>1, <1>4, <1>5, <1>6 DEF TypeOK
  <2>5. QED
    BY <2>1, <2>2, <2>3, <2>4 DEF TypeOK
<1>8. OneAtATime'
  BY <1>1, <1>4, <1>5, <1>6 DEF OneAtATime, Own, Mail
<1>9. CurrentInv'
  BY <1>1, <1>4, <1>5, <1>6
     DEF CurrentInv, OneAtATime, Own, Mail, Open, Expects, ReplyKind, TypeOK
<1>10. UserInv'
  BY <1>1, <1>4, <1>5, <1>6 DEF UserInv, TypeOK, CurrentInv, Open
<1>11. CreateInv'
  BY <1>1, <1>4, <1>5, <1>6
     DEF CreateInv, Creates, Cancels, TypeOK, ConfirmInv, UserInv, Own, Mail, CurrentInv,
        Open
<1>12. ConfirmInv'
  BY <1>1, <1>4, <1>5, <1>6
     DEF ConfirmInv, CreateInv, Creates, Cancels, TypeOK
<1>13. TypedInv'
  BY <1>1, <1>4, <1>5, <1>6 DEF TypedInv, TypeOK
<1>14. TaskInv'
  BY <1>1, <1>4, <1>5, <1>6 DEF TaskInv, Open, TypeOK, Own
<1>15. ReplyInv'
  BY <1>1, <1>4, <1>5, <1>6 DEF ReplyInv, Open, TypeOK, Mail
<1>16. ExitInv'
  BY <1>1, <1>4, <1>5, <1>6 DEF ExitInv, ExitStartsSelection, Own
<1>17. ResponseReachesItsQuestion'
  BY <1>1, <1>4, <1>5, <1>6 DEF ResponseReachesItsQuestion
<1>18. QED
  BY <1>7, <1>8, <1>9, <1>10, <1>11, <1>12, <1>13, <1>14, <1>15, <1>16, <1>17

\* The session being started does not change (can_select_session).
LEMMA SelectSessionKeeps ==
    ASSUME Inv, NEW s \in Session, SelectSession(s)
    PROVE  Inv'
<1> USE GreeterAssumption DEF Inv, CreateSteps, ExchangeSteps, OtherSteps, SelectSession,
    can_select_session, Interactive, Running, convVars, userVars, closeVars, appVars,
    greetdVars
<1>1. TypeOK'
  BY DEF TypeOK, Phases, Closings, PowerStates, Actions, Idle
<1>2. OneAtATime'
  BY DEF OneAtATime, Own, Mail
<1>3. CurrentInv'
  BY DEF CurrentInv, OneAtATime, Own, Mail, Open, Expects, ReplyKind, TypeOK
<1>4. UserInv'
  BY DEF UserInv, TypeOK, CurrentInv, Open
<1>5. CreateInv'
  BY DEF CreateInv, Creates, Cancels, TypeOK
<1>6. ConfirmInv'
  BY DEF ConfirmInv, CreateInv, Creates, Cancels, TypeOK
<1>7. TypedInv'
  BY DEF TypedInv, TypeOK
<1>8. TaskInv'
  BY DEF TaskInv, Open, TypeOK
<1>9. ReplyInv'
  BY DEF ReplyInv, Open, TypeOK
<1>10. ExitInv'
  BY DEF ExitInv, ExitStartsSelection, Own
<1>11. ResponseReachesItsQuestion'
  BY DEF ResponseReachesItsQuestion
<1>12. QED
  BY <1>1, <1>2, <1>3, <1>4, <1>5, <1>6, <1>7, <1>8, <1>9, <1>10, <1>11

\* A power action is asked for only while nothing is awaited (can_request_power).
LEMMA AskPowerKeeps ==
    ASSUME Inv, NEW a \in Actions, AskPower(a)
    PROVE  Inv'
<1> USE GreeterAssumption DEF Inv, CreateSteps, ExchangeSteps, OtherSteps, AskPower,
    can_request_power, Interactive, Running, convVars, userVars, closeVars, appVars,
    greetdVars
<1>1. TypeOK'
  BY DEF TypeOK, Phases, Closings, PowerStates, Actions, Idle
<1>2. OneAtATime'
  BY DEF OneAtATime, Own, Mail
<1>3. CurrentInv'
  BY DEF CurrentInv, OneAtATime, Own, Mail, Open, Expects, ReplyKind, TypeOK
<1>4. UserInv'
  BY DEF UserInv, TypeOK, CurrentInv, Open
<1>5. CreateInv'
  BY DEF CreateInv, Creates, Cancels, TypeOK
<1>6. ConfirmInv'
  BY DEF ConfirmInv, CreateInv, Creates, Cancels, TypeOK
<1>7. TypedInv'
  BY DEF TypedInv, TypeOK
<1>8. TaskInv'
  BY DEF TaskInv, Open, TypeOK
<1>9. ReplyInv'
  BY DEF ReplyInv, Open, TypeOK
<1>10. ExitInv'
  BY DEF ExitInv, ExitStartsSelection, Own
<1>11. ResponseReachesItsQuestion'
  BY DEF ResponseReachesItsQuestion
<1>12. QED
  BY <1>1, <1>2, <1>3, <1>4, <1>5, <1>6, <1>7, <1>8, <1>9, <1>10, <1>11

\* The dialog is dismissed.
LEMMA CancelPowerKeeps ==
    ASSUME Inv, CancelPower
    PROVE  Inv'
<1> USE GreeterAssumption DEF Inv, CreateSteps, ExchangeSteps, OtherSteps, CancelPower,
    Interactive, Running, convVars, userVars, closeVars, appVars, greetdVars
<1>1. TypeOK'
  BY DEF TypeOK, Phases, Closings, PowerStates, Actions, Idle
<1>2. OneAtATime'
  BY DEF OneAtATime, Own, Mail
<1>3. CurrentInv'
  BY DEF CurrentInv, OneAtATime, Own, Mail, Open, Expects, ReplyKind, TypeOK
<1>4. UserInv'
  BY DEF UserInv, TypeOK, CurrentInv, Open
<1>5. CreateInv'
  BY DEF CreateInv, Creates, Cancels, TypeOK
<1>6. ConfirmInv'
  BY DEF ConfirmInv, CreateInv, Creates, Cancels, TypeOK
<1>7. TypedInv'
  BY DEF TypedInv, TypeOK
<1>8. TaskInv'
  BY DEF TaskInv, Open, TypeOK
<1>9. ReplyInv'
  BY DEF ReplyInv, Open, TypeOK
<1>10. ExitInv'
  BY DEF ExitInv, ExitStartsSelection, Own
<1>11. ResponseReachesItsQuestion'
  BY DEF ResponseReachesItsQuestion
<1>12. QED
  BY <1>1, <1>2, <1>3, <1>4, <1>5, <1>6, <1>7, <1>8, <1>9, <1>10, <1>11

\* A confirmed power action runs beside the conversation.
LEMMA ConfirmPowerKeeps ==
    ASSUME Inv, ConfirmPower
    PROVE  Inv'
<1> USE GreeterAssumption DEF Inv, CreateSteps, ExchangeSteps, OtherSteps, ConfirmPower,
    Interactive, Running, convVars, userVars, closeVars, appVars, greetdVars
<1>1. PICK x : x = Perform("power", 0)
  OBVIOUS
<1>2. /\ attempt \in Nat /\ attempt' \in Nat /\ input \in SUBSET Nat
      /\ username \in Account \cup {None}
  BY DEF TypeOK
<1>3. tasks' = tasks \cup {x}
  BY <1>1
<1>4. x \in Task /\ x.step = "power"
  BY <1>1, <1>2, Performed DEF OtherSteps
<1>5. TypeOK'
  BY <1>3, <1>4 DEF TypeOK, Phases, Closings, PowerStates, Actions, Idle
<1>6. OneAtATime'
  BY <1>3, <1>4 DEF OneAtATime, Own, Mail
<1>7. CurrentInv'
  BY <1>3, <1>4 DEF CurrentInv, Own, Mail, Open, Expects
<1>8. UserInv'
  BY <1>3, <1>4
     DEF UserInv, TypeOK, CurrentInv, Open, Idle, Actions, PowerStates
<1>9. CreateInv'
  BY <1>3, <1>4 DEF CreateInv, Creates, Cancels, TypeOK
<1>10. ConfirmInv'
  BY <1>3, <1>4 DEF ConfirmInv, CreateInv, Creates, Cancels, TypeOK
<1>11. TypedInv'
  BY <1>3, <1>4 DEF TypedInv, TypeOK
<1>12. TaskInv'
  BY <1>3, <1>4 DEF TaskInv, Open, TypeOK
<1>13. ReplyInv'
  BY <1>3, <1>4 DEF ReplyInv, Open, TypeOK
<1>14. ExitInv'
  BY <1>3, <1>4 DEF ExitInv, ExitStartsSelection, Own
<1>15. ResponseReachesItsQuestion'
  BY <1>3, <1>4 DEF ResponseReachesItsQuestion
<1>16. QED
  BY <1>5, <1>6, <1>7, <1>8, <1>9, <1>10, <1>11, <1>12, <1>13, <1>14, <1>15

\* A window that need not cancel or awaits a reply first (close_requested).
LEMMA CloseAtOnceKeeps ==
    ASSUME Inv, CloseRequested, closing' # "Cancelling"
    PROVE  Inv'
<1> USE GreeterAssumption DEF Inv, CreateSteps, ExchangeSteps, OtherSteps, CloseRequested,
    AwaitsClient, invalidate_attempt, clear_response, Interactive, Running, convVars,
    userVars, closeVars, appVars, greetdVars
<1>1. TypeOK'
  <2>1. /\ phase' \in Phases /\ status' \in {"Waiting", "Submitting", "Succeeded", "Failed"}
        /\ attempt' \in Nat /\ input' \in SUBSET Nat /\ shown' \in Nat
        /\ username' \in Account \cup {None} /\ accounts' \in SUBSET Account
        /\ selected_session' \in Session \cup {None}
        /\ power_state' \in PowerStates /\ closing' \in Closings
    BY DEF TypeOK, Phases, Closings, PowerStates, Actions, Idle
  <2>2. /\ client' \in BOOLEAN /\ selection_session_cancelled' \in BOOLEAN
        /\ exited' \in BOOLEAN /\ timer' \in BOOLEAN /\ confirmed' \in BOOLEAN
    BY DEF TypeOK
  <2>3. tasks' \in SUBSET Task /\ inbox' \in SUBSET Message
    BY DEF TypeOK
  <2>4. /\ owner' \in Account \cup {None, Stranger}
        /\ stage' \in {"question", "message", "authenticated"} /\ question' \in 0 .. MaxQuestions
        /\ answered' \in [question : Nat, typed : SUBSET Nat]
        /\ started' \in [user : Account \cup {None}, session : Session \cup {None}]
    BY DEF TypeOK
  <2>5. QED
    BY <2>1, <2>2, <2>3, <2>4 DEF TypeOK
<1>2. OneAtATime'
  BY DEF OneAtATime, Own, Mail
<1>3. CurrentInv'
  BY DEF CurrentInv, OneAtATime, Own, Mail, Open, Expects, ReplyKind, TypeOK
<1>4. UserInv'
  BY DEF UserInv, TypeOK, CurrentInv, Open
<1>5. CreateInv'
  BY DEF CreateInv, Creates, Cancels, TypeOK
<1>6. ConfirmInv'
  BY DEF ConfirmInv, CreateInv, Creates, Cancels, TypeOK
<1>7. TypedInv'
  BY DEF TypedInv, TypeOK
<1>8. TaskInv'
  BY DEF TaskInv, Open, TypeOK
<1>9. ReplyInv'
  BY DEF ReplyInv, Open, TypeOK
<1>10. ExitInv'
  BY DEF ExitInv, ExitStartsSelection, Own
<1>11. ResponseReachesItsQuestion'
  BY DEF ResponseReachesItsQuestion
<1>12. QED
  BY <1>1, <1>2, <1>3, <1>4, <1>5, <1>6, <1>7, <1>8, <1>9, <1>10, <1>11

\* A window that closes cancels the session (close_requested).
LEMMA CloseCancelsKeeps ==
    ASSUME Inv, CloseRequested, closing' = "Cancelling"
    PROVE  Inv'
<1> USE GreeterAssumption DEF Inv, CreateSteps, ExchangeSteps, OtherSteps, CloseRequested,
    AwaitsClient, invalidate_attempt, clear_response, Interactive, Running, convVars,
    userVars, closeVars, appVars, greetdVars
<1>1. PICK x : x = cancel_for_close
  OBVIOUS
<1>2. /\ attempt \in Nat /\ attempt' \in Nat /\ input \in SUBSET Nat
      /\ username \in Account \cup {None}
  BY DEF TypeOK
<1>3. tasks' = tasks \cup {x}
  BY <1>1
<1>4. x \in Task /\ x.step = "cancelToClose"
  BY <1>1, <1>2, Performed DEF cancel_for_close, OtherSteps
<1>5. TypeOK'
  <2>1. /\ phase' \in Phases /\ status' \in {"Waiting", "Submitting", "Succeeded", "Failed"}
        /\ attempt' \in Nat /\ input' \in SUBSET Nat /\ shown' \in Nat
        /\ username' \in Account \cup {None} /\ accounts' \in SUBSET Account
        /\ selected_session' \in Session \cup {None}
        /\ power_state' \in PowerStates /\ closing' \in Closings
    BY <1>3, <1>4 DEF TypeOK, Phases, Closings, PowerStates, Actions, Idle
  <2>2. /\ client' \in BOOLEAN /\ selection_session_cancelled' \in BOOLEAN
        /\ exited' \in BOOLEAN /\ timer' \in BOOLEAN /\ confirmed' \in BOOLEAN
    BY <1>3, <1>4 DEF TypeOK
  <2>3. tasks' \in SUBSET Task /\ inbox' \in SUBSET Message
    BY <1>3, <1>4 DEF TypeOK
  <2>4. /\ owner' \in Account \cup {None, Stranger}
        /\ stage' \in {"question", "message", "authenticated"} /\ question' \in 0 .. MaxQuestions
        /\ answered' \in [question : Nat, typed : SUBSET Nat]
        /\ started' \in [user : Account \cup {None}, session : Session \cup {None}]
    BY <1>3, <1>4 DEF TypeOK
  <2>5. QED
    BY <2>1, <2>2, <2>3, <2>4 DEF TypeOK
<1>6. OneAtATime'
  BY <1>3, <1>4 DEF OneAtATime, Own, Mail
<1>7. CurrentInv'
  BY <1>3, <1>4
     DEF CurrentInv, OneAtATime, Own, Mail, Open, Expects, ReplyKind, TypeOK
<1>8. UserInv'
  BY <1>3, <1>4 DEF UserInv, TypeOK, CurrentInv, Open
<1>9. CreateInv'
  BY <1>3, <1>4 DEF CreateInv, Creates, Cancels, TypeOK
<1>10. ConfirmInv'
  BY <1>3, <1>4 DEF ConfirmInv, CreateInv, Creates, Cancels, TypeOK
<1>11. TypedInv'
  BY <1>3, <1>4 DEF TypedInv, TypeOK
<1>12. TaskInv'
  BY <1>3, <1>4 DEF TaskInv, Open, TypeOK
<1>13. ReplyInv'
  BY <1>3, <1>4 DEF ReplyInv, Open, TypeOK
<1>14. ExitInv'
  BY <1>3, <1>4 DEF ExitInv, ExitStartsSelection, Own
<1>15. ResponseReachesItsQuestion'
  BY <1>3, <1>4 DEF ResponseReachesItsQuestion
<1>16. QED
  BY <1>5, <1>6, <1>7, <1>8, <1>9, <1>10, <1>11, <1>12, <1>13, <1>14, <1>15

\* The window does not wait for ever (close_timeout).
LEMMA CloseTimeoutKeeps ==
    ASSUME Inv, CloseTimeout
    PROVE  Inv'
<1>1. \/ attempt' = attempt + 1 /\ input' = {} /\ closing' = "Dispatching"
         /\ UNCHANGED <<status, shown>>
      \/ UNCHANGED <<status, attempt, input, shown, closing>>
  BY DEF CloseTimeout, invalidate_attempt, clear_response, convVars
<1>2. attempt' \in Nat
  BY <1>1 DEF Inv, TypeOK
<1>3. input' \in SUBSET Nat
  BY <1>1 DEF Inv, TypeOK
<1>4. shown' \in Nat
  BY <1>1 DEF Inv, TypeOK
<1>5. closing' \in Closings
  BY <1>1 DEF Inv, TypeOK, Closings
<1> USE GreeterAssumption DEF Inv, CreateSteps, ExchangeSteps, OtherSteps, CloseTimeout,
    is_cleaning, invalidate_attempt, clear_response, Interactive, Running, convVars,
    userVars, closeVars, appVars, greetdVars
<1>6. TypeOK'
  <2>1. /\ attempt' \in Nat /\ input' \in SUBSET Nat /\ shown' \in Nat
        /\ closing' \in Closings
    BY <1>2, <1>3, <1>4, <1>5
  <2>2. timer' \in BOOLEAN
    OBVIOUS
  <2>3. /\ phase' \in Phases /\ status' \in {"Waiting", "Submitting", "Succeeded", "Failed"}
        /\ username' \in Account \cup {None} /\ accounts' \in SUBSET Account
        /\ selected_session' \in Session \cup {None} /\ power_state' \in PowerStates
    BY <1>1 DEF TypeOK
  <2>4. QED
    BY <2>1, <2>2, <2>3 DEF TypeOK
<1>7. OneAtATime'
  BY <1>1, <1>2, <1>3, <1>4, <1>5 DEF OneAtATime, Own, Mail
<1>8. CurrentInv'
  BY <1>1, <1>2, <1>3, <1>4, <1>5
     DEF CurrentInv, OneAtATime, Own, Mail, Open, Expects, ReplyKind, TypeOK
<1>9. UserInv'
  BY <1>1, <1>2, <1>3, <1>4, <1>5 DEF UserInv, TypeOK, CurrentInv, Open
<1>10. CreateInv'
  BY <1>1, <1>2, <1>3, <1>4, <1>5 DEF CreateInv, Creates, Cancels, TypeOK
<1>11. ConfirmInv'
  BY <1>1, <1>2, <1>3, <1>4, <1>5
     DEF ConfirmInv, CreateInv, Creates, Cancels, TypeOK
<1>12. TypedInv'
  BY <1>1, <1>2, <1>3, <1>4, <1>5 DEF TypedInv, TypeOK
<1>13. TaskInv'
  BY <1>1, <1>2, <1>3, <1>4, <1>5 DEF TaskInv, Open, TypeOK
<1>14. ReplyInv'
  BY <1>1, <1>2, <1>3, <1>4, <1>5 DEF ReplyInv, Open, TypeOK
<1>15. ExitInv'
  BY <1>1, <1>2, <1>3, <1>4, <1>5 DEF ExitInv, ExitStartsSelection, Own
<1>16. ResponseReachesItsQuestion'
  BY <1>1, <1>2, <1>3, <1>4, <1>5 DEF ResponseReachesItsQuestion
<1>17. QED
  BY <1>6, <1>7, <1>8, <1>9, <1>10, <1>11, <1>12, <1>13, <1>14, <1>15, <1>16

\* A message that is dropped is not one App waits for (update).
LEMMA IgnoredKeeps ==
    ASSUME Inv, NEW m \in inbox, Takes(m), Ignore, Open => m \notin Mail
    PROVE  Inv'
<1> USE GreeterAssumption DEF Inv, CreateSteps, ExchangeSteps, OtherSteps, Takes, Running,
    Ignore, convVars, userVars, closeVars, appVars, greetdVars
<1>1. Own' = Own /\ (Open => Mail' = Mail) /\ Open' = Open /\ Expects' = Expects
  BY DEF Own, Mail, Open, Expects
<1>2. TypeOK'
  BY <1>1 DEF TypeOK, Phases, Closings, PowerStates, Actions, Idle
<1>3. OneAtATime'
  BY <1>1 DEF OneAtATime, Own, Mail
<1>4. CurrentInv'
  BY <1>1 DEF CurrentInv
<1>5. UserInv'
  BY <1>1 DEF UserInv, TypeOK, CurrentInv, Open
<1>6. CreateInv'
  BY <1>1 DEF CreateInv, Creates, Cancels, TypeOK
<1>7. ConfirmInv'
  BY <1>1 DEF ConfirmInv, CreateInv, Creates, Cancels, TypeOK
<1>8. TypedInv'
  BY <1>1 DEF TypedInv, TypeOK
<1>9. TaskInv'
  BY <1>1 DEF TaskInv, Open, TypeOK
<1>10. ReplyInv'
  BY <1>1 DEF ReplyInv, Open, TypeOK
<1>11. ExitInv'
  BY <1>1 DEF ExitInv, ExitStartsSelection, Own
<1>12. ResponseReachesItsQuestion'
  BY <1>1 DEF ResponseReachesItsQuestion
<1>13. QED
  BY <1>2, <1>3, <1>4, <1>5, <1>6, <1>7, <1>8, <1>9, <1>10, <1>11, <1>12

\* The session that was awaited is cancelled (handle_auth_result).
LEMMA ClientArrivesKeeps ==
    ASSUME Inv, NEW m \in inbox, Takes(m), m.kind = "AuthResult", closing = "WaitingForClient",
           handle_auth_result(m), m.attempt = attempt
    PROVE  Inv'
<1> USE GreeterAssumption DEF Inv, CreateSteps, ExchangeSteps, OtherSteps,
    handle_auth_result, invalidate_attempt, clear_response, Takes, Running, Ignore,
    convVars, userVars, closeVars, appVars, greetdVars
<1>1. m \in Mail /\ Own = {}
  BY DEF Mail, Own, OneAtATime
<1>2. PICK x : x = cancel_for_close
  OBVIOUS
<1>3. /\ attempt \in Nat /\ attempt' \in Nat /\ input \in SUBSET Nat
      /\ username \in Account \cup {None}
  BY DEF TypeOK
<1>4. tasks' = tasks \cup {x}
  BY <1>2
<1>5. x \in Task /\ x.step = "cancelToClose"
  BY <1>2, <1>3, Performed DEF cancel_for_close, OtherSteps
<1>6. TypeOK'
  BY <1>1, <1>4, <1>5
     DEF TypeOK, Phases, Closings, PowerStates, Actions, Idle
<1>7. OneAtATime'
  BY <1>1, <1>4, <1>5 DEF OneAtATime, Own, Mail
<1>8. CurrentInv'
  BY <1>1, <1>4, <1>5 DEF CurrentInv, Own, Mail, Open, Expects, ReplyKind
<1>9. UserInv'
  BY <1>1, <1>4, <1>5 DEF UserInv, TypeOK
<1>10. CreateInv'
  BY <1>1, <1>4, <1>5 DEF CreateInv, Creates, Cancels, TypeOK, Own, Mail
<1>11. ConfirmInv'
  BY <1>1, <1>4, <1>5
     DEF ConfirmInv, CreateInv, Creates, Cancels, TypeOK, Mail, Own
<1>12. TypedInv'
  BY <1>1, <1>4, <1>5 DEF TypedInv, TypeOK
<1>13. TaskInv'
  BY <1>1, <1>4, <1>5 DEF TaskInv, Open, TypeOK, Own, TypedInv, ReplyInv
<1>14. ReplyInv'
  BY <1>1, <1>4, <1>5 DEF ReplyInv, Open, TypeOK, Mail
<1>15. ExitInv'
  BY <1>1, <1>4, <1>5 DEF ExitInv, ExitStartsSelection, ReplyInv, Open, Own
<1>16. ResponseReachesItsQuestion'
  BY <1>1, <1>4, <1>5 DEF ResponseReachesItsQuestion
<1>17. QED
  BY <1>6, <1>7, <1>8, <1>9, <1>10, <1>11, <1>12, <1>13, <1>14, <1>15, <1>16

\* A result that cannot be used fails (fail).
LEMMA ResultFailsKeeps ==
    ASSUME Inv, NEW m \in inbox, Takes(m), m \in Mail, closing = "None",
           phase' = "Failed", status' = "Failed", input' = {}, UNCHANGED <<attempt, shown>>,
           client' \in BOOLEAN, client' => client \/ m.kind = "AuthResult",
           UNCHANGED <<userVars, power_state, closeVars, tasks>>
    PROVE  Inv'
<1>1. Open /\ m \in Mail /\ Own = {} /\ Mail' = {} /\ Cancels' \subseteq Cancels
  BY DEF Inv, Takes, Running, Open, Mail, Own, OneAtATime, Cancels
<1>2. /\ power_state = Idle /\ ~selection_session_cancelled
      /\ m.kind = "AuthResult" => username # None
  BY <1>1 DEF Inv, CurrentInv, Expects, UserInv, ConfirmInv
<1>3. username = None => ~client'
  BY <1>2 DEF Inv, UserInv
<1>4. ~confirmed' /\ ~selection_session_cancelled'
  BY <1>2 DEF Inv, ConfirmInv, closeVars, userVars
<1> USE GreeterAssumption DEF Inv, CreateSteps, ExchangeSteps, OtherSteps, Takes, Running,
    Ignore, convVars, userVars, closeVars, appVars, greetdVars
<1>5. TypeOK'
  BY <1>1, <1>2, <1>3, <1>4
     DEF TypeOK, Phases, Closings, PowerStates, Actions, Idle
<1>6. OneAtATime'
  BY <1>1, <1>2, <1>3, <1>4 DEF OneAtATime, Own, Mail
<1>7. CurrentInv'
  BY <1>1, <1>2, <1>3, <1>4
     DEF CurrentInv, Own, Mail, Open, Expects, ReplyKind
<1>8. UserInv'
  BY <1>1, <1>2, <1>3, <1>4 DEF UserInv
<1>9. CreateInv'
  BY <1>1, <1>2, <1>3, <1>4
     DEF CreateInv, Creates, Cancels, TypeOK, Own, Mail
<1>10. ConfirmInv'
  BY <1>1, <1>2, <1>3, <1>4 DEF ConfirmInv
<1>11. TypedInv'
  BY <1>1, <1>2, <1>3, <1>4 DEF TypedInv, TypeOK
<1>12. TaskInv'
  BY <1>1, <1>2, <1>3, <1>4
     DEF TaskInv, Open, TypeOK, Own, TypedInv, ReplyInv
<1>13. ReplyInv'
  BY <1>1, <1>2, <1>3, <1>4 DEF ReplyInv, Open, TypeOK, Mail
<1>14. ExitInv'
  BY <1>1, <1>2, <1>3, <1>4
     DEF ExitInv, ExitStartsSelection, ReplyInv, Open, Own
<1>15. ResponseReachesItsQuestion'
  BY <1>1, <1>2, <1>3, <1>4 DEF ResponseReachesItsQuestion
<1>16. QED
  BY <1>5, <1>6, <1>7, <1>8, <1>9, <1>10, <1>11, <1>12, <1>13, <1>14, <1>15

\* The greeter exits when its session is to be started (transition).
LEMMA ExitsKeeps ==
    ASSUME Inv, NEW m \in inbox, Takes(m), m.kind = "AuthResult", closing = "None",
           m.response = "Success", phase = "StartingSession", exited' = TRUE, client' \in BOOLEAN,
           UNCHANGED <<phase, convVars, tasks, userVars, power_state, closing, timer, confirmed>>
    PROVE  Inv'
<1> USE GreeterAssumption DEF Inv, CreateSteps, ExchangeSteps, OtherSteps, Takes, Running,
    Ignore, convVars, userVars, closeVars, appVars, greetdVars
<1>1. Open /\ m \in Mail /\ Own = {} /\ Mail' = {}
  BY DEF Open, Mail, Own, OneAtATime
<1>2. /\ phase \in {"CreatingSession", "Authenticating", "StartingSession"}
      /\ username # None /\ power_state = Idle /\ ~selection_session_cancelled
  BY <1>1 DEF CurrentInv, Expects, UserInv, ConfirmInv
<1>3. TypeOK'
  BY <1>1, <1>2 DEF TypeOK, Phases, Closings, PowerStates, Actions, Idle
<1>4. OneAtATime'
  BY <1>1, <1>2 DEF OneAtATime, Own, Mail
<1>5. CurrentInv'
  BY <1>1, <1>2 DEF CurrentInv, Own, Mail, Open, Expects, ReplyKind
<1>6. UserInv'
  BY <1>1, <1>2 DEF UserInv, TypeOK
<1>7. CreateInv'
  BY <1>1, <1>2 DEF CreateInv, Creates, Cancels, TypeOK, Own, Mail
<1>8. ConfirmInv'
  BY <1>1, <1>2 DEF ConfirmInv, CreateInv, Creates, Cancels, TypeOK, Mail, Own
<1>9. TypedInv'
  BY <1>1, <1>2 DEF TypedInv, TypeOK
<1>10. TaskInv'
  BY <1>1, <1>2 DEF TaskInv, Open, TypeOK, Own, TypedInv, ReplyInv
<1>11. ReplyInv'
  BY <1>1, <1>2 DEF ReplyInv, Open, TypeOK, Mail
<1>12. ExitInv'
  BY <1>1, <1>2 DEF ExitInv, ExitStartsSelection, ReplyInv, Open, Own
<1>13. ResponseReachesItsQuestion'
  BY <1>1, <1>2 DEF ResponseReachesItsQuestion
<1>14. QED
  BY <1>3, <1>4, <1>5, <1>6, <1>7, <1>8, <1>9, <1>10, <1>11, <1>12, <1>13

\* A question is put on display (transition).
LEMMA PromptsKeeps ==
    ASSUME Inv, NEW m \in inbox, Takes(m), m.kind = "AuthResult", closing = "None",
           m.response = "Prompt", client' \in BOOLEAN,
           phase' = "WaitingForInput", status' = "Waiting", shown' = m.question, clear_response,
           UNCHANGED <<attempt, exited, tasks, userVars, power_state, closing, timer, confirmed>>
    PROVE  Inv'
<1> USE GreeterAssumption DEF Inv, CreateSteps, ExchangeSteps, OtherSteps, clear_response,
    Takes, Running, Ignore, convVars, userVars, closeVars, appVars, greetdVars
<1>1. Open /\ m \in Mail /\ Own = {} /\ Mail' = {}
  BY DEF Open, Mail, Own, OneAtATime
<1>2. /\ phase \in {"CreatingSession", "Authenticating", "StartingSession"}
      /\ username # None /\ power_state = Idle /\ ~selection_session_cancelled
  BY <1>1 DEF CurrentInv, Expects, UserInv, ConfirmInv
<1>3. TypeOK'
  <2>1. /\ phase' \in Phases /\ status' \in {"Waiting", "Submitting", "Succeeded", "Failed"}
        /\ attempt' \in Nat /\ input' \in SUBSET Nat /\ shown' \in Nat
        /\ username' \in Account \cup {None} /\ accounts' \in SUBSET Account
        /\ selected_session' \in Session \cup {None}
        /\ power_state' \in PowerStates /\ closing' \in Closings
    BY <1>1, <1>2 DEF TypeOK, Message, Phases, Closings
  <2>2. /\ client' \in BOOLEAN /\ selection_session_cancelled' \in BOOLEAN
        /\ exited' \in BOOLEAN /\ timer' \in BOOLEAN /\ confirmed' \in BOOLEAN
    BY <1>1, <1>2 DEF TypeOK
  <2>3. tasks' \in SUBSET Task /\ inbox' \in SUBSET Message
    BY <1>1, <1>2 DEF TypeOK
  <2>4. /\ owner' \in Account \cup {None, Stranger}
        /\ stage' \in {"question", "message", "authenticated"} /\ question' \in 0 .. MaxQuestions
        /\ answered' \in [question : Nat, typed : SUBSET Nat]
        /\ started' \in [user : Account \cup {None}, session : Session \cup {None}]
    BY <1>1, <1>2 DEF TypeOK
  <2>5. QED
    BY <2>1, <2>2, <2>3, <2>4 DEF TypeOK
<1>4. OneAtATime'
  BY <1>1, <1>2 DEF OneAtATime, Own, Mail
<1>5. CurrentInv'
  BY <1>1, <1>2 DEF CurrentInv, Own, Mail, Open, Expects, ReplyKind
<1>6. UserInv'
  BY <1>1, <1>2 DEF UserInv, TypeOK
<1>7. CreateInv'
  BY <1>1, <1>2 DEF CreateInv, Creates, Cancels, TypeOK, Own, Mail
<1>8. ConfirmInv'
  BY <1>1, <1>2 DEF ConfirmInv, CreateInv, Creates, Cancels, TypeOK, Mail, Own
<1>9. TypedInv'
  BY <1>1, <1>2 DEF TypedInv, TypeOK
<1>10. TaskInv'
  BY <1>1, <1>2 DEF TaskInv, Open, TypeOK, Own, TypedInv, ReplyInv
<1>11. ReplyInv'
  BY <1>1, <1>2 DEF ReplyInv, Open, Mail
<1>12. ExitInv'
  BY <1>1, <1>2 DEF ExitInv, ExitStartsSelection, ReplyInv, Open, Own
<1>13. ResponseReachesItsQuestion'
  BY <1>1, <1>2 DEF ResponseReachesItsQuestion
<1>14. QED
  BY <1>3, <1>4, <1>5, <1>6, <1>7, <1>8, <1>9, <1>10, <1>11, <1>12, <1>13

\* A message is acknowledged (handle_auth_response).
LEMMA AcknowledgesKeeps ==
    ASSUME Inv, NEW m \in inbox, Takes(m), m.kind = "AuthResult", closing = "None",
           m.response = "Message", client' = TRUE,
           tasks' = tasks \cup {exchange("acknowledge", attempt)},
           UNCHANGED <<phase, convVars, exited, userVars, power_state, closing, timer, confirmed>>
    PROVE  Inv'
<1> USE GreeterAssumption DEF Inv, CreateSteps, ExchangeSteps, OtherSteps, Takes, Running,
    Ignore, convVars, userVars, closeVars, appVars, greetdVars
<1>1. Open /\ m \in Mail /\ Own = {} /\ Mail' = {}
  BY DEF Open, Mail, Own, OneAtATime
<1>2. /\ phase \in {"CreatingSession", "Authenticating", "StartingSession"}
      /\ username # None /\ power_state = Idle /\ ~selection_session_cancelled
  BY <1>1 DEF CurrentInv, Expects, UserInv, ConfirmInv
<1>3. PICK x : x = exchange("acknowledge", attempt)
  OBVIOUS
<1>4. /\ attempt \in Nat /\ attempt' \in Nat /\ input \in SUBSET Nat
      /\ username \in Account \cup {None}
  BY DEF TypeOK
<1>5. tasks' = tasks \cup {x}
  BY <1>3
<1>6. x \in Task /\ x.step = "acknowledge" /\ x.attempt = attempt
  BY <1>3, <1>4, Performed DEF exchange, ExchangeSteps
<1>7. TypeOK'
  BY <1>1, <1>2, <1>5, <1>6
     DEF TypeOK, Phases, Closings, PowerStates, Actions, Idle
<1>8. OneAtATime'
  BY <1>1, <1>2, <1>5, <1>6 DEF OneAtATime, Own, Mail
<1>9. CurrentInv'
  BY <1>1, <1>2, <1>5, <1>6
     DEF CurrentInv, Own, Mail, Open, Expects, ReplyKind
<1>10. UserInv'
  BY <1>1, <1>2, <1>5, <1>6 DEF UserInv, TypeOK
<1>11. CreateInv'
  BY <1>1, <1>2, <1>5, <1>6
     DEF CreateInv, Creates, Cancels, TypeOK, Own, Mail
<1>12. ConfirmInv'
  BY <1>1, <1>2, <1>5, <1>6
     DEF ConfirmInv, CreateInv, Creates, Cancels, TypeOK, Mail, Own
<1>13. TypedInv'
  BY <1>1, <1>2, <1>5, <1>6 DEF TypedInv, TypeOK
<1>14. TaskInv'
  BY <1>1, <1>2, <1>5, <1>6
     DEF TaskInv, Open, TypeOK, Own, TypedInv, ReplyInv
<1>15. ReplyInv'
  BY <1>1, <1>2, <1>5, <1>6 DEF ReplyInv, Open, TypeOK, Mail
<1>16. ExitInv'
  BY <1>1, <1>2, <1>5, <1>6
     DEF ExitInv, ExitStartsSelection, ReplyInv, Open, Own
<1>17. ResponseReachesItsQuestion'
  BY <1>1, <1>2, <1>5, <1>6 DEF ResponseReachesItsQuestion
<1>18. QED
  BY <1>7, <1>8, <1>9, <1>10, <1>11, <1>12, <1>13, <1>14, <1>15, <1>16, <1>17

\* An authenticated session is started (transition).
LEMMA StartsKeeps ==
    ASSUME Inv, NEW m \in inbox, Takes(m), m.kind = "AuthResult", closing = "None",
           m.response = "Success", phase # "StartingSession", selected_session # None, 
           client' = TRUE, phase' = "StartingSession", clear_response, status' = "Succeeded",
           tasks' = tasks \cup
               {[exchange("start", attempt) EXCEPT !.session = selected_session]},
           UNCHANGED <<attempt, shown, exited, userVars, power_state, closing, timer, confirmed>>
    PROVE  Inv'
<1> USE GreeterAssumption DEF Inv, CreateSteps, ExchangeSteps, OtherSteps, clear_response,
    Takes, Running, Ignore, convVars, userVars, closeVars, appVars, greetdVars
<1>1. Open /\ m \in Mail /\ Own = {} /\ Mail' = {}
  BY DEF Open, Mail, Own, OneAtATime
<1>2. /\ phase \in {"CreatingSession", "Authenticating", "StartingSession"}
      /\ username # None /\ power_state = Idle /\ ~selection_session_cancelled
  BY <1>1 DEF CurrentInv, Expects, UserInv, ConfirmInv
<1>3. selected_session \in Session
  BY DEF TypeOK
<1>4. PICK x : x = [exchange("start", attempt) EXCEPT !.session = selected_session]
  OBVIOUS
<1>5. /\ attempt \in Nat /\ attempt' \in Nat /\ input \in SUBSET Nat
      /\ username \in Account \cup {None}
  BY DEF TypeOK
<1>6. tasks' = tasks \cup {x}
  BY <1>4
<1>7. x \in Task /\ x.step = "start" /\ x.attempt = attempt /\ x.session = selected_session
  BY <1>4, <1>5, <1>3, StartTask
<1>8. TypeOK'
  BY <1>1, <1>2, <1>6, <1>7
     DEF TypeOK, Phases, Closings, PowerStates, Actions, Idle
<1>9. OneAtATime'
  BY <1>1, <1>2, <1>6, <1>7 DEF OneAtATime, Own, Mail
<1>10. CurrentInv'
  BY <1>1, <1>2, <1>6, <1>7
     DEF CurrentInv, Own, Mail, Open, Expects, ReplyKind
<1>11. UserInv'
  BY <1>1, <1>2, <1>6, <1>7 DEF UserInv, TypeOK
<1>12. CreateInv'
  BY <1>1, <1>2, <1>6, <1>7
     DEF CreateInv, Creates, Cancels, TypeOK, Own, Mail
<1>13. ConfirmInv'
  BY <1>1, <1>2, <1>6, <1>7
     DEF ConfirmInv, CreateInv, Creates, Cancels, TypeOK, Mail, Own
<1>14. TypedInv'
  BY <1>1, <1>2, <1>6, <1>7 DEF TypedInv, TypeOK
<1>15. TaskInv'
  BY <1>1, <1>2, <1>6, <1>7
     DEF TaskInv, Open, TypeOK, Own, TypedInv, ReplyInv
<1>16. ReplyInv'
  BY <1>1, <1>2, <1>6, <1>7 DEF ReplyInv, Open, TypeOK, Mail
<1>17. ExitInv'
  BY <1>1, <1>2, <1>6, <1>7
     DEF ExitInv, ExitStartsSelection, ReplyInv, Open, Own
<1>18. ResponseReachesItsQuestion'
  BY <1>1, <1>2, <1>6, <1>7 DEF ResponseReachesItsQuestion
<1>19. QED
  BY <1>8, <1>9, <1>10, <1>11, <1>12, <1>13, <1>14, <1>15, <1>16, <1>17, <1>18

\* The preferred user is selected (select_account).
LEMMA DiscoveredKeeps ==
    ASSUME Inv, NEW m \in inbox, Takes(m), m.kind = "AccountsResult", closing = "None",
           NEW A \in SUBSET Account, NEW u \in A, accounts' = A, select_account(u),
           UNCHANGED <<selected_session, power_state, closeVars>>
    PROVE  Inv'
<1> USE GreeterAssumption DEF Inv, CreateSteps, ExchangeSteps, OtherSteps, select_account,
    MayBegin, begin_attempt, clear_response, Takes, Running, Ignore, convVars, userVars,
    closeVars, appVars, greetdVars
<1>1. Open /\ m \in Mail /\ Own = {} /\ Mail' = {}
  BY DEF Open, Mail, Own, OneAtATime
<1>2. /\ phase = "DiscoveringUsers" /\ username = None /\ power_state = Idle
      /\ ~selection_session_cancelled
  BY <1>1 DEF CurrentInv, Expects, UserInv, ConfirmInv
<1>3. PICK x : x = begin(u, attempt', ~selection_session_cancelled)
  OBVIOUS
<1>4. /\ attempt \in Nat /\ attempt' \in Nat /\ input \in SUBSET Nat
      /\ username \in Account \cup {None}
  BY DEF TypeOK
<1>5. tasks' = tasks \cup {x}
  BY <1>3, <1>2
<1>6. x \in Task /\ x.step \in CreateSteps /\ x.attempt = attempt' /\ x.user = u
  BY <1>3, <1>4, Created DEF begin, CreateSteps
<1>7. TypeOK'
  <2>1. /\ phase' \in Phases /\ status' \in {"Waiting", "Submitting", "Succeeded", "Failed"}
        /\ attempt' \in Nat /\ input' \in SUBSET Nat /\ shown' \in Nat
        /\ username' \in Account \cup {None} /\ accounts' \in SUBSET Account
        /\ selected_session' \in Session \cup {None}
        /\ power_state' \in PowerStates /\ closing' \in Closings
    BY <1>1, <1>2, <1>5, <1>6 DEF TypeOK, Phases, Closings, PowerStates, Actions, Idle
  <2>2. /\ client' \in BOOLEAN /\ selection_session_cancelled' \in BOOLEAN
        /\ exited' \in BOOLEAN /\ timer' \in BOOLEAN /\ confirmed' \in BOOLEAN
    BY <1>1, <1>2, <1>5, <1>6 DEF TypeOK
  <2>3. tasks' \in SUBSET Task /\ inbox' \in SUBSET Message
    BY <1>1, <1>2, <1>5, <1>6 DEF TypeOK
  <2>4. /\ owner' \in Account \cup {None, Stranger}
        /\ stage' \in {"question", "message", "authenticated"} /\ question' \in 0 .. MaxQuestions
        /\ answered' \in [question : Nat, typed : SUBSET Nat]
        /\ started' \in [user : Account \cup {None}, session : Session \cup {None}]
    BY <1>1, <1>2, <1>5, <1>6 DEF TypeOK
  <2>5. QED
    BY <2>1, <2>2, <2>3, <2>4 DEF TypeOK
<1>8. OneAtATime'
  BY <1>1, <1>2, <1>5, <1>6 DEF OneAtATime, Own, Mail
<1>9. CurrentInv'
  BY <1>1, <1>2, <1>5, <1>6
     DEF CurrentInv, Own, Mail, Open, Expects, ReplyKind
<1>10. UserInv'
  BY <1>1, <1>2, <1>5, <1>6 DEF UserInv, TypeOK
<1>11. CreateInv'
  BY <1>1, <1>2, <1>5, <1>6
     DEF CreateInv, Creates, Cancels, Own, Mail, CurrentInv, Open, ConfirmInv, UserInv
<1>12. ConfirmInv'
  BY <1>1, <1>2, <1>5, <1>6
     DEF ConfirmInv, CreateInv, Creates, Cancels, TypeOK, Mail, Own
<1>13. TypedInv'
  BY <1>1, <1>2, <1>5, <1>6 DEF TypedInv, TypeOK
<1>14. TaskInv'
  BY <1>1, <1>2, <1>5, <1>6
     DEF TaskInv, Open, TypeOK, Own, TypedInv, ReplyInv
<1>15. ReplyInv'
  BY <1>1, <1>2, <1>5, <1>6 DEF ReplyInv, Open, TypeOK, Mail
<1>16. ExitInv'
  BY <1>1, <1>2, <1>5, <1>6
     DEF ExitInv, ExitStartsSelection, ReplyInv, Open, Own
<1>17. ResponseReachesItsQuestion'
  BY <1>1, <1>2, <1>5, <1>6 DEF ResponseReachesItsQuestion
<1>18. QED
  BY <1>7, <1>8, <1>9, <1>10, <1>11, <1>12, <1>13, <1>14, <1>15, <1>16, <1>17

\* Or the user chooses (accounts_result).
LEMMA ChoosesKeeps ==
    ASSUME Inv, NEW m \in inbox, Takes(m), m.kind = "AccountsResult", closing = "None",
           NEW A \in SUBSET Account, accounts' = A, phase' = "SelectingUser",
           UNCHANGED <<convVars, client, username, selected_session,
                       selection_session_cancelled, power_state, closeVars, tasks>>
    PROVE  Inv'
<1> USE GreeterAssumption DEF Inv, CreateSteps, ExchangeSteps, OtherSteps, Takes, Running,
    Ignore, convVars, userVars, closeVars, appVars, greetdVars
<1>1. Open /\ m \in Mail /\ Own = {} /\ Mail' = {}
  BY DEF Open, Mail, Own, OneAtATime
<1>2. /\ phase = "DiscoveringUsers" /\ username = None /\ power_state = Idle
      /\ ~selection_session_cancelled
  BY <1>1 DEF CurrentInv, Expects, UserInv, ConfirmInv
<1>3. TypeOK'
  BY <1>1, <1>2 DEF TypeOK, Phases, Closings, PowerStates, Actions, Idle
<1>4. OneAtATime'
  BY <1>1, <1>2 DEF OneAtATime, Own, Mail
<1>5. CurrentInv'
  BY <1>1, <1>2 DEF CurrentInv, Own, Mail, Open, Expects, ReplyKind
<1>6. UserInv'
  BY <1>1, <1>2 DEF UserInv, TypeOK
<1>7. CreateInv'
  BY <1>1, <1>2 DEF CreateInv, Creates, Cancels, TypeOK, Own, Mail
<1>8. ConfirmInv'
  BY <1>1, <1>2 DEF ConfirmInv, CreateInv, Creates, Cancels, TypeOK, Mail, Own
<1>9. TypedInv'
  BY <1>1, <1>2 DEF TypedInv, TypeOK
<1>10. TaskInv'
  BY <1>1, <1>2 DEF TaskInv, Open, TypeOK, Own, TypedInv, ReplyInv
<1>11. ReplyInv'
  BY <1>1, <1>2 DEF ReplyInv, Open, TypeOK, Mail
<1>12. ExitInv'
  BY <1>1, <1>2 DEF ExitInv, ExitStartsSelection, ReplyInv, Open, Own
<1>13. ResponseReachesItsQuestion'
  BY <1>1, <1>2 DEF ResponseReachesItsQuestion
<1>14. QED
  BY <1>3, <1>4, <1>5, <1>6, <1>7, <1>8, <1>9, <1>10, <1>11, <1>12, <1>13

\* The session is gone before a user is chosen (user_selection_cancelled).
LEMMA SelectionCancelledKeeps ==
    ASSUME Inv, NEW m \in inbox, Takes(m), m.kind = "UserSelectionCancelled",
           UserSelectionCancelled(m), m.attempt = attempt,
           closing = "WaitingForUserSelectionCancellation" \/ phase = "CancellingForUserSelection"
    PROVE  Inv'
<1> USE GreeterAssumption DEF Inv, CreateSteps, ExchangeSteps, OtherSteps,
    UserSelectionCancelled, Takes, Running, Ignore, convVars, userVars, closeVars, appVars,
    greetdVars
<1>1. m \in Mail /\ Own = {} /\ Mail' = {}
  BY DEF Mail, Own, OneAtATime
<1>2. TypeOK'
  <2>1. /\ phase' \in Phases /\ status' \in {"Waiting", "Submitting", "Succeeded", "Failed"}
        /\ attempt' \in Nat /\ input' \in SUBSET Nat /\ shown' \in Nat
        /\ username' \in Account \cup {None} /\ accounts' \in SUBSET Account
        /\ selected_session' \in Session \cup {None}
        /\ power_state' \in PowerStates /\ closing' \in Closings
    BY <1>1 DEF TypeOK, Phases, Closings, PowerStates, Actions, Idle
  <2>2. /\ client' \in BOOLEAN /\ selection_session_cancelled' \in BOOLEAN
        /\ exited' \in BOOLEAN /\ timer' \in BOOLEAN /\ confirmed' \in BOOLEAN
    BY <1>1 DEF TypeOK
  <2>3. tasks' \in SUBSET Task /\ inbox' \in SUBSET Message
    BY <1>1 DEF TypeOK
  <2>4. /\ owner' \in Account \cup {None, Stranger}
        /\ stage' \in {"question", "message", "authenticated"} /\ question' \in 0 .. MaxQuestions
        /\ answered' \in [question : Nat, typed : SUBSET Nat]
        /\ started' \in [user : Account \cup {None}, session : Session \cup {None}]
    BY <1>1 DEF TypeOK
  <2>5. QED
    BY <2>1, <2>2, <2>3, <2>4 DEF TypeOK
<1>3. OneAtATime'
  BY <1>1 DEF OneAtATime, Own, Mail
<1>4. CurrentInv'
  BY <1>1 DEF CurrentInv, Own, Mail, Open, Expects, ReplyKind
<1>5. UserInv'
  BY <1>1 DEF UserInv, TypeOK
<1>6. CreateInv'
  BY <1>1 DEF CreateInv, Creates, Cancels, TypeOK, Own, Mail
<1>7. ConfirmInv'
  BY <1>1 DEF ConfirmInv, CreateInv, Creates, Cancels, TypeOK, Mail, Own
<1>8. TypedInv'
  BY <1>1 DEF TypedInv, TypeOK
<1>9. TaskInv'
  BY <1>1 DEF TaskInv, Open, TypeOK, Own, TypedInv, ReplyInv
<1>10. ReplyInv'
  BY <1>1 DEF ReplyInv, Open, TypeOK, Mail
<1>11. ExitInv'
  BY <1>1 DEF ExitInv, ExitStartsSelection, ReplyInv, Open, Own
<1>12. ResponseReachesItsQuestion'
  BY <1>1 DEF ResponseReachesItsQuestion
<1>13. QED
  BY <1>2, <1>3, <1>4, <1>5, <1>6, <1>7, <1>8, <1>9, <1>10, <1>11, <1>12

\* The window closes after the cancellation (session_cancelled).
LEMMA SessionCancelledKeeps ==
    ASSUME Inv, NEW m \in inbox, Takes(m), m.kind = "SessionCancelled", closing # "None",
           SessionCancelled(m)
    PROVE  Inv'
<1> USE GreeterAssumption DEF Inv, CreateSteps, ExchangeSteps, OtherSteps, SessionCancelled,
    is_cleaning, Takes, Running, Ignore, convVars, userVars, closeVars, appVars, greetdVars
<1>1. TypeOK'
  <2>1. /\ phase' \in Phases /\ status' \in {"Waiting", "Submitting", "Succeeded", "Failed"}
        /\ attempt' \in Nat /\ input' \in SUBSET Nat /\ shown' \in Nat
        /\ username' \in Account \cup {None} /\ accounts' \in SUBSET Account
        /\ selected_session' \in Session \cup {None}
        /\ power_state' \in PowerStates /\ closing' \in Closings
    BY DEF TypeOK, Phases, Closings, PowerStates, Actions, Idle
  <2>2. /\ client' \in BOOLEAN /\ selection_session_cancelled' \in BOOLEAN
        /\ exited' \in BOOLEAN /\ timer' \in BOOLEAN /\ confirmed' \in BOOLEAN
    BY DEF TypeOK
  <2>3. tasks' \in SUBSET Task /\ inbox' \in SUBSET Message
    BY DEF TypeOK
  <2>4. /\ owner' \in Account \cup {None, Stranger}
        /\ stage' \in {"question", "message", "authenticated"} /\ question' \in 0 .. MaxQuestions
        /\ answered' \in [question : Nat, typed : SUBSET Nat]
        /\ started' \in [user : Account \cup {None}, session : Session \cup {None}]
    BY DEF TypeOK
  <2>5. QED
    BY <2>1, <2>2, <2>3, <2>4 DEF TypeOK
<1>2. OneAtATime'
  BY DEF OneAtATime, Own, Mail
<1>3. CurrentInv'
  BY DEF CurrentInv, OneAtATime, Own, Mail, Open, Expects, ReplyKind, TypeOK
<1>4. UserInv'
  BY DEF UserInv, TypeOK, CurrentInv, Open
<1>5. CreateInv'
  BY DEF CreateInv, Creates, Cancels, TypeOK
<1>6. ConfirmInv'
  BY DEF ConfirmInv, CreateInv, Creates, Cancels, TypeOK
<1>7. TypedInv'
  BY DEF TypedInv, TypeOK
<1>8. TaskInv'
  BY DEF TaskInv, Open, TypeOK
<1>9. ReplyInv'
  BY DEF ReplyInv, Open, TypeOK
<1>10. ExitInv'
  BY DEF ExitInv, ExitStartsSelection, Own
<1>11. ResponseReachesItsQuestion'
  BY DEF ResponseReachesItsQuestion
<1>12. QED
  BY <1>1, <1>2, <1>3, <1>4, <1>5, <1>6, <1>7, <1>8, <1>9, <1>10, <1>11

\* A power action ends (power_result).
LEMMA PowerResultKeeps ==
    ASSUME Inv, NEW m \in inbox, Takes(m), m.kind = "PowerResult", PowerResult(m)
    PROVE  Inv'
<1> USE GreeterAssumption DEF Inv, CreateSteps, ExchangeSteps, OtherSteps, PowerResult,
    Takes, Running, Ignore, convVars, userVars, closeVars, appVars, greetdVars
<1>1. Own' = Own /\ Mail' = Mail /\ Open' = Open /\ Expects' = Expects
  BY DEF Own, Mail, Open, Expects
<1>2. TypeOK'
  BY <1>1 DEF TypeOK, Phases, Closings, PowerStates, Actions, Idle
<1>3. OneAtATime'
  BY <1>1 DEF OneAtATime, Own, Mail
<1>4. CurrentInv'
  BY <1>1 DEF CurrentInv
<1>5. UserInv'
  BY <1>1 DEF UserInv, TypeOK, CurrentInv, Open
<1>6. CreateInv'
  BY <1>1 DEF CreateInv, Creates, Cancels, TypeOK
<1>7. ConfirmInv'
  BY <1>1 DEF ConfirmInv, CreateInv, Creates, Cancels, TypeOK
<1>8. TypedInv'
  BY <1>1 DEF TypedInv, TypeOK
<1>9. TaskInv'
  BY <1>1 DEF TaskInv, Open, TypeOK
<1>10. ReplyInv'
  BY <1>1 DEF ReplyInv, Open, TypeOK
<1>11. ExitInv'
  BY <1>1 DEF ExitInv, ExitStartsSelection, Own
<1>12. ResponseReachesItsQuestion'
  BY <1>1 DEF ResponseReachesItsQuestion
<1>13. QED
  BY <1>2, <1>3, <1>4, <1>5, <1>6, <1>7, <1>8, <1>9, <1>10, <1>11, <1>12

\* A session left behind is cancelled before one is created (restart_at, recover_and_begin_at).
LEMMA ContinuesKeeps ==
    ASSUME Inv, NEW t \in tasks, t.step \in {"cancel", "recover"}, NEW r \in Responses,
           NEW seen \in {r, "Lost"},
           IF r = "Lost" THEN Refuse ELSE Serve(t, r), Continue(t, seen), UNCHANGED appVars
    PROVE  Inv'
<1> USE GreeterAssumption DEF Inv, CreateSteps, ExchangeSteps, OtherSteps, appVars,
    convVars, userVars, closeVars, Responses
<1>1. PICK x : x = [t EXCEPT !.step = NextStep(t.step, seen)]
  OBVIOUS
<1>2. tasks' = (tasks \ {t}) \cup {x} /\ inbox' = inbox
  BY <1>1 DEF Continue
<1>3. /\ x \in Task /\ x.step \in {"recover", "create"} /\ x.attempt = t.attempt
      /\ x.user = t.user
  BY <1>1 DEF TypeOK, Task, NextStep
<1>4. /\ owner' \in {owner, None}
      /\ question' = question /\ stage' = stage 
      /\ answered' = answered /\ started' = started
  BY DEF Serve, Refuse, greetdVars, TypeOK
<1>5. Own = {t} /\ Mail = {} /\ Own' = {x} /\ Mail' = {} /\ t \in Creates
  BY <1>2, <1>3 DEF Own, Mail, OneAtATime, Creates
<1>6. phase = "CreatingSession"
  BY <1>5 DEF CreateInv
<1>7. TypeOK'
  BY <1>2, <1>3, <1>4, <1>5, <1>6
     DEF TypeOK, Phases, Closings, PowerStates, Actions, Idle
<1>8. OneAtATime'
  BY <1>2, <1>3, <1>4, <1>5, <1>6 DEF OneAtATime, Own, Mail
<1>9. CurrentInv'
  BY <1>2, <1>3, <1>4, <1>5, <1>6
     DEF CurrentInv, Own, Mail, Open, Expects, ReplyKind
<1>10. UserInv'
  BY <1>2, <1>3, <1>4, <1>5, <1>6 DEF UserInv, TypeOK, CurrentInv, Open
<1>11. CreateInv'
  BY <1>2, <1>3, <1>4, <1>5, <1>6
     DEF CreateInv, Creates, Cancels, TypeOK, Own, Mail
<1>12. ConfirmInv'
  BY <1>2, <1>3, <1>4, <1>5, <1>6
     DEF ConfirmInv, CreateInv, Creates, Cancels, TypeOK, Mail, Own
<1>13. TypedInv'
  BY <1>2, <1>3, <1>4, <1>5, <1>6 DEF TypedInv, TypeOK, Own, Mail
<1>14. TaskInv'
  BY <1>2, <1>3, <1>4, <1>5, <1>6
     DEF TaskInv, Open, Own, CreateInv, Creates
<1>15. ReplyInv'
  BY <1>2, <1>3, <1>4, <1>5, <1>6
     DEF ReplyInv, Open, Own, Mail, TaskInv, CreateInv, Creates, CurrentInv
<1>16. ExitInv'
  BY <1>2, <1>3, <1>4, <1>5, <1>6
     DEF ExitInv, ExitStartsSelection, Own, Open
<1>17. ResponseReachesItsQuestion'
  BY <1>2, <1>3, <1>4, <1>5, <1>6 DEF ResponseReachesItsQuestion, TypedInv
<1>18. QED
  BY <1>7, <1>8, <1>9, <1>10, <1>11, <1>12, <1>13, <1>14, <1>15, <1>16, <1>17

\* The cancellation of a closing window (cancel_for_close).
LEMMA ClosesCancellingKeeps ==
    ASSUME Inv, NEW t \in tasks, t.step = "cancelToClose", NEW r \in Responses,
           NEW seen \in {r, "Lost"},
           IF r = "Lost" THEN Refuse ELSE Serve(t, r), Finish(t, seen), UNCHANGED appVars
    PROVE  Inv'
<1> USE GreeterAssumption DEF Inv, CreateSteps, ExchangeSteps, OtherSteps, appVars,
    convVars, userVars, closeVars, Responses
<1>1. PICK m : m = [kind |-> ReplyKind(t.step), attempt |-> t.attempt, response |-> seen,
                     connected |-> t.step = "create" /\ seen # "Lost",
                     question |-> IF seen = "Prompt" THEN question' ELSE 0]
  OBVIOUS
<1>2. tasks' = tasks \ {t} /\ inbox' = inbox \cup {m}
  BY <1>1 DEF Finish
<1>3. question' \in 0 .. MaxQuestions
  BY DEF TypeOK, Serve, Refuse, Proceed, Fails, greetdVars
<1>4. /\ m \in Message /\ m.kind = "SessionCancelled" /\ m.attempt = t.attempt
      /\ m.response = seen /\ (seen = "Prompt" => m.question = question')
  BY <1>1, <1>3 DEF TypeOK, Message, Task, ReplyKind
<1>5. /\ owner' \in {owner, None} /\ (seen = "Success" => owner' = None) 
      /\ question' = question /\ stage' = stage 
      /\ answered' = answered /\ started' = started
  BY DEF Serve, Refuse, Proceed, Fails, greetdVars, TypeOK, Task
<1>6. Own' = Own /\ Mail' = Mail /\ t \notin Own /\ m \notin Mail'
  BY <1>2, <1>4 DEF Own, Mail
<1>7. ~Open
  BY DEF CurrentInv
<1>8. TypeOK'
  BY <1>2, <1>4, <1>5, <1>6, <1>7
     DEF TypeOK, Phases, Closings, PowerStates, Actions, Idle
<1>9. OneAtATime'
  BY <1>2, <1>4, <1>5, <1>6, <1>7 DEF OneAtATime, Own, Mail
<1>10. CurrentInv'
  BY <1>2, <1>4, <1>5, <1>6, <1>7
     DEF CurrentInv, Own, Mail, Open, Expects, ReplyKind
<1>11. UserInv'
  BY <1>2, <1>4, <1>5, <1>6, <1>7 DEF UserInv, TypeOK, CurrentInv, Open
<1>12. CreateInv'
  BY <1>2, <1>4, <1>5, <1>6, <1>7
     DEF CreateInv, Creates, Cancels, TypeOK, Own, Mail
<1>13. ConfirmInv'
  BY <1>2, <1>4, <1>5, <1>6, <1>7
     DEF ConfirmInv, CreateInv, Creates, Cancels, TypeOK, Mail, Own
<1>14. TypedInv'
  BY <1>2, <1>4, <1>5, <1>6, <1>7 DEF TypedInv, TypeOK, Own, Mail
<1>15. TaskInv'
  BY <1>2, <1>4, <1>5, <1>6, <1>7
     DEF TaskInv, Open, Own, CreateInv, Creates
<1>16. ReplyInv'
  BY <1>2, <1>4, <1>5, <1>6, <1>7
     DEF ReplyInv, Open, Own, Mail, TaskInv, CreateInv, Creates, CurrentInv
<1>17. ExitInv'
  BY <1>2, <1>4, <1>5, <1>6, <1>7
     DEF ExitInv, ExitStartsSelection, Own, Open
<1>18. ResponseReachesItsQuestion'
  BY <1>2, <1>4, <1>5, <1>6, <1>7 DEF ResponseReachesItsQuestion, TypedInv
<1>19. QED
  BY <1>8, <1>9, <1>10, <1>11, <1>12, <1>13, <1>14, <1>15, <1>16, <1>17, <1>18

\* The cancellation before a user is chosen (cancel_for_user_selection).
LEMMA SelectsCancellingKeeps ==
    ASSUME Inv, NEW t \in tasks, t.step = "cancelToSelect", NEW r \in Responses,
           NEW seen \in {r, "Lost"},
           IF r = "Lost" THEN Refuse ELSE Serve(t, r), Finish(t, seen), UNCHANGED appVars
    PROVE  Inv'
<1> USE GreeterAssumption DEF Inv, CreateSteps, ExchangeSteps, OtherSteps, appVars,
    convVars, userVars, closeVars, Responses
<1>1. PICK m : m = [kind |-> ReplyKind(t.step), attempt |-> t.attempt, response |-> seen,
                     connected |-> t.step = "create" /\ seen # "Lost",
                     question |-> IF seen = "Prompt" THEN question' ELSE 0]
  OBVIOUS
<1>2. tasks' = tasks \ {t} /\ inbox' = inbox \cup {m}
  BY <1>1 DEF Finish
<1>3. question' \in 0 .. MaxQuestions
  BY DEF TypeOK, Serve, Refuse, Proceed, Fails, greetdVars
<1>4. /\ m \in Message /\ m.kind = "UserSelectionCancelled" /\ m.attempt = t.attempt
      /\ m.response = seen /\ (seen = "Prompt" => m.question = question')
  BY <1>1, <1>3 DEF TypeOK, Message, Task, ReplyKind
<1>5. /\ owner' \in {owner, None} /\ (seen = "Success" => owner' = None) 
      /\ question' = question /\ stage' = stage 
      /\ answered' = answered /\ started' = started
  BY DEF Serve, Refuse, Proceed, Fails, greetdVars, TypeOK, Task
<1>6. Own = {t} /\ Mail = {} /\ Own' = {} /\ Mail' = {m}
  BY <1>2, <1>4 DEF Own, Mail, OneAtATime
<1>7. Open =>
        phase = "CancellingForUserSelection" /\ power_state = Idle
  BY <1>6 DEF CurrentInv, Expects, ReplyKind, UserInv
<1>8. TypeOK'
  BY <1>2, <1>4, <1>5, <1>6, <1>7
     DEF TypeOK, Phases, Closings, PowerStates, Actions, Idle
<1>9. OneAtATime'
  BY <1>2, <1>4, <1>5, <1>6, <1>7 DEF OneAtATime, Own, Mail
<1>10. CurrentInv'
  BY <1>2, <1>4, <1>5, <1>6, <1>7
     DEF CurrentInv, Own, Mail, Open, Expects, ReplyKind
<1>11. UserInv'
  BY <1>2, <1>4, <1>5, <1>6, <1>7 DEF UserInv, TypeOK, CurrentInv, Open
<1>12. CreateInv'
  BY <1>2, <1>4, <1>5, <1>6, <1>7
     DEF CreateInv, Creates, Cancels, TypeOK, Own, Mail
<1>13. ConfirmInv'
  BY <1>2, <1>4, <1>5, <1>6, <1>7
     DEF ConfirmInv, CreateInv, Creates, Cancels, TypeOK, Mail, Own
<1>14. TypedInv'
  BY <1>2, <1>4, <1>5, <1>6, <1>7 DEF TypedInv, TypeOK, Own, Mail
<1>15. TaskInv'
  BY <1>2, <1>4, <1>5, <1>6, <1>7
     DEF TaskInv, Open, Own, CreateInv, Creates
<1>16. ReplyInv'
  BY <1>2, <1>4, <1>5, <1>6, <1>7
     DEF ReplyInv, Open, Own, Mail, TaskInv, CreateInv, Creates, CurrentInv
<1>17. ExitInv'
  BY <1>2, <1>4, <1>5, <1>6, <1>7
     DEF ExitInv, ExitStartsSelection, Own, Open
<1>18. ResponseReachesItsQuestion'
  BY <1>2, <1>4, <1>5, <1>6, <1>7 DEF ResponseReachesItsQuestion, TypedInv
<1>19. QED
  BY <1>8, <1>9, <1>10, <1>11, <1>12, <1>13, <1>14, <1>15, <1>16, <1>17, <1>18

\* A session is created for the user on display (begin).
LEMMA CreatingKeeps ==
    ASSUME Inv, NEW t \in tasks, t.step = "create", NEW r \in Responses,
           NEW seen \in {r, "Lost"},
           IF r = "Lost" THEN Refuse ELSE Serve(t, r), Finish(t, seen), UNCHANGED appVars
    PROVE  Inv'
<1> USE GreeterAssumption DEF Inv, CreateSteps, ExchangeSteps, OtherSteps, appVars,
    convVars, userVars, closeVars, Responses
<1>1. PICK m : m = [kind |-> ReplyKind(t.step), attempt |-> t.attempt, response |-> seen,
                     connected |-> t.step = "create" /\ seen # "Lost",
                     question |-> IF seen = "Prompt" THEN question' ELSE 0]
  OBVIOUS
<1>2. tasks' = tasks \ {t} /\ inbox' = inbox \cup {m}
  BY <1>1 DEF Finish
<1>3. question' \in 0 .. MaxQuestions
  BY DEF TypeOK, Serve, Refuse, Proceed, Fails, greetdVars
<1>4. /\ m \in Message /\ m.kind = "AuthResult" /\ m.attempt = t.attempt
      /\ m.response = seen /\ (seen = "Prompt" => m.question = question')
  BY <1>1, <1>3 DEF TypeOK, Message, Task, ReplyKind
<1>5. /\ owner' \in {owner, t.user} /\ started' = started /\ answered' = answered
      /\ seen = "Prompt" => owner' = t.user /\ stage' = "question"
      /\ seen = "Message" => owner' = t.user /\ stage' = "message"
      /\ seen = "Success" => owner' = t.user /\ stage' = "authenticated"
      /\ stage' \in {"question", "message", "authenticated"} /\ question' \in 0 .. MaxQuestions
      /\ t.user \in Account
  BY DEF Serve, Refuse, Proceed, Fails, greetdVars, TypeOK, Task
<1>6. Own = {t} /\ Mail = {} /\ Own' = {} /\ Mail' = {m}
  BY <1>2, <1>4 DEF Own, Mail, OneAtATime
<1>7. Open =>
        phase \in {"CreatingSession", "Authenticating", "StartingSession"} /\ power_state = Idle
  BY <1>6 DEF CurrentInv, Expects, ReplyKind, UserInv
<1>8. TypeOK'
  <2>1. /\ phase' \in Phases /\ status' \in {"Waiting", "Submitting", "Succeeded", "Failed"}
        /\ attempt' \in Nat /\ input' \in SUBSET Nat /\ shown' \in Nat
        /\ username' \in Account \cup {None} /\ accounts' \in SUBSET Account
        /\ selected_session' \in Session \cup {None}
        /\ power_state' \in PowerStates /\ closing' \in Closings
    BY <1>2, <1>4, <1>5, <1>6, <1>7 DEF TypeOK, Phases, Closings, PowerStates, Actions, Idle
  <2>2. /\ client' \in BOOLEAN /\ selection_session_cancelled' \in BOOLEAN
        /\ exited' \in BOOLEAN /\ timer' \in BOOLEAN /\ confirmed' \in BOOLEAN
    BY <1>2, <1>4, <1>5, <1>6, <1>7 DEF TypeOK
  <2>3. tasks' \in SUBSET Task /\ inbox' \in SUBSET Message
    BY <1>2, <1>4, <1>5, <1>6, <1>7 DEF TypeOK
  <2>4. /\ owner' \in Account \cup {None, Stranger}
        /\ stage' \in {"question", "message", "authenticated"} /\ question' \in 0 .. MaxQuestions
        /\ answered' \in [question : Nat, typed : SUBSET Nat]
        /\ started' \in [user : Account \cup {None}, session : Session \cup {None}]
    BY <1>2, <1>4, <1>5, <1>6, <1>7 DEF TypeOK
  <2>5. QED
    BY <2>1, <2>2, <2>3, <2>4 DEF TypeOK
<1>9. OneAtATime'
  BY <1>2, <1>4, <1>5, <1>6, <1>7 DEF OneAtATime, Own, Mail
<1>10. CurrentInv'
  BY <1>2, <1>4, <1>5, <1>6, <1>7
     DEF CurrentInv, Own, Mail, Open, Expects, ReplyKind
<1>11. UserInv'
  BY <1>2, <1>4, <1>5, <1>6, <1>7 DEF UserInv, TypeOK, CurrentInv, Open
<1>12. CreateInv'
  BY <1>2, <1>4, <1>5, <1>6, <1>7
     DEF CreateInv, Creates, Cancels, TypeOK, Own, Mail
<1>13. ConfirmInv'
  BY <1>2, <1>4, <1>5, <1>6, <1>7
     DEF ConfirmInv, CreateInv, Creates, Cancels, TypeOK, Mail, Own
<1>14. TypedInv'
  BY <1>2, <1>4, <1>5, <1>6, <1>7 DEF TypedInv, TypeOK, Own, Mail
<1>15. TaskInv'
  BY <1>2, <1>4, <1>5, <1>6, <1>7
     DEF TaskInv, Open, Own, CreateInv, Creates
<1>16. ReplyInv'
  BY <1>2, <1>4, <1>5, <1>6, <1>7
     DEF ReplyInv, Open, Own, Mail, TaskInv, CreateInv, Creates, CurrentInv
<1>17. ExitInv'
  BY <1>2, <1>4, <1>5, <1>6, <1>7
     DEF ExitInv, ExitStartsSelection, Own, Open
<1>18. ResponseReachesItsQuestion'
  BY <1>2, <1>4, <1>5, <1>6, <1>7 DEF ResponseReachesItsQuestion, TypedInv
<1>19. QED
  BY <1>8, <1>9, <1>10, <1>11, <1>12, <1>13, <1>14, <1>15, <1>16, <1>17, <1>18

\* greetd takes what was posted as the answer (exchange).
LEMMA PostingKeeps ==
    ASSUME Inv, NEW t \in tasks, t.step = "post", NEW r \in Responses,
           NEW seen \in {r, "Lost"},
           IF r = "Lost" THEN Refuse ELSE Serve(t, r), Finish(t, seen), UNCHANGED appVars
    PROVE  Inv'
<1> USE GreeterAssumption DEF Inv, CreateSteps, ExchangeSteps, OtherSteps, appVars,
    convVars, userVars, closeVars, Responses
<1>1. PICK m : m = [kind |-> ReplyKind(t.step), attempt |-> t.attempt, response |-> seen,
                     connected |-> t.step = "create" /\ seen # "Lost",
                     question |-> IF seen = "Prompt" THEN question' ELSE 0]
  OBVIOUS
<1>2. tasks' = tasks \ {t} /\ inbox' = inbox \cup {m}
  BY <1>1 DEF Finish
<1>3. question' \in 0 .. MaxQuestions
  BY DEF TypeOK, Serve, Refuse, Proceed, Fails, greetdVars
<1>4. /\ m \in Message /\ m.kind = "AuthResult" /\ m.attempt = t.attempt
      /\ m.response = seen /\ (seen = "Prompt" => m.question = question')
  BY <1>1, <1>3 DEF TypeOK, Message, Task, ReplyKind
<1>5. /\ owner' \in {owner, None} /\ started' = started
      /\ answered' = answered \/ answered' = [question |-> question, typed |-> t.typed]
      /\ seen = "Prompt" => owner' = owner /\ stage' = "question"
      /\ seen = "Message" => owner' = owner /\ stage' = "message"
      /\ seen = "Success" => owner' = owner /\ stage' = "authenticated"
      /\ stage' \in {"question", "message", "authenticated"} /\ question' \in 0 .. MaxQuestions
      /\ t.typed \in SUBSET Nat
  BY DEF Serve, Refuse, Proceed, Fails, greetdVars, TypeOK, Task
<1>6. Own = {t} /\ Mail = {} /\ Own' = {} /\ Mail' = {m}
  BY <1>2, <1>4 DEF Own, Mail, OneAtATime
<1>7. Open =>
        phase \in {"CreatingSession", "Authenticating", "StartingSession"} /\ power_state = Idle
  BY <1>6 DEF CurrentInv, Expects, ReplyKind, UserInv
<1>8. TypeOK'
  <2>1. /\ phase' \in Phases /\ status' \in {"Waiting", "Submitting", "Succeeded", "Failed"}
        /\ attempt' \in Nat /\ input' \in SUBSET Nat /\ shown' \in Nat
        /\ username' \in Account \cup {None} /\ accounts' \in SUBSET Account
        /\ selected_session' \in Session \cup {None}
        /\ power_state' \in PowerStates /\ closing' \in Closings
    BY <1>2, <1>4, <1>5, <1>6, <1>7 DEF TypeOK, Phases, Closings, PowerStates, Actions, Idle
  <2>2. /\ client' \in BOOLEAN /\ selection_session_cancelled' \in BOOLEAN
        /\ exited' \in BOOLEAN /\ timer' \in BOOLEAN /\ confirmed' \in BOOLEAN
    BY <1>2, <1>4, <1>5, <1>6, <1>7 DEF TypeOK
  <2>3. tasks' \in SUBSET Task /\ inbox' \in SUBSET Message
    BY <1>2, <1>4, <1>5, <1>6, <1>7 DEF TypeOK
  <2>4. /\ owner' \in Account \cup {None, Stranger}
        /\ stage' \in {"question", "message", "authenticated"} /\ question' \in 0 .. MaxQuestions
        /\ answered' \in [question : Nat, typed : SUBSET Nat]
        /\ started' \in [user : Account \cup {None}, session : Session \cup {None}]
    BY <1>2, <1>4, <1>5, <1>6, <1>7 DEF TypeOK
  <2>5. QED
    BY <2>1, <2>2, <2>3, <2>4 DEF TypeOK
<1>9. OneAtATime'
  BY <1>2, <1>4, <1>5, <1>6, <1>7 DEF OneAtATime, Own, Mail
<1>10. CurrentInv'
  BY <1>2, <1>4, <1>5, <1>6, <1>7
     DEF CurrentInv, Own, Mail, Open, Expects, ReplyKind
<1>11. UserInv'
  BY <1>2, <1>4, <1>5, <1>6, <1>7 DEF UserInv, TypeOK, CurrentInv, Open
<1>12. CreateInv'
  BY <1>2, <1>4, <1>5, <1>6, <1>7
     DEF CreateInv, Creates, Cancels, TypeOK, Own, Mail
<1>13. ConfirmInv'
  BY <1>2, <1>4, <1>5, <1>6, <1>7
     DEF ConfirmInv, CreateInv, Creates, Cancels, TypeOK, Mail, Own
<1>14. TypedInv'
  BY <1>2, <1>4, <1>5, <1>6, <1>7 DEF TypedInv, TypeOK, Own, Mail
<1>15. TaskInv'
  BY <1>2, <1>4, <1>5, <1>6, <1>7
     DEF TaskInv, Open, Own, CreateInv, Creates
<1>16. ReplyInv'
  BY <1>2, <1>4, <1>5, <1>6, <1>7
     DEF ReplyInv, Open, Own, Mail, TaskInv, CreateInv, Creates, CurrentInv
<1>17. ExitInv'
  BY <1>2, <1>4, <1>5, <1>6, <1>7
     DEF ExitInv, ExitStartsSelection, Own, Open
<1>18. ResponseReachesItsQuestion'
  BY <1>2, <1>4, <1>5, <1>6, <1>7 DEF ResponseReachesItsQuestion, TypedInv
<1>19. QED
  BY <1>8, <1>9, <1>10, <1>11, <1>12, <1>13, <1>14, <1>15, <1>16, <1>17, <1>18

\* greetd goes on after a message (exchange).
LEMMA AcknowledgingKeeps ==
    ASSUME Inv, NEW t \in tasks, t.step = "acknowledge", NEW r \in Responses,
           NEW seen \in {r, "Lost"},
           IF r = "Lost" THEN Refuse ELSE Serve(t, r), Finish(t, seen), UNCHANGED appVars
    PROVE  Inv'
<1> USE GreeterAssumption DEF Inv, CreateSteps, ExchangeSteps, OtherSteps, appVars,
    convVars, userVars, closeVars, Responses
<1>1. PICK m : m = [kind |-> ReplyKind(t.step), attempt |-> t.attempt, response |-> seen,
                     connected |-> t.step = "create" /\ seen # "Lost",
                     question |-> IF seen = "Prompt" THEN question' ELSE 0]
  OBVIOUS
<1>2. tasks' = tasks \ {t} /\ inbox' = inbox \cup {m}
  BY <1>1 DEF Finish
<1>3. question' \in 0 .. MaxQuestions
  BY DEF TypeOK, Serve, Refuse, Proceed, Fails, greetdVars
<1>4. /\ m \in Message /\ m.kind = "AuthResult" /\ m.attempt = t.attempt
      /\ m.response = seen /\ (seen = "Prompt" => m.question = question')
  BY <1>1, <1>3 DEF TypeOK, Message, Task, ReplyKind
<1>5. /\ owner' \in {owner, None} /\ started' = started /\ answered' = answered
      /\ seen = "Prompt" => owner' = owner /\ stage' = "question"
      /\ seen = "Message" => owner' = owner /\ stage' = "message"
      /\ seen = "Success" => owner' = owner /\ stage' = "authenticated"
      /\ stage' \in {"question", "message", "authenticated"} /\ question' \in 0 .. MaxQuestions
      /\ t.typed \in SUBSET Nat
  BY DEF Serve, Refuse, Proceed, Fails, greetdVars, TypeOK, Task
<1>6. Own = {t} /\ Mail = {} /\ Own' = {} /\ Mail' = {m}
  BY <1>2, <1>4 DEF Own, Mail, OneAtATime
<1>7. Open =>
        phase \in {"CreatingSession", "Authenticating", "StartingSession"} /\ power_state = Idle
  BY <1>6 DEF CurrentInv, Expects, ReplyKind, UserInv
<1>8. TypeOK'
  <2>1. /\ phase' \in Phases /\ status' \in {"Waiting", "Submitting", "Succeeded", "Failed"}
        /\ attempt' \in Nat /\ input' \in SUBSET Nat /\ shown' \in Nat
        /\ username' \in Account \cup {None} /\ accounts' \in SUBSET Account
        /\ selected_session' \in Session \cup {None}
        /\ power_state' \in PowerStates /\ closing' \in Closings
    BY <1>2, <1>4, <1>5, <1>6, <1>7 DEF TypeOK, Phases, Closings, PowerStates, Actions, Idle
  <2>2. /\ client' \in BOOLEAN /\ selection_session_cancelled' \in BOOLEAN
        /\ exited' \in BOOLEAN /\ timer' \in BOOLEAN /\ confirmed' \in BOOLEAN
    BY <1>2, <1>4, <1>5, <1>6, <1>7 DEF TypeOK
  <2>3. tasks' \in SUBSET Task /\ inbox' \in SUBSET Message
    BY <1>2, <1>4, <1>5, <1>6, <1>7 DEF TypeOK
  <2>4. /\ owner' \in Account \cup {None, Stranger}
        /\ stage' \in {"question", "message", "authenticated"} /\ question' \in 0 .. MaxQuestions
        /\ answered' \in [question : Nat, typed : SUBSET Nat]
        /\ started' \in [user : Account \cup {None}, session : Session \cup {None}]
    BY <1>2, <1>4, <1>5, <1>6, <1>7 DEF TypeOK
  <2>5. QED
    BY <2>1, <2>2, <2>3, <2>4 DEF TypeOK
<1>9. OneAtATime'
  BY <1>2, <1>4, <1>5, <1>6, <1>7 DEF OneAtATime, Own, Mail
<1>10. CurrentInv'
  BY <1>2, <1>4, <1>5, <1>6, <1>7
     DEF CurrentInv, Own, Mail, Open, Expects, ReplyKind
<1>11. UserInv'
  BY <1>2, <1>4, <1>5, <1>6, <1>7 DEF UserInv, TypeOK, CurrentInv, Open
<1>12. CreateInv'
  BY <1>2, <1>4, <1>5, <1>6, <1>7
     DEF CreateInv, Creates, Cancels, TypeOK, Own, Mail
<1>13. ConfirmInv'
  BY <1>2, <1>4, <1>5, <1>6, <1>7
     DEF ConfirmInv, CreateInv, Creates, Cancels, TypeOK, Mail, Own
<1>14. TypedInv'
  BY <1>2, <1>4, <1>5, <1>6, <1>7 DEF TypedInv, TypeOK, Own, Mail
<1>15. TaskInv'
  BY <1>2, <1>4, <1>5, <1>6, <1>7
     DEF TaskInv, Open, Own, CreateInv, Creates
<1>16. ReplyInv'
  BY <1>2, <1>4, <1>5, <1>6, <1>7
     DEF ReplyInv, Open, Own, Mail, TaskInv, CreateInv, Creates, CurrentInv
<1>17. ExitInv'
  BY <1>2, <1>4, <1>5, <1>6, <1>7
     DEF ExitInv, ExitStartsSelection, Own, Open
<1>18. ResponseReachesItsQuestion'
  BY <1>2, <1>4, <1>5, <1>6, <1>7 DEF ResponseReachesItsQuestion, TypedInv
<1>19. QED
  BY <1>8, <1>9, <1>10, <1>11, <1>12, <1>13, <1>14, <1>15, <1>16, <1>17, <1>18

\* greetd is to start the desktop session (exchange).
LEMMA StartingKeeps ==
    ASSUME Inv, NEW t \in tasks, t.step = "start", NEW r \in Responses,
           NEW seen \in {r, "Lost"},
           IF r = "Lost" THEN Refuse ELSE Serve(t, r), Finish(t, seen), UNCHANGED appVars
    PROVE  Inv'
<1> USE GreeterAssumption DEF Inv, CreateSteps, ExchangeSteps, OtherSteps, appVars,
    convVars, userVars, closeVars, Responses
<1>1. t.session \in Session \cup {None}
  BY DEF TypeOK, Task
<1>2. PICK m : m = [kind |-> ReplyKind(t.step), attempt |-> t.attempt, response |-> seen,
                     connected |-> t.step = "create" /\ seen # "Lost",
                     question |-> IF seen = "Prompt" THEN question' ELSE 0]
  OBVIOUS
<1>3. tasks' = tasks \ {t} /\ inbox' = inbox \cup {m}
  BY <1>2 DEF Finish
<1>4. question' \in 0 .. MaxQuestions
  BY DEF TypeOK, Serve, Refuse, Proceed, Fails, greetdVars
<1>5. /\ m \in Message /\ m.kind = "AuthResult" /\ m.attempt = t.attempt
      /\ m.response = seen /\ (seen = "Prompt" => m.question = question')
  BY <1>2, <1>4 DEF TypeOK, Message, Task, ReplyKind
<1>6. /\ owner' \in {owner, None} /\ answered' = answered /\ stage' = stage /\ question' = question
  BY DEF Serve, Refuse, greetdVars
<1>7. seen # "Prompt" /\ seen # "Message"
  BY DEF Serve
<1>8. /\ started' # started =>
           owner \in Account /\ started' = [user |-> owner, session |-> t.session]
      /\ seen = "Success" => started' = [user |-> owner, session |-> t.session]
  BY DEF Serve, Refuse, Proceed, Fails, greetdVars, TypeOK, Task
<1>9. Own = {t} /\ Mail = {} /\ Own' = {} /\ Mail' = {m}
  BY <1>3, <1>5 DEF Own, Mail, OneAtATime
<1>10. Open =>
         phase \in {"CreatingSession", "Authenticating", "StartingSession"} /\ power_state = Idle
  BY <1>9 DEF CurrentInv, Expects, ReplyKind, UserInv
<1>11. TypeOK'
  <2>1. /\ phase' \in Phases /\ status' \in {"Waiting", "Submitting", "Succeeded", "Failed"}
        /\ attempt' \in Nat /\ input' \in SUBSET Nat /\ shown' \in Nat
        /\ username' \in Account \cup {None} /\ accounts' \in SUBSET Account
        /\ selected_session' \in Session \cup {None}
        /\ power_state' \in PowerStates /\ closing' \in Closings
    BY <1>1, <1>3, <1>5, <1>6, <1>7, <1>8, <1>9, <1>10
       DEF TypeOK, Phases, Closings, PowerStates, Actions, Idle
  <2>2. /\ client' \in BOOLEAN /\ selection_session_cancelled' \in BOOLEAN
        /\ exited' \in BOOLEAN /\ timer' \in BOOLEAN /\ confirmed' \in BOOLEAN
    BY <1>1, <1>3, <1>5, <1>6, <1>7, <1>8, <1>9, <1>10 DEF TypeOK
  <2>3. tasks' \in SUBSET Task /\ inbox' \in SUBSET Message
    BY <1>1, <1>3, <1>5, <1>6, <1>7, <1>8, <1>9, <1>10 DEF TypeOK
  <2>4. /\ owner' \in Account \cup {None, Stranger}
        /\ stage' \in {"question", "message", "authenticated"} /\ question' \in 0 .. MaxQuestions
        /\ answered' \in [question : Nat, typed : SUBSET Nat]
        /\ started' \in [user : Account \cup {None}, session : Session \cup {None}]
    BY <1>1, <1>3, <1>5, <1>6, <1>7, <1>8, <1>9, <1>10 DEF TypeOK
  <2>5. QED
    BY <2>1, <2>2, <2>3, <2>4 DEF TypeOK
<1>12. OneAtATime'
  BY <1>1, <1>3, <1>5, <1>6, <1>7, <1>8, <1>9, <1>10
     DEF OneAtATime, Own, Mail
<1>13. CurrentInv'
  BY <1>1, <1>3, <1>5, <1>6, <1>7, <1>8, <1>9, <1>10
     DEF CurrentInv, Own, Mail, Open, Expects, ReplyKind
<1>14. UserInv'
  BY <1>1, <1>3, <1>5, <1>6, <1>7, <1>8, <1>9, <1>10
     DEF UserInv, TypeOK, CurrentInv, Open
<1>15. CreateInv'
  BY <1>1, <1>3, <1>5, <1>6, <1>7, <1>8, <1>9, <1>10
     DEF CreateInv, Creates, Cancels, TypeOK, Own, Mail
<1>16. ConfirmInv'
  BY <1>1, <1>3, <1>5, <1>6, <1>7, <1>8, <1>9, <1>10
     DEF ConfirmInv, CreateInv, Creates, Cancels, TypeOK, Mail, Own
<1>17. TypedInv'
  BY <1>1, <1>3, <1>5, <1>6, <1>7, <1>8, <1>9, <1>10
     DEF TypedInv, TypeOK, Own, Mail
<1>18. TaskInv'
  BY <1>1, <1>3, <1>5, <1>6, <1>7, <1>8, <1>9, <1>10
     DEF TaskInv, Open, Own, CreateInv, Creates
<1>19. ReplyInv'
  BY <1>1, <1>3, <1>5, <1>6, <1>7, <1>8, <1>9, <1>10
     DEF ReplyInv, Open, Own, Mail, TaskInv, CreateInv, Creates, CurrentInv
<1>20. ExitInv'
  BY <1>1, <1>3, <1>5, <1>6, <1>7, <1>8, <1>9, <1>10
     DEF ExitInv, ExitStartsSelection, Own, Open
<1>21. ResponseReachesItsQuestion'
  BY <1>1, <1>3, <1>5, <1>6, <1>7, <1>8, <1>9, <1>10
     DEF ResponseReachesItsQuestion, TypedInv
<1>22. QED
  BY <1>11, <1>12, <1>13, <1>14, <1>15, <1>16, <1>17, <1>18, <1>19, <1>20, <1>21

\* AccountsService is asked for the users (discover_accounts).
LEMMA DiscoveringKeeps ==
    ASSUME Inv, NEW t \in tasks, t.step = "discover", NEW r \in Responses,
           NEW seen \in {r, "Lost"},
           IF r = "Lost" THEN Refuse ELSE Serve(t, r), Finish(t, seen), UNCHANGED appVars
    PROVE  Inv'
<1> USE GreeterAssumption DEF Inv, CreateSteps, ExchangeSteps, OtherSteps, appVars,
    convVars, userVars, closeVars, Responses
<1>1. PICK m : m = [kind |-> ReplyKind(t.step), attempt |-> t.attempt, response |-> seen,
                     connected |-> t.step = "create" /\ seen # "Lost",
                     question |-> IF seen = "Prompt" THEN question' ELSE 0]
  OBVIOUS
<1>2. tasks' = tasks \ {t} /\ inbox' = inbox \cup {m}
  BY <1>1 DEF Finish
<1>3. question' \in 0 .. MaxQuestions
  BY DEF TypeOK, Serve, Refuse, Proceed, Fails, greetdVars
<1>4. /\ m \in Message /\ m.kind = "AccountsResult" /\ m.attempt = t.attempt
      /\ m.response = seen /\ (seen = "Prompt" => m.question = question')
  BY <1>1, <1>3 DEF TypeOK, Message, Task, ReplyKind
<1>5. /\ owner' = owner 
      /\ question' = question /\ stage' = stage 
      /\ answered' = answered /\ started' = started
  BY DEF Serve, Refuse, Proceed, Fails, greetdVars, TypeOK, Task
<1>6. Own = {t} /\ Mail = {} /\ Own' = {} /\ Mail' = {m}
  BY <1>2, <1>4 DEF Own, Mail, OneAtATime
<1>7. Open =>
        phase = "DiscoveringUsers" /\ power_state = Idle
  BY <1>6 DEF CurrentInv, Expects, ReplyKind, UserInv
<1>8. TypeOK'
  BY <1>2, <1>4, <1>5, <1>6, <1>7
     DEF TypeOK, Phases, Closings, PowerStates, Actions, Idle
<1>9. OneAtATime'
  BY <1>2, <1>4, <1>5, <1>6, <1>7 DEF OneAtATime, Own, Mail
<1>10. CurrentInv'
  BY <1>2, <1>4, <1>5, <1>6, <1>7
     DEF CurrentInv, Own, Mail, Open, Expects, ReplyKind
<1>11. UserInv'
  BY <1>2, <1>4, <1>5, <1>6, <1>7 DEF UserInv, TypeOK, CurrentInv, Open
<1>12. CreateInv'
  BY <1>2, <1>4, <1>5, <1>6, <1>7
     DEF CreateInv, Creates, Cancels, TypeOK, Own, Mail
<1>13. ConfirmInv'
  BY <1>2, <1>4, <1>5, <1>6, <1>7
     DEF ConfirmInv, CreateInv, Creates, Cancels, TypeOK, Mail, Own
<1>14. TypedInv'
  BY <1>2, <1>4, <1>5, <1>6, <1>7 DEF TypedInv, TypeOK, Own, Mail
<1>15. TaskInv'
  BY <1>2, <1>4, <1>5, <1>6, <1>7
     DEF TaskInv, Open, Own, CreateInv, Creates
<1>16. ReplyInv'
  BY <1>2, <1>4, <1>5, <1>6, <1>7
     DEF ReplyInv, Open, Own, Mail, TaskInv, CreateInv, Creates, CurrentInv
<1>17. ExitInv'
  BY <1>2, <1>4, <1>5, <1>6, <1>7
     DEF ExitInv, ExitStartsSelection, Own, Open
<1>18. ResponseReachesItsQuestion'
  BY <1>2, <1>4, <1>5, <1>6, <1>7 DEF ResponseReachesItsQuestion, TypedInv
<1>19. QED
  BY <1>8, <1>9, <1>10, <1>11, <1>12, <1>13, <1>14, <1>15, <1>16, <1>17, <1>18

\* A power action runs (power).
LEMMA ExecutingKeeps ==
    ASSUME Inv, NEW t \in tasks, t.step = "power", NEW r \in Responses,
           NEW seen \in {r, "Lost"},
           IF r = "Lost" THEN Refuse ELSE Serve(t, r), Finish(t, seen), UNCHANGED appVars
    PROVE  Inv'
<1> USE GreeterAssumption DEF Inv, CreateSteps, ExchangeSteps, OtherSteps, appVars,
    convVars, userVars, closeVars, Responses
<1>1. PICK m : m = [kind |-> ReplyKind(t.step), attempt |-> t.attempt, response |-> seen,
                     connected |-> t.step = "create" /\ seen # "Lost",
                     question |-> IF seen = "Prompt" THEN question' ELSE 0]
  OBVIOUS
<1>2. tasks' = tasks \ {t} /\ inbox' = inbox \cup {m}
  BY <1>1 DEF Finish
<1>3. question' \in 0 .. MaxQuestions
  BY DEF TypeOK, Serve, Refuse, Proceed, Fails, greetdVars
<1>4. /\ m \in Message /\ m.kind = "PowerResult" /\ m.attempt = t.attempt
      /\ m.response = seen /\ (seen = "Prompt" => m.question = question')
  BY <1>1, <1>3 DEF TypeOK, Message, Task, ReplyKind
<1>5. /\ owner' = owner 
      /\ question' = question /\ stage' = stage 
      /\ answered' = answered /\ started' = started
  BY DEF Serve, Refuse, Proceed, Fails, greetdVars, TypeOK, Task
<1>6. Own' = Own /\ Mail' = Mail /\ t \notin Own /\ m \notin Mail'
  BY <1>2, <1>4 DEF Own, Mail
<1>7. TypeOK'
  BY <1>2, <1>4, <1>5, <1>6
     DEF TypeOK, Phases, Closings, PowerStates, Actions, Idle
<1>8. OneAtATime'
  BY <1>2, <1>4, <1>5, <1>6 DEF OneAtATime, Own, Mail
<1>9. CurrentInv'
  BY <1>2, <1>4, <1>5, <1>6
     DEF CurrentInv, Own, Mail, Open, Expects, ReplyKind
<1>10. UserInv'
  BY <1>2, <1>4, <1>5, <1>6 DEF UserInv, TypeOK, CurrentInv, Open
<1>11. CreateInv'
  BY <1>2, <1>4, <1>5, <1>6
     DEF CreateInv, Creates, Cancels, TypeOK, Own, Mail
<1>12. ConfirmInv'
  BY <1>2, <1>4, <1>5, <1>6
     DEF ConfirmInv, CreateInv, Creates, Cancels, TypeOK, Mail, Own
<1>13. TypedInv'
  BY <1>2, <1>4, <1>5, <1>6 DEF TypedInv, TypeOK, Own, Mail
<1>14. TaskInv'
  BY <1>2, <1>4, <1>5, <1>6 DEF TaskInv, Open, Own, CreateInv, Creates
<1>15. ReplyInv'
  BY <1>2, <1>4, <1>5, <1>6
     DEF ReplyInv, Open, Own, Mail, TaskInv, CreateInv, Creates, CurrentInv
<1>16. ExitInv'
  BY <1>2, <1>4, <1>5, <1>6 DEF ExitInv, ExitStartsSelection, Own, Open
<1>17. ResponseReachesItsQuestion'
  BY <1>2, <1>4, <1>5, <1>6 DEF ResponseReachesItsQuestion, TypedInv
<1>18. QED
  BY <1>7, <1>8, <1>9, <1>10, <1>11, <1>12, <1>13, <1>14, <1>15, <1>16, <1>17

-----------------------------------------------------------------------------
(* The invariant holds *)

\* App::new starts at most one task, for the user it shows.
LEMMA InitInv == Init => Inv
<1> SUFFICES ASSUME Init PROVE Inv
  OBVIOUS
<1> USE GreeterAssumption DEF Init, CreateSteps, ExchangeSteps, OtherSteps
<1>1. \/ tasks = {} /\ phase = "Failed"
      \/ \E x \in Task : /\ tasks = {x} /\ x.step = "recover" /\ x.attempt = 1
                         /\ x.user = username /\ phase = "CreatingSession" /\ username # None
      \/ \E x \in Task : /\ tasks = {x} /\ x.step = "discover" /\ x.attempt = 0
                         /\ phase = "DiscoveringUsers" /\ username = None
  <2>1. CASE selected_session = None
    BY <2>1
  <2>2. CASE selected_session # None /\ username # None
    <3>1. username \in Account
      BY <2>2
    <3>2. begin(username, attempt, TRUE) = Create("recover", 1, username)
      BY DEF begin
    <3>3. /\ Create("recover", 1, username) \in Task
          /\ Create("recover", 1, username).step = "recover"
          /\ Create("recover", 1, username).attempt = 1
          /\ Create("recover", 1, username).user = username
      BY <3>1, Created
    <3>4. tasks = {Create("recover", 1, username)} /\ phase = "CreatingSession"
      BY <2>2, <3>2
    <3>5. QED
      BY <2>2, <3>3, <3>4
  <2>3. CASE selected_session # None /\ username = None
    BY <2>3, Performed DEF discover_accounts
  <2>4. QED
    BY <2>1, <2>2, <2>3
<1>2. TypeOK
  <2>1. tasks \in SUBSET Task /\ phase \in Phases
    BY <1>1 DEF Phases
  <2>2. /\ client \in BOOLEAN /\ selection_session_cancelled \in BOOLEAN
        /\ exited \in BOOLEAN /\ timer \in BOOLEAN /\ confirmed \in BOOLEAN
    OBVIOUS
  <2>3. /\ answered \in [question : Nat, typed : SUBSET Nat]
        /\ started \in [user : Account \cup {None}, session : Session \cup {None}]
    OBVIOUS
  <2>4. /\ power_state \in PowerStates /\ closing \in Closings
        /\ question \in 0 .. MaxQuestions /\ attempt \in Nat /\ shown \in Nat
    BY DEF PowerStates, Closings
  <2>5. QED
    BY <2>1, <2>2, <2>3, <2>4 DEF TypeOK
<1>3. OneAtATime /\ CreateInv /\ UserInv
  BY <1>1 DEF OneAtATime, Own, Mail, CreateInv, Creates, Cancels, UserInv, Idle
<1>4. CurrentInv
  BY <1>1 DEF CurrentInv, Open, Own, Mail, Expects, ReplyKind
<1>5. ConfirmInv /\ TypedInv
  BY <1>1 DEF ConfirmInv, Cancels, TypedInv
<1>6. TaskInv /\ ReplyInv
  BY <1>1 DEF TaskInv, ReplyInv, Open
<1>7. ExitInv /\ ResponseReachesItsQuestion
  BY DEF ExitInv, ResponseReachesItsQuestion
<1>8. QED
  BY <1>2, <1>3, <1>4, <1>5, <1>6, <1>7 DEF Inv

\* An AuthResult of the attempt under way leads to one step of the conversation
\* (handle_auth_response).
LEMMA AuthResponseKeeps ==
    ASSUME Inv, NEW m \in inbox, Takes(m), m.kind = "AuthResult", closing = "None",
           handle_auth_response(m)
    PROVE  Inv'
<1>1. /\ client \in BOOLEAN /\ m.connected \in BOOLEAN /\ m \in Mail
      /\ UNCHANGED <<userVars, power_state, closing, timer, confirmed>>
  BY DEF Inv, TypeOK, Message, Mail, handle_auth_response
<1>2. client' = (client \/ m.connected)
  BY DEF handle_auth_response
<1>3. client' \in BOOLEAN
  BY <1>1, <1>2
<1>4. CASE m.response = "Success" /\ phase = "StartingSession" /\ exited' = TRUE
           /\ UNCHANGED <<phase, convVars, tasks>>
  BY <1>1, <1>3, <1>4, ExitsKeeps
<1>5. CASE /\ m.response = "Prompt" /\ clear_response
           /\ phase' = "WaitingForInput" /\ status' = "Waiting" /\ shown' = m.question
           /\ UNCHANGED <<attempt, exited, tasks>>
  BY <1>1, <1>3, <1>5, PromptsKeeps
<1>6. CASE /\ m.response = "Message" /\ (client \/ m.connected)
           /\ tasks' = tasks \cup {exchange("acknowledge", attempt)}
           /\ UNCHANGED <<phase, convVars, exited>>
  BY <1>1, <1>2, <1>6, AcknowledgesKeeps
<1>7. CASE /\ m.response = "Success" /\ phase # "StartingSession" /\ selected_session # None
           /\ (client \/ m.connected)
           /\ phase' = "StartingSession" /\ clear_response /\ status' = "Succeeded"
           /\ tasks' = tasks \cup
                {[exchange("start", attempt) EXCEPT !.session = selected_session]}
           /\ UNCHANGED <<attempt, shown, exited>>
  BY <1>1, <1>2, <1>7, StartsKeeps
<1>8. CASE fail /\ UNCHANGED <<exited, tasks>>
  BY <1>1, <1>3, <1>8, ResultFailsKeeps DEF fail, clear_response, closeVars
<1>9. QED
  BY <1>4, <1>5, <1>6, <1>7, <1>8 DEF handle_auth_response, IsPrompt

\* No filter drops a reply that App waits for (update).
LEMMA NotDropped ==
    ASSUME Inv, Open, NEW m \in Mail
    PROVE  /\ PassesClosing(m.kind) /\ PassesPower(m.kind)
           /\ m.kind \in {"AuthResult", "UserSelectionCancelled"} => m.attempt = attempt
           /\ m.kind = "UserSelectionCancelled" => phase = "CancellingForUserSelection"
           /\ m.kind \in {"AuthResult", "UserSelectionCancelled", "AccountsResult"}
<1>1. /\ m.attempt = IF m.kind = "AccountsResult" THEN 0 ELSE attempt
      /\ m.kind \in Expects
  BY DEF Inv, CurrentInv
<1>2. m.kind = "UserSelectionCancelled" => phase = "CancellingForUserSelection"
  BY <1>1 DEF Expects
<1>3. m.kind \in {"AuthResult", "UserSelectionCancelled", "AccountsResult"}
  BY <1>1 DEF Expects
<1>4. PassesClosing(m.kind)
  BY DEF Open, PassesClosing
<1>5. PassesPower(m.kind)
  BY <1>2, <1>3 DEF Inv, UserInv, PassesPower
<1>6. QED
  BY <1>1, <1>2, <1>3, <1>4, <1>5

\* Every message of a task is dropped for good reason or handled (update).
LEMMA ReceiveKeeps ==
    ASSUME Inv, NEW m \in inbox, Receive(m)
    PROVE  Inv'
<1>1. Takes(m) /\ ~exited
  BY DEF Receive, Takes, Running
<1>2. m.kind \notin {"PowerResult", "SessionCancelled"} => m \in Mail
  BY DEF Mail
<1>3. CASE ~(PassesClosing(m.kind) /\ PassesPower(m.kind))
  <2>1. Ignore
    BY <1>3 DEF Receive
  <2>2. Open => m \notin Mail
    BY <1>3, NotDropped
  <2>3. QED
    BY <1>1, <2>1, <2>2, IgnoredKeeps
<1>4. CASE /\ PassesClosing(m.kind) /\ PassesPower(m.kind)
           /\ m.kind = "AuthResult" /\ handle_auth_result(m)
  <2>1. closing \in {"None", "WaitingForClient"}
    BY <1>4 DEF Inv, TypeOK, Closings, PassesClosing
  <2>2. CASE m.attempt # attempt
    <3>1. Ignore /\ ~(Open /\ m \in Mail)
      BY <1>4, <2>2, NotDropped DEF handle_auth_result
    <3>2. QED
      BY <1>1, <3>1, IgnoredKeeps
  <2>3. CASE m.attempt = attempt /\ closing = "WaitingForClient"
    BY <1>1, <1>4, <2>3, ClientArrivesKeeps
  <2>4. CASE m.attempt = attempt /\ closing = "None" /\ m.response = "Lost"
    <3>1. fail /\ UNCHANGED <<client, userVars, power_state, closeVars, tasks>>
      BY <1>4, <2>4 DEF handle_auth_result
    <3>2. client' = client /\ client \in BOOLEAN
      BY <3>1 DEF Inv, TypeOK
    <3>3. QED
      BY <1>1, <1>2, <1>4, <2>4, <3>1, <3>2, ResultFailsKeeps DEF fail, clear_response
  <2>5. CASE m.attempt = attempt /\ closing = "None" /\ m.response # "Lost"
    <3>1. handle_auth_response(m)
      BY <1>4, <2>5 DEF handle_auth_result
    <3>2. QED
      BY <1>1, <1>4, <2>5, <3>1, AuthResponseKeeps
  <2>6. QED
    BY <2>1, <2>2, <2>3, <2>4, <2>5
<1>5. ASSUME PassesClosing(m.kind), m.kind = "AccountsResult",
             NEW A \in SUBSET Account, AccountsResult(A)
      PROVE  Inv'
  <2>1. closing = "None"
    BY <1>5 DEF Inv, TypeOK, Closings, PassesClosing
  <2>2. CASE fail /\ UNCHANGED <<client, userVars, power_state, closeVars, tasks>>
    <3>1. client' = client /\ client \in BOOLEAN
      BY <2>2 DEF Inv, TypeOK
    <3>2. QED
      BY <1>1, <1>2, <1>5, <2>1, <2>2, <3>1, ResultFailsKeeps DEF fail, clear_response
  <2>3. ASSUME NEW u \in A, accounts' = A, select_account(u),
               UNCHANGED <<selected_session, power_state, closeVars>>
        PROVE  Inv'
    BY <1>1, <1>5, <2>1, <2>3, DiscoveredKeeps
  <2>4. CASE /\ accounts' = A /\ phase' = "SelectingUser"
             /\ UNCHANGED <<convVars, client, username, selected_session,
                            selection_session_cancelled, power_state, closeVars, tasks>>
    BY <1>1, <1>5, <2>1, <2>4, ChoosesKeeps
  <2>5. QED
    BY <1>5, <2>2, <2>3, <2>4 DEF AccountsResult
<1>6. CASE m.kind = "UserSelectionCancelled" /\ UserSelectionCancelled(m)
  <2>1. CASE /\ m.attempt = attempt
             /\ \/ closing = "WaitingForUserSelectionCancellation"
                \/ phase = "CancellingForUserSelection"
    BY <1>1, <1>6, <2>1, SelectionCancelledKeeps
  <2>2. CASE ~ /\ m.attempt = attempt
               /\ \/ closing = "WaitingForUserSelectionCancellation"
                  \/ phase = "CancellingForUserSelection"
    <3>1. Ignore /\ ~(Open /\ m \in Mail)
      BY <1>6, <2>2, NotDropped DEF UserSelectionCancelled
    <3>2. QED
      BY <1>1, <3>1, IgnoredKeeps
  <2>3. QED
    BY <2>1, <2>2
<1>7. CASE m.kind = "SessionCancelled" /\ SessionCancelled(m)
  <2>1. closing # "None"
    BY <1>1, <1>7 DEF Inv, CurrentInv, Open
  <2>2. QED
    BY <1>1, <1>7, <2>1, SessionCancelledKeeps
<1>8. CASE m.kind = "PowerResult" /\ PowerResult(m)
  BY <1>1, <1>8, PowerResultKeeps
<1>9. QED
  BY <1>3, <1>4, <1>5, <1>6, <1>7, <1>8 DEF Receive

\* One exchange with greetd keeps it, wherever the connection breaks.
LEMMA ExchangeKeeps ==
    ASSUME Inv, NEW t \in tasks, Exchange(t)
    PROVE  Inv'
<1>1. PICK r \in Responses, arrives \in BOOLEAN :
        /\ IF r = "Lost" THEN Refuse ELSE Serve(t, r)
        /\ LET seen == IF arrives THEN r ELSE "Lost" IN
           IF t.step \in {"cancel", "recover"} THEN Continue(t, seen) ELSE Finish(t, seen)
  BY DEF Exchange
<1>2. PICK seen \in {r, "Lost"} :
        IF t.step \in {"cancel", "recover"} THEN Continue(t, seen) ELSE Finish(t, seen)
  BY <1>1
<1>3. UNCHANGED appVars
  BY DEF Exchange
<1>4. t.step \in CreateSteps \cup ExchangeSteps \cup OtherSteps
  BY DEF Inv, TypeOK, Task
<1>5. CASE t.step \in {"cancel", "recover"}
  BY <1>1, <1>2, <1>3, <1>5, ContinuesKeeps
<1>6. CASE t.step = "create"
  BY <1>1, <1>2, <1>3, <1>6, CreatingKeeps
<1>7. CASE t.step = "post"
  BY <1>1, <1>2, <1>3, <1>7, PostingKeeps
<1>8. CASE t.step = "acknowledge"
  BY <1>1, <1>2, <1>3, <1>8, AcknowledgingKeeps
<1>9. CASE t.step = "start"
  BY <1>1, <1>2, <1>3, <1>9, StartingKeeps
<1>10. CASE t.step = "cancelToClose"
  BY <1>1, <1>2, <1>3, <1>10, ClosesCancellingKeeps
<1>11. CASE t.step = "cancelToSelect"
  BY <1>1, <1>2, <1>3, <1>11, SelectsCancellingKeeps
<1>12. CASE t.step = "discover"
  BY <1>1, <1>2, <1>3, <1>12, DiscoveringKeeps
<1>13. CASE t.step = "power"
  BY <1>1, <1>2, <1>3, <1>13, ExecutingKeeps
<1>14. QED
  BY <1>4, <1>5, <1>6, <1>7, <1>8, <1>9, <1>10, <1>11, <1>12, <1>13
     DEF CreateSteps, ExchangeSteps, OtherSteps

\* Whatever the user does keeps it.
LEMMA UserKeeps ==
    ASSUME Inv, User
    PROVE  Inv'
<1>1. CASE InputChanged
  BY <1>1, InputChangedKeeps
<1>2. CASE Submit
  BY <1>2, SubmitPostsKeeps, SubmitFailsKeeps
<1>3. CASE Retry \/ RetrySession
  BY <1>3, RetryDiscoversKeeps, RetryRestartsKeeps
<1>4. CASE ChangeUser
  BY <1>4, ChangeUserKeeps
<1>5. CASE RetryUserSelectionCancellation
  BY <1>5, RetryUserSelectionCancellationKeeps
<1>6. CASE CancelPower
  BY <1>6, CancelPowerKeeps
<1>7. CASE ConfirmPower
  BY <1>7, ConfirmPowerKeeps
<1>8. CASE CloseRequested
  BY <1>8, CloseAtOnceKeeps, CloseCancelsKeeps
<1>9. CASE \E u \in Account : SelectAccount(u)
  BY <1>9, SelectAccountKeeps
<1>10. CASE \E s \in Session : SelectSession(s)
  BY <1>10, SelectSessionKeeps
<1>11. CASE \E a \in Actions : AskPower(a)
  BY <1>11, AskPowerKeeps
<1>12. QED
  BY <1>1, <1>2, <1>3, <1>4, <1>5, <1>6, <1>7, <1>8, <1>9, <1>10, <1>11 DEF User

\* So does a step of something else.
LEMMA StutterKeeps ==
    ASSUME Inv, UNCHANGED vars
    PROVE  Inv'
<1> USE DEF Inv, vars, appVars, convVars, userVars, closeVars, greetdVars
<1>1. TypeOK' /\ ResponseReachesItsQuestion'
  BY DEF TypeOK, ResponseReachesItsQuestion
<1>2. Own' = Own /\ Mail' = Mail /\ Open' = Open /\ Expects' = Expects
  BY DEF Own, Mail, Open, Expects
<1>3. OneAtATime' /\ CurrentInv' /\ ExitInv'
  BY <1>2 DEF OneAtATime, CurrentInv, ExitInv, ExitStartsSelection
<1>4. UserInv' /\ CreateInv' /\ ConfirmInv' /\ TypedInv'
  BY DEF UserInv, CreateInv, ConfirmInv, TypedInv, Creates, Cancels
<1>5. TaskInv' /\ ReplyInv'
  BY <1>2 DEF TaskInv, ReplyInv
<1>6. QED
  BY <1>1, <1>3, <1>4, <1>5

\* The inductive invariant holds in every state of the greeter and of greetd.
THEOREM Invariance == Spec => []Inv
<1>1. ASSUME Inv, [Next]_vars
      PROVE  Inv'
  <2>1. CASE User
    BY <1>1, <2>1, UserKeeps
  <2>2. CASE CloseTimeout
    BY <1>1, <2>2, CloseTimeoutKeeps
  <2>3. CASE \E m \in inbox : Receive(m)
    BY <1>1, <2>3, ReceiveKeeps
  <2>4. CASE \E t \in tasks : Exchange(t)
    BY <1>1, <2>4, ExchangeKeeps
  <2>5. CASE UNCHANGED vars
    BY <1>1, <2>5, StutterKeeps
  <2>6. QED
    BY <1>1, <2>1, <2>2, <2>3, <2>4, <2>5 DEF Next
<1>2. QED
  BY <1>1, InitInv, PTL DEF Spec

-----------------------------------------------------------------------------
(* What follows *)

\* The types of the greeter's state are kept, those of tasks and messages included.
THEOREM TypeCorrect == Spec => []TypeOK
<1>1. Inv => TypeOK
  BY DEF Inv
<1>2. QED
  BY <1>1, Invariance, PTL

\* greetd never takes as the answer to a question what was typed for another one,
\* or for another user's session, however the user retries, changes the user or
\* closes the window (update_input, submit, begin_attempt).
THEOREM Answers == Spec => []ResponseReachesItsQuestion
<1>1. Inv => ResponseReachesItsQuestion
  BY DEF Inv
<1>2. QED
  BY <1>1, Invariance, PTL

\* When the greeter exits, greetd is to start the desktop session selected for
\* the user on display (can_select_session, transition).
THEOREM Exit == Spec => []ExitStartsSelection
<1>1. Inv => ExitStartsSelection
  BY DEF Inv, ExitInv, ExitStartsSelection
<1>2. QED
  BY <1>1, Invariance, PTL

\* Every phase that waits has exactly one reply under way, and a phase that waits
\* for the user has none, however many attempts there were (update,
\* handle_auth_result).
THEOREM Owed == Spec => []ReplyIsOwed
<1>1. ASSUME Inv PROVE ReplyIsOwed
  <2> SUFFICES ASSUME Running, closing = "None"
               PROVE  LET owed == {p \in Replies(attempt) : p[1] # "PowerResult"} IN
                      /\ {p[1] : p \in owed} = Expects
                      /\ Cardinality(owed) <= 1
    BY DEF ReplyIsOwed
  <2> DEFINE owed == {p \in Replies(attempt) : p[1] # "PowerResult"}
             ofTask(t) == <<ReplyKind(t.step), t>>
             ofMail(m) == <<m.kind, m>>
  <2>1. Open
    BY DEF Running, Open
  <2>2. ASSUME NEW t \in tasks
        PROVE  t.step # "power" <=> t \in Own
    BY <1>1, <2>1 DEF Inv, CurrentInv, Own
  <2>3. ASSUME NEW m \in inbox
        PROVE  m.kind # "PowerResult" <=> m \in Mail
    BY <1>1, <2>1 DEF Inv, CurrentInv, Mail
  <2>4. ASSUME NEW t \in tasks
        PROVE  ReplyKind(t.step) = "PowerResult" <=> t.step = "power"
    <3>1. t.step \in CreateSteps \cup ExchangeSteps \cup OtherSteps
      BY <1>1 DEF Inv, TypeOK, Task
    <3>2. QED
      BY <3>1 DEF ReplyKind, CreateSteps, ExchangeSteps, OtherSteps
  <2>5. owed = {ofTask(t) : t \in Own} \cup {ofMail(m) : m \in Mail}
    <3>1. ASSUME NEW p \in owed
          PROVE  p \in {ofTask(t) : t \in Own} \cup {ofMail(m) : m \in Mail}
      BY <2>2, <2>3, <2>4 DEF Replies
    <3>2. ASSUME NEW t \in Own
          PROVE  ofTask(t) \in owed
      <4>1. t \in tasks /\ t.attempt \in {0, attempt} /\ ReplyKind(t.step) # "PowerResult"
        BY <1>1, <2>1, <2>2, <2>4 DEF Inv, CurrentInv, Own
      <4>2. QED
        BY <4>1 DEF Replies
    <3>3. ASSUME NEW m \in Mail
          PROVE  ofMail(m) \in owed
      <4>1. m \in inbox /\ m.attempt \in {0, attempt} /\ m.kind # "PowerResult"
        BY <1>1, <2>1, <2>3 DEF Inv, CurrentInv, Mail
      <4>2. QED
        BY <4>1 DEF Replies
    <3>4. QED
      BY <3>1, <3>2, <3>3
  <2> HIDE DEF owed
  <2>6. \A p, q \in owed : p = q
    BY <1>1, <2>5 DEF Inv, OneAtATime
  <2>7. \A p \in owed : p[1] \in Expects
    BY <1>1, <2>1, <2>5 DEF Inv, CurrentInv
  <2>8. \A k, l \in Expects : k = l
    BY DEF Expects
  <2>9. Expects # {} => owed # {}
    BY <1>1, <2>1, <2>5 DEF Inv, CurrentInv
  <2>10. {p[1] : p \in owed} = Expects
    BY <2>7, <2>8, <2>9
  <2>11. Cardinality(owed) <= 1
    <3>1. CASE owed = {}
      BY <3>1, FS_EmptySet
    <3>2. CASE owed # {}
      <4>1. PICK p : owed = {p}
        BY <2>6, <3>2
      <4>2. Cardinality({p}) = 1
        BY FS_Singleton
      <4>3. QED
        BY <4>1, <4>2
    <3>3. QED
      BY <3>1, <3>2
  <2>12. QED
    BY <2>10, <2>11 DEF owed
<1>2. QED
  BY <1>1, Invariance, PTL

\* Every request over the current client fits what the session in greetd waits
\* for (handle_auth_response, Submit).
THEOREM Fits == Spec => []RequestFitsSession
<1>1. Inv => RequestFitsSession
  BY DEF Inv, TaskInv, RequestFitsSession, Open, Running
<1>2. QED
  BY <1>1, Invariance, PTL

\* A window that closes after a confirmed cancellation leaves no session behind
\* (close_requested, handle_auth_result, select_account).
THEOREM Closes == Spec => []CloseLeavesNoSession
<1>1. Inv => CloseLeavesNoSession
  BY DEF Inv, ConfirmInv, CloseLeavesNoSession
<1>2. QED
  BY <1>1, Invariance, PTL

-----------------------------------------------------------------------------
(* The focus: v1 to v12 are the variables of GreeterFocus. *)

Powers  == {Focus!Power(a) : a \in Focus!Actions}
Dialogs == {<<"DialogCancel">>, <<"DialogConfirm">>}
Targets ==
    {Focus!NoFocus, Focus!Input, Focus!SessionTarget, <<"RetryAccountSelection">>, <<"Submit">>,
     <<"RetryAuthentication">>, <<"ChangeUser">>, <<"RetrySession">>}
        \cup Dialogs \cup Powers \cup {Focus!AccountTarget(i) : i \in 0 .. MaxAccounts - 1}

Presses == {"SyncWidgetFocus", "WidgetFocused"} \X {""}
Letters == ({"NavigateFocus", "NavigateModal"} \X Focus!Navigation) \cup Presses

PageTyped ==
    /\ v1 \in Focus!Asleep \cup Focus!Settled /\ v2 \in BOOLEAN /\ v3 \in 0 .. MaxAccounts
    /\ v4 \in 0 .. MaxSessions /\ v5 \in 0 .. v4
    /\ v6 \in {Focus!Idle} \cup ({"Confirming", "Executing"} \X Focus!Actions)
    /\ v7 \in BOOLEAN
KeysTyped ==
    /\ v8 \in Targets /\ v9 \in {Focus!NoFocus} \cup Powers
    /\ v10 \in BOOLEAN /\ v11 \in BOOLEAN

\* The controls that are offered.
Accounted   == {Focus!AccountTarget(i - 1) : i \in 1 .. v3}
Repeats     == IF v2 THEN {<<"RetryAuthentication">>} ELSE {<<"RetryAccountSelection">>}
Where(c, S) == IF c THEN S ELSE {}
Page ==
    Where(Focus!can_select_account, Accounted)
      \cup Where(v1 = "UserSelectionCancellationFailed", {<<"RetryAccountSelection">>})
      \cup Where(v1 = "WaitingForInput", {Focus!Input, <<"Submit">>})
      \cup Where(v1 = "Failed" /\ v5 # 0, Repeats)
      \cup Where(Focus!can_change_user, {<<"ChangeUser">>})
      \cup Where(Focus!can_select_session, {Focus!SessionTarget})
      \cup Where(v1 = "Failed" /\ v5 = 0, {<<"RetrySession">>})
      \cup Where(Focus!can_request_power, Powers)
Controls ==
    IF Focus!Confirming THEN Dialogs ELSE IF Focus!Interactive THEN Page ELSE {}

\* A dialog stands over a page that waits for the user, with no menu and no typing.
DialogInv == Focus!Dialog => v1 \in Focus!Settled /\ ~v10 /\ ~v11

\* Users can be selected, or selected again, where there are several.
SeveralInv ==
    v1 \in {"CancellingForUserSelection", "UserSelectionCancellationFailed", "SelectingUser"}
      => v3 > 1

\* The input that has iced's focus has that of App, or App will hear of it.
TypingInv ==
    v11 => /\ v1 = "WaitingForInput"
           /\ ~v7 => \/ v8 = Focus!Input
                     \/ \E i \in 1 .. Len(v12) : v12[i] \in Presses

OfferedInv == ~v7 /\ v1 \in Focus!Settled => v8 = Focus!NoFocus \/ v8 \in Controls

FocusInv ==
    /\ PageTyped /\ KeysTyped /\ v12 \in Seq(Letters)
    /\ DialogInv /\ SeveralInv /\ TypingInv /\ OfferedInv

-----------------------------------------------------------------------------
(* The order of the controls *)

\* The controls of a sequence, none of them twice.
Orderly(s, R) ==
    /\ s \in Seq(Targets)
    /\ \A t : t \in R <=> \E i \in 1 .. Len(s) : s[i] = t
    /\ \A i, j \in 1 .. Len(s) : s[i] = s[j] => i = j

\* Two orders without a control in common make one.
LEMMA Joined ==
    ASSUME NEW s, NEW t, NEW R, NEW Q, Orderly(s, R), Orderly(t, Q), R \cap Q = {}
    PROVE  Orderly(s \o t, R \cup Q)
<1>1. s \in Seq(Targets) /\ t \in Seq(Targets)
  BY DEF Orderly
<1>2. /\ s \o t \in Seq(Targets)
      /\ Len(s \o t) = Len(s) + Len(t)
      /\ \A i \in 1 .. Len(s) + Len(t) :
           (s \o t)[i] = IF i <= Len(s) THEN s[i] ELSE t[i - Len(s)]
  BY <1>1, ConcatProperties
<1>3. Len(s) \in Nat /\ Len(t) \in Nat
  BY <1>1
<1> DEFINE u == s \o t
<1> HIDE DEF u
<1>4. ASSUME NEW x
      PROVE  x \in R \cup Q <=> \E i \in 1 .. Len(u) : u[i] = x
  <2>1. ASSUME NEW i \in 1 .. Len(s), s[i] = x
        PROVE  \E k \in 1 .. Len(u) : u[k] = x
    <3>1. i \in 1 .. Len(u) /\ u[i] = x
      BY <1>2, <1>3, <2>1 DEF u
    <3>2. QED
      BY <3>1
  <2>2. ASSUME NEW i \in 1 .. Len(t), t[i] = x
        PROVE  \E k \in 1 .. Len(u) : u[k] = x
    <3>1. i + Len(s) \in 1 .. Len(u) /\ u[i + Len(s)] = x
      BY <1>2, <1>3, <2>2 DEF u
    <3>2. QED
      BY <3>1
  <2>3. ASSUME NEW i \in 1 .. Len(u), u[i] = x
        PROVE  (\E k \in 1 .. Len(s) : s[k] = x) \/ (\E k \in 1 .. Len(t) : t[k] = x)
    <3>1. CASE i <= Len(s)
      BY <1>2, <1>3, <2>3, <3>1 DEF u
    <3>2. CASE i > Len(s)
      <4>1. i - Len(s) \in 1 .. Len(t) /\ t[i - Len(s)] = x
        BY <1>2, <1>3, <2>3, <3>2 DEF u
      <4>2. QED
        BY <4>1
    <3>3. QED
      BY <1>2, <1>3, <3>1, <3>2
  <2>4. QED
    BY <2>1, <2>2, <2>3 DEF Orderly
<1>5. ASSUME NEW i \in 1 .. Len(u), NEW j \in 1 .. Len(u), u[i] = u[j]
      PROVE  i = j
  <2>1. CASE i <= Len(s) /\ j <= Len(s)
    BY <1>2, <1>3, <1>5, <2>1 DEF u, Orderly
  <2>2. CASE i > Len(s) /\ j > Len(s)
    <3>1. /\ i - Len(s) \in 1 .. Len(t) /\ j - Len(s) \in 1 .. Len(t)
          /\ t[i - Len(s)] = t[j - Len(s)]
      BY <1>2, <1>3, <1>5, <2>2 DEF u
    <3>2. i - Len(s) = j - Len(s)
      BY <3>1 DEF Orderly
    <3>3. QED
      BY <1>2, <1>3, <3>2 DEF u
  <2>3. ASSUME NEW k \in 1 .. Len(u), NEW l \in 1 .. Len(u), k <= Len(s), l > Len(s)
        PROVE  u[k] # u[l]
    <3>1. k \in 1 .. Len(s) /\ u[k] = s[k] /\ l - Len(s) \in 1 .. Len(t)
          /\ u[l] = t[l - Len(s)]
      BY <1>2, <1>3, <2>3 DEF u
    <3>2. u[k] \in R /\ u[l] \in Q
      BY <3>1 DEF Orderly
    <3>3. QED
      BY <3>2
  <2>4. QED
    BY <1>2, <1>3, <1>5, <2>1, <2>2, <2>3 DEF u
<1>6. QED
  BY <1>2, <1>4, <1>5 DEF Orderly, u

\* An order that is there on a condition.
LEMMA Conditional ==
    ASSUME NEW c \in BOOLEAN, NEW s, NEW R, c => Orderly(s, R)
    PROVE  Orderly(Focus!If(c, s), Where(c, R))
<1>1. CASE c
  BY <1>1 DEF Focus!If, Where
<1>2. CASE ~c
  BY <1>2 DEF Focus!If, Where, Orderly
<1>3. QED
  BY <1>1, <1>2

\* A control is an order.
LEMMA OneControl ==
    ASSUME NEW x \in Targets
    PROVE  Orderly(<<x>>, {x})
BY DEF Orderly

\* Two controls are an order.
LEMMA TwoControls ==
    ASSUME NEW x \in Targets, NEW y \in Targets, x # y
    PROVE  Orderly(<<x, y>>, {x, y})
<1>1. <<x, y>> \in Seq(Targets) /\ Len(<<x, y>>) = 2
  OBVIOUS
<1>2. <<x, y>>[1] = x /\ <<x, y>>[2] = y
  OBVIOUS
<1>3. 1 .. 2 = {1, 2}
  OBVIOUS
<1>4. QED
  BY <1>1, <1>2, <1>3 DEF Orderly

\* The buttons of the power actions are one.
LEMMA PowerControls ==
    Orderly(<<Focus!Power("Suspend"), Focus!Power("Reboot"), Focus!Power("PowerOff")>>, Powers)
<1> DEFINE x == Focus!Power("Suspend")  y == Focus!Power("Reboot")  z == Focus!Power("PowerOff")
<1>1. x # y /\ x # z /\ y # z /\ Powers = {x, y, z} /\ Powers \subseteq Targets
  BY DEF Powers, Focus!Power, Focus!Actions, Targets
<1> HIDE DEF x, y, z
<1>2. /\ <<x, y, z>> \in Seq(Targets) /\ Len(<<x, y, z>>) = 3
      /\ <<x, y, z>>[1] = x /\ <<x, y, z>>[2] = y /\ <<x, y, z>>[3] = z
  BY <1>1
<1>3. 1 .. 3 = {1, 2, 3}
  OBVIOUS
<1>4. Orderly(<<x, y, z>>, Powers)
  BY <1>1, <1>2, <1>3 DEF Orderly
<1>5. QED
  BY <1>4 DEF x, y, z

\* So are the accounts, however many there are.
LEMMA AccountControls ==
    ASSUME v3 \in 0 .. MaxAccounts
    PROVE  Orderly([i \in 1 .. v3 |-> Focus!AccountTarget(i - 1)], Accounted)
<1> DEFINE s == [i \in 1 .. v3 |-> Focus!AccountTarget(i - 1)]
<1>1. MaxAccounts \in Nat
  BY FocusIsBounded DEF Focus!FocusAssumption
<1>2. \A i \in 1 .. v3 : Focus!AccountTarget(i - 1) \in Targets
  <2>1. \A i \in 1 .. v3 : i - 1 \in 0 .. MaxAccounts - 1
    BY <1>1
  <2>2. QED
    BY <2>1 DEF Targets
<1>3. s \in Seq(Targets) /\ Len(s) = v3
  BY <1>1, <1>2, IsASeq
<1>4. \A i, j \in 1 .. v3 : s[i] = s[j] => i = j
  BY DEF Focus!AccountTarget
<1>5. QED
  BY <1>3, <1>4 DEF Orderly, Accounted

\* The order of the controls visits what is offered once, and in a failure the session is
\* not the first.
OrderFacts ==
    /\ Orderly(Focus!focus_order, Controls)
    /\ v1 = "Failed" /\ ~Focus!Dialog /\ Len(Focus!focus_order) > 0 =>
         Focus!focus_order[1] # Focus!SessionTarget

\* The order of the page visits what the page offers (focus_order).
LEMMA PageIsOrderly ==
    ASSUME PageTyped, Focus!Interactive
    PROVE  OrderFacts
<1> DEFINE again == IF v2 THEN <<"RetryAuthentication">> ELSE <<"RetryAccountSelection">>
           c1 == Focus!can_select_account
           c2 == v1 = "UserSelectionCancellationFailed"
           c3 == v1 = "WaitingForInput"
           c4 == v1 = "Failed" /\ v5 # 0
           c5 == Focus!can_change_user
           c6 == Focus!can_select_session
           c7 == v1 = "Failed" /\ v5 = 0
           c8 == Focus!can_request_power
           s1 == Focus!If(c1, [i \in 1 .. v3 |-> Focus!AccountTarget(i - 1)])
           s2 == Focus!If(c2, << <<"RetryAccountSelection">> >>)
           s3 == Focus!If(c3, << Focus!Input, <<"Submit">> >>)
           s4 == Focus!If(c4, << again >>)
           s5 == Focus!If(c5, << <<"ChangeUser">> >>)
           s6 == Focus!If(c6, << Focus!SessionTarget >>)
           s7 == Focus!If(c7, << <<"RetrySession">> >>)
           s8 == Focus!If(c8, <<Focus!Power("Suspend"), Focus!Power("Reboot"),
                                Focus!Power("PowerOff")>>)
           R1 == Where(c1, Accounted)
           R2 == Where(c2, {<<"RetryAccountSelection">>})
           R3 == Where(c3, {Focus!Input, <<"Submit">>})
           R4 == Where(c4, Repeats)
           R5 == Where(c5, {<<"ChangeUser">>})
           R6 == Where(c6, {Focus!SessionTarget})
           R7 == Where(c7, {<<"RetrySession">>})
           R8 == Where(c8, Powers)
<1>1. /\ c1 \in BOOLEAN /\ c2 \in BOOLEAN /\ c3 \in BOOLEAN /\ c4 \in BOOLEAN
      /\ c5 \in BOOLEAN /\ c6 \in BOOLEAN /\ c7 \in BOOLEAN /\ c8 \in BOOLEAN
  BY DEF Focus!can_select_account, Focus!can_change_user, Focus!can_select_session,
         Focus!can_request_power
<1>2. Orderly(s1, R1)
  <2>1. v3 \in 0 .. MaxAccounts
    BY DEF PageTyped
  <2>2. Orderly([i \in 1 .. v3 |-> Focus!AccountTarget(i - 1)], Accounted)
    BY <2>1, AccountControls
  <2>3. QED
    BY <1>1, <2>2, Conditional
<1>3. Orderly(s2, R2)
  <2>1. Orderly(<< <<"RetryAccountSelection">> >>, {<<"RetryAccountSelection">>})
    BY OneControl DEF Targets
  <2>2. QED
    BY <1>1, <2>1, Conditional
<1>4. Orderly(s3, R3)
  <2>1. Focus!Input # <<"Submit">> /\ Focus!Input \in Targets /\ <<"Submit">> \in Targets
    BY DEF Targets, Focus!Input
  <2>2. Orderly(<< Focus!Input, <<"Submit">> >>, {Focus!Input, <<"Submit">>})
    BY <2>1, TwoControls
  <2>3. QED
    BY <1>1, <2>2, Conditional
<1>5. Orderly(s4, R4)
  <2>1. again \in Targets /\ Repeats = {again}
    BY DEF Targets, Repeats
  <2> HIDE DEF again
  <2>2. Orderly(<<again>>, Repeats)
    BY <2>1, OneControl
  <2>3. QED
    BY <1>1, <2>2, Conditional
<1>6. Orderly(s5, R5)
  <2>1. Orderly(<< <<"ChangeUser">> >>, {<<"ChangeUser">>})
    BY OneControl DEF Targets
  <2>2. QED
    BY <1>1, <2>1, Conditional
<1>7. Orderly(s6, R6)
  <2>1. Orderly(<<Focus!SessionTarget>>, {Focus!SessionTarget})
    BY OneControl DEF Targets
  <2>2. QED
    BY <1>1, <2>1, Conditional
<1>8. Orderly(s7, R7)
  <2>1. Orderly(<< <<"RetrySession">> >>, {<<"RetrySession">>})
    BY OneControl DEF Targets
  <2>2. QED
    BY <1>1, <2>1, Conditional
<1>9. Orderly(s8, R8)
  BY <1>1, PowerControls, Conditional
<1>10. /\ \A t \in R1 : t[1] = "Account"
       /\ \A t \in R2 : t[1] = "RetryAccountSelection" /\ c2
       /\ \A t \in R3 : t[1] \in {"AuthenticationInput", "Submit"}
       /\ \A t \in R4 : t[1] \in {"RetryAuthentication", "RetryAccountSelection"} /\ ~c2
       /\ \A t \in R5 : t[1] = "ChangeUser"
       /\ \A t \in R6 : t[1] = "Session"
       /\ \A t \in R7 : t[1] = "RetrySession"
       /\ \A t \in R8 : t[1] = "Power"
  <2>1. \A t \in Accounted : t[1] = "Account"
    BY DEF Accounted, Focus!AccountTarget
  <2>2. \A t \in Powers : t[1] = "Power"
    BY DEF Powers, Focus!Power
  <2>3. \A t \in {Focus!Input, <<"Submit">>} : t[1] \in {"AuthenticationInput", "Submit"}
    BY DEF Focus!Input
  <2>4. \A t \in Repeats : t[1] \in {"RetryAuthentication", "RetryAccountSelection"}
    BY DEF Repeats
  <2>5. \A t \in {Focus!SessionTarget} : t[1] = "Session"
    BY DEF Focus!SessionTarget
  <2>6. QED
    BY <2>1, <2>2, <2>3, <2>4, <2>5 DEF Where
<1>11. Focus!focus_order = ((((((s1 \o s2) \o s3) \o s4) \o s5) \o s6) \o s7) \o s8
  <2>1. ~Focus!Confirming /\ ~(Focus!Dialog \/ v7)
    BY DEF Focus!Interactive, Focus!Dialog, Focus!Confirming, Focus!Idle, PageTyped
  <2>2. QED
    BY <2>1 DEF Focus!focus_order
<1>12. Controls = ((((((R1 \cup R2) \cup R3) \cup R4) \cup R5) \cup R6) \cup R7) \cup R8
  <2>1. ~Focus!Confirming
    BY DEF Focus!Interactive, Focus!Dialog, Focus!Confirming, Focus!Idle, PageTyped
  <2>2. QED
    BY <2>1 DEF Controls, Page
<1>13. /\ c4 => Len(s4) = 1 /\ s4[1] = again
       /\ v1 = "Failed" => s1 = << >> /\ s2 = << >> /\ s3 = << >>
       /\ v1 = "Failed" /\ ~c4 => R6 = {}
  BY DEF Focus!If, Where, Focus!can_select_account, Focus!can_select_session
<1>14. again # Focus!SessionTarget
  BY DEF Focus!SessionTarget
<1> HIDE DEF again, c1, c2, c3, c4, c5, c6, c7, c8, s1, s2, s3, s4, s5, s6, s7, s8,
             R1, R2, R3, R4, R5, R6, R7, R8
<1> DEFINE t2 == s1 \o s2  t3 == t2 \o s3  t4 == t3 \o s4  t5 == t4 \o s5  t6 == t5 \o s6
           t7 == t6 \o s7  t8 == t7 \o s8
           Q2 == R1 \cup R2  Q3 == Q2 \cup R3  Q4 == Q3 \cup R4  Q5 == Q4 \cup R5
           Q6 == Q5 \cup R6  Q7 == Q6 \cup R7  Q8 == Q7 \cup R8
<1>15. /\ R1 \cap R2 = {} /\ Q2 \cap R3 = {} /\ Q3 \cap R4 = {} /\ Q4 \cap R5 = {}
       /\ Q5 \cap R6 = {} /\ Q6 \cap R7 = {} /\ Q7 \cap R8 = {}
  BY <1>10
<1>16. Orderly(t2, Q2)
  BY <1>2, <1>3, <1>15, Joined
<1> HIDE DEF t2, Q2
<1>17. Orderly(t3, Q3)
  BY <1>4, <1>15, <1>16, Joined
<1> HIDE DEF t3, Q3
<1>18. Orderly(t4, Q4)
  BY <1>5, <1>15, <1>17, Joined
<1> HIDE DEF t4, Q4
<1>19. Orderly(t5, Q5)
  BY <1>6, <1>15, <1>18, Joined
<1> HIDE DEF t5, Q5
<1>20. Orderly(t6, Q6)
  BY <1>7, <1>15, <1>19, Joined
<1> HIDE DEF t6, Q6
<1>21. Orderly(t7, Q7)
  BY <1>8, <1>15, <1>20, Joined
<1> HIDE DEF t7, Q7
<1>22. Orderly(t8, Q8)
  BY <1>9, <1>15, <1>21, Joined
<1>23. Focus!focus_order = t8 /\ Controls = Q8
  BY <1>11, <1>12 DEF t2, t3, t4, t5, t6, t7, Q2, Q3, Q4, Q5, Q6, Q7
<1>24. ASSUME v1 = "Failed", Len(t8) > 0
       PROVE  t8[1] # Focus!SessionTarget
  <2>1. CASE c4
    <3>1. /\ t4 \in Seq(Targets) /\ s5 \in Seq(Targets) /\ s6 \in Seq(Targets)
          /\ s7 \in Seq(Targets) /\ s8 \in Seq(Targets) /\ s4 \in Seq(Targets)
          /\ t5 \in Seq(Targets) /\ t6 \in Seq(Targets) /\ t7 \in Seq(Targets)
      BY <1>5, <1>6, <1>7, <1>8, <1>9, <1>18, <1>19, <1>20, <1>21 DEF Orderly
    <3>2. t4 = s4
      <4>1. << >> \o << >> = << >> /\ << >> \o s4 = s4
        BY <3>1
      <4>2. QED
        BY <1>13, <1>24, <4>1 DEF t2, t3, t4
    <3>3. \A s, t \in Seq(Targets) :
            Len(s) > 0 => Len(s \o t) > 0 /\ (s \o t)[1] = s[1]
      <4>1. ASSUME NEW s \in Seq(Targets), NEW t \in Seq(Targets), Len(s) > 0
            PROVE  Len(s \o t) > 0 /\ (s \o t)[1] = s[1]
        BY <4>1, ConcatProperties
      <4>2. QED
        BY <4>1
    <3>4. Len(t4) > 0 /\ t4[1] = again
      BY <1>13, <2>1, <3>2
    <3>5. Len(t5) > 0 /\ t5[1] = again
      BY <3>1, <3>3, <3>4 DEF t5
    <3>6. Len(t6) > 0 /\ t6[1] = again
      BY <3>1, <3>3, <3>5 DEF t6
    <3>7. Len(t7) > 0 /\ t7[1] = again
      BY <3>1, <3>3, <3>6 DEF t7
    <3>8. t8[1] = again
      BY <3>1, <3>3, <3>7
    <3>9. QED
      BY <1>14, <3>8
  <2>2. CASE ~c4
    <3>1. Focus!SessionTarget \notin Q8
      <4>1. R6 = {}
        BY <1>13, <1>24, <2>2
      <4>2. Focus!SessionTarget[1] = "Session"
        BY DEF Focus!SessionTarget
      <4>3. QED
        BY <1>10, <4>1, <4>2 DEF Q2, Q3, Q4, Q5, Q6, Q7
    <3>2. t8[1] \in Q8
      <4>1. 1 \in 1 .. Len(t8)
        BY <1>22, <1>24 DEF Orderly
      <4>2. QED
        BY <1>22, <4>1 DEF Orderly
    <3>3. QED
      BY <3>1, <3>2
  <2>3. QED
    BY <2>1, <2>2
<1>25. QED
  BY <1>22, <1>23, <1>24 DEF OrderFacts

\* The same with a dialog over the page, and with the window closing.
LEMMA OrderIsOrderly == PageTyped => OrderFacts
<1> SUFFICES ASSUME PageTyped
             PROVE  OrderFacts
  OBVIOUS
<1>1. CASE Focus!Interactive
  BY <1>1, PageIsOrderly
<1>2. CASE ~Focus!Interactive
  <2>1. Focus!focus_order = IF Focus!Confirming THEN << <<"DialogCancel">>, <<"DialogConfirm">> >>
                            ELSE << >>
    BY <1>2 DEF Focus!focus_order, Focus!Interactive
  <2>2. Controls = IF Focus!Confirming THEN Dialogs ELSE {}
    BY <1>2 DEF Controls
  <2>3. Orderly(<< <<"DialogCancel">>, <<"DialogConfirm">> >>, Dialogs)
    <3>1. <<"DialogCancel">> # <<"DialogConfirm">> /\ <<"DialogCancel">> \in Targets
          /\ <<"DialogConfirm">> \in Targets
      BY DEF Targets, Dialogs
    <3>2. QED
      BY <3>1, TwoControls DEF Dialogs
  <2>4. Orderly(<< >>, {})
    BY DEF Orderly
  <2>5. Orderly(Focus!focus_order, Controls)
    BY <2>1, <2>2, <2>3, <2>4
  <2>6. ~Focus!Dialog => Len(Focus!focus_order) = 0
    BY <1>2, <2>1 DEF Focus!Dialog, Focus!Confirming, Focus!Idle
  <2>7. QED
    BY <2>5, <2>6 DEF OrderFacts
<1>3. QED
  BY <1>1, <1>2

\* The same of the next state.
LEMMA OrderNext == PageTyped' => OrderFacts'
BY OrderIsOrderly, PTL

-----------------------------------------------------------------------------
(* What a handler leaves: it keeps the invariant, but for the mail, which  *)
(* the caller has, and what App and iced think of the input, which is in   *)
(* the mail if they differ.                                                *)

Handling(menu) == FocusInv /\ v7' = v7 /\ (menu => v10)

Handled ==
    /\ PageTyped' /\ KeysTyped' /\ DialogInv' /\ SeveralInv' /\ OfferedInv'
    /\ v11' => v1' = "WaitingForInput" /\ (v8' = Focus!Input \/ (v11 /\ v8' = v8))
    /\ Focus!MenuGivesWay /\ Focus!SessionIsFixed

\* The controls depend on the page alone.
LEMMA SameControls ==
    ASSUME UNCHANGED <<v1, v2, v3, v6, v7>>, v5' = 0 <=> v5 = 0
    PROVE  Controls' = Controls
BY DEF Controls, Page, Accounted, Repeats, Focus!Confirming, Focus!Interactive, Focus!Dialog,
       Focus!can_select_account, Focus!can_change_user, Focus!can_select_session,
       Focus!can_request_power

\* An account is offered only where users are selected, the menu of sessions on no dialog.
ControlFacts ==
    /\ Controls \subseteq Targets
    /\ \A t \in Controls : t[1] = "Account" => v1 = "SelectingUser"
    /\ Focus!SessionTarget \in Controls => ~Focus!Dialog

\* What the controls are.
LEMMA ControlsOffered == PageTyped => ControlFacts
<1> SUFFICES ASSUME PageTyped
             PROVE  ControlFacts
  OBVIOUS
<1>1. Orderly(Focus!focus_order, Controls)
  BY OrderIsOrderly DEF OrderFacts
<1>2. Controls \subseteq Targets
  BY <1>1 DEF Orderly
<1>3. /\ \A t \in Dialogs : t[1] \notin {"Account", "Session"}
      /\ \A t \in Powers : t[1] # "Account"
      /\ \A t \in Repeats : t[1] # "Account"
      /\ Focus!Input[1] # "Account" /\ Focus!SessionTarget[1] = "Session"
  BY DEF Dialogs, Powers, Repeats, Focus!Power, Focus!Input, Focus!SessionTarget
<1>4. ASSUME NEW t \in Controls, t[1] = "Account"
      PROVE  v1 = "SelectingUser"
  BY <1>3, <1>4 DEF Controls, Page, Where, Focus!can_select_account, Focus!SessionTarget
<1>5. Focus!SessionTarget \in Controls => ~Focus!Dialog
  BY <1>3 DEF Controls, Focus!Interactive
<1>6. QED
  BY <1>2, <1>4, <1>5 DEF ControlFacts

\* The same of the next state.
LEMMA ControlsNext == PageTyped' => ControlFacts' /\ OrderFacts'
BY ControlsOffered, OrderIsOrderly, PTL

\* The focus goes to what is offered.
LEMMA FocusGoes ==
    ASSUME PageTyped', v9' \in {Focus!NoFocus} \cup Powers, v7' = v7,
           NEW menu \in BOOLEAN, NEW t \in Targets, Focus!set_focus(t, menu),
           t = Focus!NoFocus \/ t \in Controls'
    PROVE  /\ KeysTyped' /\ OfferedInv' /\ (v11' => v1' = "WaitingForInput" /\ v8' = Focus!Input)
           /\ v8' = t /\ (v10' => menu /\ t = Focus!SessionTarget /\ ~Focus!Dialog')
<1>1. /\ v8' = t /\ v10' = (menu /\ t = Focus!SessionTarget)
      /\ v11' = ((t = Focus!Input \/ (v11 /\ t[1] = "Account")) /\ v1' = "WaitingForInput")
  BY DEF Focus!set_focus
<1>2. ControlFacts'
  BY ControlsNext
<1>3. t \in Controls' => (t[1] = "Account" => v1' = "SelectingUser")
  BY <1>2 DEF ControlFacts
<1>4. Focus!NoFocus[1] = "None" /\ Focus!NoFocus # Focus!SessionTarget
  BY DEF Focus!NoFocus, Focus!SessionTarget
<1>5. KeysTyped'
  BY <1>1 DEF KeysTyped
<1>6. OfferedInv'
  BY <1>1 DEF OfferedInv
<1>7. v10' => menu /\ t = Focus!SessionTarget /\ ~Focus!Dialog'
  BY <1>1, <1>2, <1>4 DEF ControlFacts
<1>8. v11' => v1' = "WaitingForInput" /\ v8' = Focus!Input
  BY <1>1, <1>3, <1>4
<1>9. QED
  BY <1>1, <1>5, <1>6, <1>7, <1>8

\* The focus leaves all controls.
LEMMA FocusLeaves ==
    ASSUME v9' \in {Focus!NoFocus} \cup Powers, Focus!no_focus
    PROVE  KeysTyped' /\ OfferedInv' /\ ~v11' /\ ~v10'
BY DEF Focus!no_focus, KeysTyped, OfferedInv, Targets

\* The focus goes to the first control, if there is one.
LEMMA FocusGoesFirst ==
    ASSUME PageTyped', v9' \in {Focus!NoFocus} \cup Powers, v7' = v7,
           NEW menu \in BOOLEAN, Focus!focus_first(menu)
    PROVE  /\ KeysTyped' /\ OfferedInv' /\ (v11' => v1' = "WaitingForInput" /\ v8' = Focus!Input)
           /\ v10' => menu /\ ~Focus!Dialog' /\ v1' # "Failed"
<1> DEFINE order == Focus!focus_order
<1>1. OrderFacts' /\ ControlFacts'
  BY ControlsNext
<1>2. CASE order' = << >>
  BY <1>2, FocusLeaves DEF Focus!focus_first
<1>3. CASE order' # << >>
  <2>1. order' \in Seq(Targets) /\ Len(order') > 0
    BY <1>1, <1>3 DEF OrderFacts, Orderly
  <2>2. Head(order') \in Targets /\ Head(order') \in Controls' /\ Head(order') = order[1]'
    <3>1. Head(order') = order[1]' /\ 1 \in 1 .. Len(order')
      BY <2>1
    <3>2. QED
      BY <1>1, <2>1, <3>1 DEF OrderFacts, Orderly
  <2>3. Focus!set_focus(Head(order'), menu)
    BY <1>3 DEF Focus!focus_first
  <2>4. v1' = "Failed" /\ ~Focus!Dialog' => Head(order') # Focus!SessionTarget
    BY <1>1, <2>1, <2>2 DEF OrderFacts
  <2> DEFINE t == Head(order')
  <2> HIDE DEF order
  <2>5. t \in Targets /\ t \in Controls' /\ Focus!set_focus(t, menu)
    BY <2>2, <2>3
  <2>6. /\ KeysTyped' /\ OfferedInv' /\ (v11' => v1' = "WaitingForInput" /\ v8' = Focus!Input)
        /\ v10' => menu /\ t = Focus!SessionTarget /\ ~Focus!Dialog'
    BY <2>5, FocusGoes
  <2>7. QED
    BY <2>4, <2>6
<1>4. QED
  BY <1>2, <1>3

-----------------------------------------------------------------------------
(* The handlers of messages *)

\* A handler that leaves page and focus alone, or goes on to where nothing is offered.
LEMMA Keeping ==
    ASSUME NEW menu \in BOOLEAN, Handling(menu), Focus!keep_focus(menu), PageTyped', v9' = v9,
           v6' = v6, v3' = v3,
           v1' \in Focus!Asleep \/ (UNCHANGED <<v1, v2, v7>> /\ (v5' = 0 <=> v5 = 0)),
           v1' = v1 \/ (~Focus!Dialog /\ v1' \in {"CreatingSession", "Authenticating",
                                                  "StartingSession", "DiscoveringUsers"}),
           v1 \in {"Authenticating", "StartingSession"} => v5' = v5
    PROVE  Handled
<1>1. /\ v8' = v8 /\ v10' = menu /\ v11' = (v11 /\ v1' = "WaitingForInput")
  BY DEF Focus!keep_focus
<1>2. PageTyped /\ KeysTyped /\ DialogInv /\ SeveralInv /\ TypingInv /\ OfferedInv /\ v7' = v7
      /\ (menu => v10)
  BY DEF Handling, FocusInv
<1>3. KeysTyped'
  BY <1>1, <1>2 DEF KeysTyped
<1>4. Focus!Dialog' = Focus!Dialog
  BY DEF Focus!Dialog
<1>5. DialogInv'
  BY <1>1, <1>2, <1>4 DEF DialogInv
<1>6. SeveralInv'
  BY <1>2 DEF SeveralInv
<1>7. OfferedInv'
  <2>1. CASE v1' \in Focus!Asleep
    BY <2>1 DEF OfferedInv, Focus!Asleep, Focus!Settled
  <2>2. CASE UNCHANGED <<v1, v2, v7>> /\ (v5' = 0 <=> v5 = 0)
    <3>1. Controls' = Controls
      BY <2>2, SameControls
    <3>2. QED
      BY <1>1, <1>2, <2>2, <3>1 DEF OfferedInv
  <2>3. QED
    BY <2>1, <2>2
<1>8. Focus!MenuGivesWay
  BY <1>1, <1>2, <1>4 DEF Focus!MenuGivesWay, DialogInv, Focus!Settled
<1>9. Focus!SessionIsFixed
  BY DEF Focus!SessionIsFixed
<1>10. QED
  BY <1>1, <1>2, <1>3, <1>5, <1>6, <1>7, <1>8, <1>9 DEF Handled

\* A message that is ignored.
LEMMA NothingKept ==
    ASSUME NEW menu \in BOOLEAN, Handling(menu), Focus!Nothing(menu)
    PROVE  Handled
<1>1. UNCHANGED <<v1, v2, v3, v4, v5, v6, v7, v9>> /\ Focus!keep_focus(menu)
  BY DEF Focus!Nothing, Focus!userVars, Focus!listVars, Focus!powerVars, Handling
<1>2. PageTyped'
  BY <1>1 DEF PageTyped, Handling, FocusInv
<1>3. QED
  BY <1>1, <1>2, Keeping

\* A handler that sets the focus on a page that stays.
LEMMA Moving ==
    ASSUME NEW menu \in BOOLEAN, Handling(menu), NEW t \in Targets,
           t = Focus!NoFocus \/ t \in Controls, Focus!set_focus(t, menu),
           UNCHANGED <<v1, v2, v3, v4, v6, v7, v9>>, v5' \in 0 .. v4, v5' = 0 <=> v5 = 0,
           v1 \in {"Authenticating", "StartingSession"} => v5' = v5
    PROVE  Handled
<1>1. PageTyped /\ KeysTyped /\ DialogInv /\ SeveralInv /\ TypingInv
      /\ (menu => v10)
  BY DEF Handling, FocusInv
<1>2. PageTyped' /\ Controls' = Controls /\ v9' \in {Focus!NoFocus} \cup Powers
  BY <1>1, SameControls DEF PageTyped, KeysTyped
<1>3. /\ KeysTyped' /\ OfferedInv' /\ (v11' => v1' = "WaitingForInput" /\ v8' = Focus!Input)
      /\ v8' = t /\ (v10' => menu /\ t = Focus!SessionTarget /\ ~Focus!Dialog')
  BY <1>2, FocusGoes
<1>4. Focus!Dialog' = Focus!Dialog
  BY DEF Focus!Dialog
<1>5. DialogInv'
  <2>1. v11' => v1' = "WaitingForInput" /\ t = Focus!Input
    BY <1>3
  <2>2. Focus!Dialog => ~(t = Focus!Input)
    <3>1. ASSUME Focus!Dialog
          PROVE  Controls \subseteq Dialogs
      BY <3>1 DEF Controls, Focus!Interactive
    <3>2. Focus!Input \notin Dialogs /\ Focus!Input # Focus!NoFocus
      BY DEF Dialogs, Focus!Input, Focus!NoFocus
    <3>3. QED
      BY <3>1, <3>2
  <2>3. QED
    BY <1>1, <1>3, <1>4, <2>1, <2>2 DEF DialogInv
<1>6. SeveralInv'
  BY <1>1 DEF SeveralInv
<1>7. Focus!MenuGivesWay /\ Focus!SessionIsFixed
  BY <1>3 DEF Focus!MenuGivesWay, Focus!SessionIsFixed
<1>8. QED
  BY <1>2, <1>3, <1>5, <1>6, <1>7 DEF Handled

\* The place of a control in the order, and where the Tab key goes from it.
LEMMA PlaceInOrder ==
    ASSUME PageTyped, NEW t
    PROVE  LET order == Focus!focus_order IN
           /\ t \in Controls => /\ Focus!Position(t) \in 0 .. Len(order) - 1
                                /\ order[Focus!Position(t) + 1] = t
           /\ t \notin Controls => Focus!Position(t) = -1
<1> DEFINE order == Focus!focus_order
           I == {i \in 1 .. Len(order) : order[i] = t}
<1>1. Orderly(order, Controls)
  BY OrderIsOrderly DEF OrderFacts
<1>2. Focus!Position(t) = (IF I # {} THEN Focus!Min(I) ELSE 0) - 1
  BY DEF Focus!Position, Focus!SelectInSeq
<1> HIDE DEF order
<1>3. CASE t \in Controls
  <2>1. PICK i \in 1 .. Len(order) : order[i] = t
    BY <1>1, <1>3 DEF Orderly
  <2>2. I = {i}
    BY <1>1, <2>1 DEF Orderly
  <2>3. Focus!Min(I) = i
    <3>1. \A x \in {i} : x = i
      OBVIOUS
    <3>2. i <= i
      BY <2>1
    <3>3. QED
      BY <2>2, <3>1, <3>2 DEF Focus!Min
  <2>4. Focus!Position(t) = i - 1
    BY <1>2, <2>2, <2>3
  <2>5. QED
    BY <1>3, <2>1, <2>4 DEF order
<1>4. CASE t \notin Controls
  <2>1. I = {}
    BY <1>1, <1>4 DEF Orderly
  <2>2. QED
    BY <1>2, <1>4, <2>1 DEF order
<1>5. QED
  BY <1>3, <1>4

\* The Tab key goes to a control that is offered.
LEMMA NeighbourIsOffered ==
    ASSUME PageTyped, Focus!focus_order # << >>, NEW t, NEW delta \in {1, -1}
    PROVE  Focus!neighbour(t, delta) \in Controls /\ Focus!neighbour(t, delta) \in Targets
<1> DEFINE order == Focus!focus_order
           n == Len(order)
           p == Focus!Position(t)
<1>1. Orderly(order, Controls)
  BY OrderIsOrderly DEF OrderFacts
<1>2. n \in Nat /\ n > 0 /\ order \in Seq(Targets)
  BY <1>1 DEF Orderly
<1>3. p = -1 \/ p \in 0 .. n - 1
  BY PlaceInOrder
<1>4. Focus!neighbour(t, delta) =
        IF p < 0 THEN order[IF delta < 0 THEN n ELSE 1] ELSE order[((p + delta) % n) + 1]
  BY DEF Focus!neighbour
<1> HIDE DEF order, n, p
<1>5. \A i \in 1 .. n : order[i] \in Controls /\ order[i] \in Targets
  BY <1>1, <1>2 DEF Orderly, n
<1>6. CASE p < 0
  <2>1. (IF delta < 0 THEN n ELSE 1) \in 1 .. n
    BY <1>2
  <2>2. QED
    BY <1>4, <1>5, <1>6, <2>1
<1>7. CASE ~(p < 0)
  <2>1. p \in Int /\ p >= 0
    BY <1>2, <1>3, <1>7
  <2>2. (p + delta) % n \in 0 .. n - 1
    <3>1. p + delta \in Int
      BY <2>1
    <3>2. QED
      BY <1>2, <3>1
  <2>3. ((p + delta) % n) + 1 \in 1 .. n
    BY <1>2, <2>2
  <2>4. QED
    BY <1>4, <1>5, <1>7, <2>3
<1>8. QED
  BY <1>6, <1>7

\* Tab, and the arrows in the dialog.
LEMMA MoveFocus ==
    ASSUME NEW menu \in BOOLEAN, Handling(menu), NEW delta \in {1, -1},
           Focus!move_focus(delta, menu)
    PROVE  Handled
<1>1. UNCHANGED <<v1, v2, v3, v4, v5, v6, v7, v9>>
  BY DEF Focus!move_focus, Focus!userVars, Focus!listVars, Focus!powerVars, Handling
<1>2. PageTyped
  BY DEF Handling, FocusInv
<1>3. CASE Focus!focus_order = << >>
  <2>1. Focus!no_focus
    BY <1>3 DEF Focus!move_focus
  <2>2. KeysTyped' /\ OfferedInv' /\ ~v11' /\ ~v10'
    <3>1. v9' \in {Focus!NoFocus} \cup Powers
      BY <1>1 DEF Handling, FocusInv, KeysTyped
    <3>2. QED
      BY <2>1, <3>1, FocusLeaves
  <2>3. PageTyped' /\ SeveralInv'
    BY <1>1 DEF PageTyped, SeveralInv, Handling, FocusInv
  <2>4. DialogInv'
    BY <1>1, <2>2 DEF DialogInv, Handling, FocusInv, Focus!Dialog
  <2>5. Focus!MenuGivesWay /\ Focus!SessionIsFixed
    BY <1>1, <2>2 DEF Focus!MenuGivesWay, Focus!SessionIsFixed
  <2>6. QED
    BY <2>2, <2>3, <2>4, <2>5 DEF Handled
<1>4. CASE Focus!focus_order # << >>
  <2> DEFINE t == Focus!neighbour(v8, delta)
  <2>1. Focus!set_focus(t, menu)
    BY <1>4 DEF Focus!move_focus
  <2>2. t \in Controls /\ t \in Targets
    BY <1>2, <1>4, NeighbourIsOffered
  <2> HIDE DEF t
  <2>3. v5 \in 0 .. v4
    BY <1>2 DEF PageTyped
  <2>4. QED
    BY <1>1, <2>1, <2>2, <2>3, Moving
<1>5. QED
  BY <1>3, <1>4

\* The arrows on the session.
LEMMA CycleSession ==
    ASSUME NEW menu \in BOOLEAN, Handling(menu), NEW delta \in {1, -1},
           Focus!can_select_session, Focus!cycle_session(delta, menu)
    PROVE  Handled
<1>1. /\ UNCHANGED <<v1, v2, v3, v4, v6, v7, v9>> /\ Focus!keep_focus(menu)
      /\ v5' = ((v5 - 1 + delta) % v4) + 1
  BY DEF Focus!cycle_session, Focus!userVars, Focus!powerVars, Handling
<1>2. /\ v5 # 0 /\ v1 \notin {"Authenticating", "StartingSession"}
  BY DEF Focus!can_select_session
<1>3. PageTyped /\ v5 \in 0 .. v4 /\ v4 \in Nat
  <2>1. MaxSessions \in Nat
    BY FocusIsBounded DEF Focus!FocusAssumption
  <2>2. QED
    BY <2>1 DEF Handling, FocusInv, PageTyped
<1>4. v5' \in 1 .. v4
  <2>1. v4 > 0 /\ v5 - 1 + delta \in Int
    BY <1>2, <1>3
  <2>2. (v5 - 1 + delta) % v4 \in 0 .. v4 - 1
    BY <1>3, <2>1
  <2>3. QED
    BY <1>1, <1>3, <2>2
<1>5. PageTyped'
  BY <1>1, <1>3, <1>4 DEF PageTyped
<1>6. QED
  BY <1>1, <1>2, <1>4, <1>5, Keeping

\* The arrows.
LEMMA MoveDirectional ==
    ASSUME NEW menu \in BOOLEAN, Handling(menu), NEW delta \in {1, -1},
           Focus!move_directional(delta, menu)
    PROVE  Handled
<1>1. CASE v8[1] = "Account" /\ Focus!can_select_account /\ v3 > 0
  <2> DEFINE t == Focus!AccountTarget((v8[2] + delta) % v3)
  <2>1. /\ UNCHANGED <<v1, v2, v3, v4, v5, v6, v7, v9>> /\ Focus!set_focus(t, menu)
    BY <1>1 DEF Focus!move_directional, Focus!userVars, Focus!listVars, Focus!powerVars, Handling
  <2>2. PageTyped /\ v8 \in Targets /\ v3 \in 0 .. MaxAccounts /\ MaxAccounts \in Nat
        /\ v5 \in 0 .. v4
    BY FocusIsBounded DEF Handling, FocusInv, PageTyped, KeysTyped, Focus!FocusAssumption
  <2>3. v8[2] \in Int
    <3>1. PICK i \in 0 .. MaxAccounts - 1 : v8 = Focus!AccountTarget(i)
      BY <1>1, <2>2 DEF Targets, Dialogs, Powers, Focus!NoFocus, Focus!Input, Focus!Power,
         Focus!SessionTarget
    <3>2. QED
      BY <2>2, <3>1 DEF Focus!AccountTarget
  <2>4. (v8[2] + delta) % v3 \in 0 .. v3 - 1
    <3>1. v8[2] + delta \in Int
      BY <2>3
    <3>2. QED
      BY <1>1, <2>2, <3>1
  <2>5. t \in Targets
    BY <2>2, <2>4 DEF Targets
  <2>6. t \in Controls
    <3>1. t \in Accounted
      <4>1. ((v8[2] + delta) % v3) + 1 \in 1 .. v3
        BY <2>2, <2>4
      <4>2. PICK i \in 1 .. v3 : (v8[2] + delta) % v3 = i - 1
        BY <2>2, <2>4, <4>1
      <4>3. QED
        BY <4>2 DEF Accounted
    <3>2. ~Focus!Confirming /\ Focus!Interactive
      BY <1>1, <2>2 DEF Focus!can_select_account, Focus!Interactive, Focus!Dialog,
         Focus!Confirming, Focus!Idle
    <3> HIDE DEF t
    <3>3. QED
      BY <1>1, <3>1, <3>2 DEF Controls, Page, Where
  <2> HIDE DEF t
  <2>7. QED
    BY <2>1, <2>2, <2>5, <2>6, Moving
<1>2. CASE ~(v8[1] = "Account" /\ Focus!can_select_account /\ v3 > 0)
  <2>1. CASE v8 = Focus!SessionTarget /\ Focus!can_select_session
    <3>1. Focus!cycle_session(delta, menu)
      BY <1>2, <2>1 DEF Focus!move_directional
    <3>2. QED
      BY <2>1, <3>1, CycleSession
  <2>2. CASE ~(v8 = Focus!SessionTarget /\ Focus!can_select_session)
    <3>1. Focus!move_focus(delta, menu) \/ Focus!Nothing(menu)
      BY <1>2, <2>2 DEF Focus!move_directional
    <3>2. QED
      BY <3>1, MoveFocus, NothingKept
  <2>3. QED
    BY <2>1, <2>2
<1>3. QED
  BY <1>1, <1>2

-----------------------------------------------------------------------------
(* Handlers that change the page *)

\* On to a phase that waits for a reply, which offers nothing that has to have the focus.
LEMMA Failing ==
    ASSUME NEW menu \in BOOLEAN, Handling(menu), ~v7, ~Focus!Dialog, Focus!fail(menu)
    PROVE  Handled
<1>1. v1' = "Failed" /\ UNCHANGED <<v2, v3, v4, v5, v6, v7, v9>> /\ Focus!focus_first(menu)
  BY DEF Focus!fail, Focus!GoTo, Focus!userVars, Focus!listVars, Focus!powerVars, Handling
<1>2. PageTyped' /\ v9' \in {Focus!NoFocus} \cup Powers
  BY <1>1 DEF Handling, FocusInv, PageTyped, KeysTyped, Focus!Settled
<1>3. /\ KeysTyped' /\ OfferedInv' /\ (v11' => v1' = "WaitingForInput" /\ v8' = Focus!Input)
      /\ ~v10'
  BY <1>1, <1>2, FocusGoesFirst
<1>4. ~Focus!Dialog'
  BY <1>1 DEF Focus!Dialog
<1>5. DialogInv' /\ SeveralInv' /\ Focus!MenuGivesWay /\ Focus!SessionIsFixed
  BY <1>1, <1>3, <1>4 DEF DialogInv, SeveralInv, Focus!MenuGivesWay, Focus!SessionIsFixed
<1>6. QED
  BY <1>2, <1>3, <1>5 DEF Handled

\* An account is chosen, and with it the user of the conversation.
LEMMA SelectingAccount ==
    ASSUME NEW menu \in BOOLEAN, Handling(menu), v3' \in 0 .. MaxAccounts,
           ~Focus!Dialog, v1 \notin {"Authenticating", "StartingSession"},
           Focus!select_account
    PROVE  Handled
<1>1. v1' = "CreatingSession" /\ v2' = TRUE /\ UNCHANGED <<v4, v5, v6, v7, v9>> /\ Focus!no_focus
  BY DEF Focus!select_account, Focus!GoTo, Focus!listVars, Focus!powerVars, Handling
<1>2. PageTyped' /\ v9' \in {Focus!NoFocus} \cup Powers
  BY <1>1 DEF Handling, FocusInv, PageTyped, KeysTyped, Focus!Asleep
<1>3. KeysTyped' /\ OfferedInv' /\ ~v11' /\ ~v10'
  BY <1>1, <1>2, FocusLeaves
<1>4. ~Focus!Dialog'
  BY <1>1 DEF Focus!Dialog
<1>5. DialogInv' /\ SeveralInv' /\ Focus!MenuGivesWay /\ Focus!SessionIsFixed
  BY <1>1, <1>3, <1>4 DEF DialogInv, SeveralInv, Focus!MenuGivesWay, Focus!SessionIsFixed
<1>6. v11' => v1' = "WaitingForInput" /\ (v8' = Focus!Input \/ (v11 /\ v8' = v8))
  BY <1>3, Zenon
<1>7. QED
  BY <1>2, <1>3, <1>5, <1>6, Zenon DEF Handled

\* A page from which greetd is asked to cancel, for the choice of another user.
LEMMA Cancelling ==
    ASSUME NEW menu \in BOOLEAN, Handling(menu), ~Focus!Dialog, v3 > 1,
           v1 \notin {"Authenticating", "StartingSession"},
           v1' = "CancellingForUserSelection", v2' \in BOOLEAN,
           UNCHANGED <<v3, v4, v5, v6, v7, v9>>, Focus!focus_first(menu)
    PROVE  Handled
<1>1. PageTyped' /\ v9' \in {Focus!NoFocus} \cup Powers
  BY DEF Handling, FocusInv, PageTyped, KeysTyped, Focus!Asleep
<1>2. /\ KeysTyped' /\ OfferedInv' /\ (v11' => v1' = "WaitingForInput" /\ v8' = Focus!Input)
  BY <1>1, FocusGoesFirst
<1>3. ~Focus!Dialog'
  BY DEF Focus!Dialog
<1>4. DialogInv' /\ SeveralInv' /\ Focus!MenuGivesWay /\ Focus!SessionIsFixed
  BY <1>2, <1>3 DEF DialogInv, SeveralInv, Focus!MenuGivesWay, Focus!SessionIsFixed, Focus!Settled
<1>5. QED
  BY <1>1, <1>2, <1>4 DEF Handled

\* The user asks for another account.
LEMMA ChangingUser ==
    ASSUME NEW menu \in BOOLEAN, Handling(menu), Focus!ChangeUser(menu)
    PROVE  Handled
<1>1. CASE Focus!can_change_user
  <2>1. ~Focus!Dialog /\ v3 > 1 /\ v1 \in {"WaitingForInput", "Failed"}
    BY <1>1 DEF Focus!can_change_user, Focus!Interactive
  <2>2. /\ v1' = "CancellingForUserSelection" /\ v2' = FALSE
        /\ UNCHANGED <<v3, v4, v5, v6, v7, v9>> /\ Focus!focus_first(menu)
    BY <1>1 DEF Focus!ChangeUser, Focus!change_user, Focus!GoTo, Focus!listVars, Focus!powerVars
  <2>3. QED
    BY <2>1, <2>2, Cancelling
<1>2. CASE ~Focus!can_change_user
  BY <1>2, NothingKept DEF Focus!ChangeUser
<1>3. QED
  BY <1>1, <1>2

\* The cancellation is tried again.
LEMMA RetryingCancellation ==
    ASSUME NEW menu \in BOOLEAN, Handling(menu), Focus!RetryUserSelectionCancellation(menu)
    PROVE  Handled
<1>1. CASE Focus!Interactive /\ v1 = "UserSelectionCancellationFailed"
  <2>1. ~Focus!Dialog /\ v3 > 1 /\ v2 \in BOOLEAN
    BY <1>1 DEF Focus!Interactive, Handling, FocusInv, SeveralInv, PageTyped
  <2>2. /\ v1' = "CancellingForUserSelection"
        /\ UNCHANGED <<v2, v3, v4, v5, v6, v7, v9>> /\ Focus!focus_first(menu)
    BY <1>1 DEF Focus!RetryUserSelectionCancellation, Focus!GoTo, Focus!userVars,
       Focus!listVars, Focus!powerVars
  <2>3. QED
    BY <1>1, <2>1, <2>2, Cancelling
<1>2. CASE ~(Focus!Interactive /\ v1 = "UserSelectionCancellationFailed")
  BY <1>2, NothingKept DEF Focus!RetryUserSelectionCancellation
<1>3. QED
  BY <1>1, <1>2

\* Back to the conversation with greetd, or to the list of users.
LEMMA Starting ==
    ASSUME NEW menu \in BOOLEAN, Handling(menu), Focus!Interactive, v1 = "Failed",
           v1' \in {"CreatingSession", "DiscoveringUsers"}, Focus!keep_focus(menu),
           UNCHANGED <<v2, v3, v6, v7, v9>>, v4' \in 0 .. MaxSessions, v5' \in 0 .. v4'
    PROVE  Handled
<1>1. PageTyped' /\ v1' \in Focus!Asleep /\ ~Focus!Dialog
  BY DEF Handling, FocusInv, PageTyped, Focus!Asleep, Focus!Interactive
<1>2. v1' = v1 \/ (~Focus!Dialog /\ v1' \in {"CreatingSession", "Authenticating",
                                              "DiscoveringUsers"})
  BY <1>1
<1>3. QED
  BY <1>1, <1>2, Keeping

\* What failed is tried again.
LEMMA Retrying ==
    ASSUME NEW menu \in BOOLEAN, Handling(menu), Focus!Retry(menu)
    PROVE  Handled
<1>1. CASE Focus!Interactive /\ v1 = "Failed"
  <2>1. /\ v1' \in {"CreatingSession", "DiscoveringUsers"} /\ Focus!keep_focus(menu)
        /\ UNCHANGED <<v2, v3, v4, v5, v6, v9>>
    BY <1>1 DEF Focus!Retry, Focus!retry_authentication, Focus!GoTo, Focus!userVars,
       Focus!listVars, Focus!powerVars
  <2>2. v7' = v7 /\ v4 \in 0 .. MaxSessions /\ v5 \in 0 .. v4
    BY DEF Handling, FocusInv, PageTyped
  <2>3. QED
    BY <1>1, <2>1, <2>2, Starting
<1>2. CASE ~(Focus!Interactive /\ v1 = "Failed")
  BY <1>2, NothingKept DEF Focus!Retry
<1>3. QED
  BY <1>1, <1>2

\* The desktop sessions are looked for again.
LEMMA RetryingSession ==
    ASSUME NEW menu \in BOOLEAN, Handling(menu), Focus!RetrySession(menu)
    PROVE  Handled
<1>1. CASE Focus!Interactive /\ v1 = "Failed" /\ v5 = 0
  <2>1. PICK n \in 0 .. MaxSessions :
          /\ v4' = n /\ v5' = IF n = 0 THEN 0 ELSE 1
          /\ IF n = 0 THEN UNCHANGED <<v1, Focus!userVars, Focus!powerVars>>
                           /\ Focus!keep_focus(menu)
             ELSE IF v2 THEN Focus!retry_authentication(menu)
             ELSE /\ Focus!GoTo("DiscoveringUsers")
                  /\ Focus!keep_focus(menu) /\ UNCHANGED <<Focus!userVars, Focus!powerVars>>
    BY <1>1 DEF Focus!RetrySession
  <2>2. v7' = v7 /\ MaxSessions \in Nat
    BY FocusIsBounded DEF Handling, Focus!FocusAssumption
  <2>3. CASE n = 0
    <3>1. UNCHANGED <<v1, v2, v3, v5, v6, v7, v9>> /\ v4' = 0 /\ v5' = 0 /\ Focus!keep_focus(menu)
      BY <1>1, <2>1, <2>2, <2>3 DEF Focus!userVars, Focus!powerVars
    <3>2. PageTyped'
      BY <1>1, <2>2, <3>1 DEF Handling, FocusInv, PageTyped
    <3>3. QED
      BY <3>1, <3>2, Keeping
  <2>4. CASE n # 0
    <3>1. /\ v1' \in {"CreatingSession", "DiscoveringUsers"} /\ Focus!keep_focus(menu)
          /\ UNCHANGED <<v2, v3, v6, v7, v9>>
      BY <2>1, <2>2, <2>4 DEF Focus!retry_authentication, Focus!GoTo, Focus!userVars,
         Focus!powerVars
    <3>2. v4' \in 0 .. MaxSessions /\ v5' \in 0 .. v4'
      BY <2>1, <2>2, <2>4
    <3>3. QED
      BY <1>1, <3>1, <3>2, Starting
  <2>5. QED
    BY <2>3, <2>4
<1>2. CASE ~(Focus!Interactive /\ v1 = "Failed" /\ v5 = 0)
  BY <1>2, NothingKept DEF Focus!RetrySession
<1>3. QED
  BY <1>1, <1>2

\* The answer goes to greetd, or its loss is noticed.
LEMMA Submitting ==
    ASSUME NEW menu \in BOOLEAN, Handling(menu), Focus!Submit(menu)
    PROVE  Handled
<1>1. CASE Focus!Interactive /\ v1 = "WaitingForInput"
  <2>1. ~v7 /\ ~Focus!Dialog
    BY <1>1 DEF Focus!Interactive
  <2>2. CASE Focus!fail(menu)
    BY <2>1, <2>2, Failing
  <2>3. CASE /\ Focus!GoTo("Authenticating") /\ Focus!keep_focus(menu)
             /\ UNCHANGED <<Focus!userVars, Focus!listVars, Focus!powerVars>>
    <3>1. /\ v1' = "Authenticating" /\ Focus!keep_focus(menu)
          /\ UNCHANGED <<v2, v3, v4, v5, v6, v7, v9>>
      BY <2>3 DEF Focus!GoTo, Focus!userVars, Focus!listVars, Focus!powerVars, Handling
    <3>2. PageTyped' /\ v1' \in Focus!Asleep
      BY <3>1 DEF Handling, FocusInv, PageTyped, Focus!Asleep
    <3>3. v1' = v1 \/ (~Focus!Dialog /\ v1' \in {"CreatingSession", "Authenticating",
                                                  "DiscoveringUsers"})
      BY <2>1, <3>1
    <3>4. QED
      BY <3>1, <3>2, <3>3, Keeping
  <2>4. QED
    BY <1>1, <2>2, <2>3 DEF Focus!Submit
<1>2. CASE ~(Focus!Interactive /\ v1 = "WaitingForInput")
  BY <1>2, NothingKept DEF Focus!Submit
<1>3. QED
  BY <1>1, <1>2

-----------------------------------------------------------------------------
(* The power dialog *)

\* The dialog comes over the page, with the focus on Cancel.
LEMMA AskingPower ==
    ASSUME NEW menu \in BOOLEAN, Handling(menu), NEW a \in Focus!Actions,
           Focus!AskPower(a, menu)
    PROVE  Handled
<1>1. CASE Focus!can_request_power
  <2>1. /\ v6' = <<"Confirming", a>> /\ v9' = Focus!Power(a)
        /\ UNCHANGED <<v1, v2, v3, v4, v5, v7>> /\ Focus!set_focus(<<"DialogCancel">>, menu)
    BY <1>1 DEF Focus!AskPower, Focus!userVars, Focus!listVars, Handling
  <2>2. v1 \in Focus!Settled
    BY <1>1 DEF Focus!can_request_power
  <2>3. PageTyped' /\ v9' \in {Focus!NoFocus} \cup Powers
    <3>1. v6' \in {"Confirming", "Executing"} \X Focus!Actions
      BY <2>1
    <3>2. v9' \in Powers
      BY <2>1 DEF Powers
    <3>3. QED
      BY <2>1, <3>1, <3>2 DEF Handling, FocusInv, PageTyped
  <2>4. <<"DialogCancel">> \in Targets /\ <<"DialogCancel">> \in Controls'
    <3>1. Focus!Confirming'
      BY <2>1 DEF Focus!Confirming
    <3>2. QED
      BY <3>1 DEF Controls, Targets, Dialogs
  <2>5. /\ KeysTyped' /\ OfferedInv' /\ (v11' => v1' = "WaitingForInput" /\ v8' = Focus!Input)
        /\ v8' = <<"DialogCancel">> /\ (v10' => ~Focus!Dialog')
    BY <2>1, <2>3, <2>4, FocusGoes
  <2>6. Focus!Dialog' /\ v8' # Focus!Input
    BY <2>1, <2>5 DEF Focus!Dialog, Focus!Idle, Focus!Input
  <2>7. DialogInv' /\ SeveralInv' /\ Focus!MenuGivesWay /\ Focus!SessionIsFixed
    BY <2>1, <2>2, <2>5, <2>6 DEF Handling, FocusInv, DialogInv, SeveralInv, Focus!MenuGivesWay,
       Focus!SessionIsFixed
  <2>8. QED
    BY <2>3, <2>5, <2>7 DEF Handled
<1>2. CASE ~Focus!can_request_power
  BY <1>2, NothingKept DEF Focus!AskPower
<1>3. QED
  BY <1>1, <1>2

\* The focus leaves the dialog for the page beneath it.
LEMMA LeavingDialog ==
    ASSUME FocusInv, Focus!Dialog, Focus!leave_power_dialog
    PROVE  Handled
<1>1. v6' = Focus!Idle /\ v9' = Focus!NoFocus /\ UNCHANGED <<v1, v2, v3, v4, v5, v7>>
  BY DEF Focus!leave_power_dialog, Focus!userVars, Focus!listVars
<1>2. PageTyped' /\ v9' \in {Focus!NoFocus} \cup Powers
  BY <1>1 DEF FocusInv, PageTyped
<1>3. ~v10 /\ ~v11 /\ v10 \in BOOLEAN /\ v9 \in {Focus!NoFocus} \cup Powers
  BY DEF FocusInv, DialogInv, KeysTyped
<1>4. /\ KeysTyped' /\ OfferedInv' /\ (v11' => v1' = "WaitingForInput" /\ v8' = Focus!Input)
      /\ ~v10'
  <2>1. CASE Focus!Contains((Focus!focus_order)', v9)
    <3>1. Focus!set_focus(v9, v10)
      BY <2>1 DEF Focus!leave_power_dialog
    <3>2. v9 \in Controls' /\ v9 \in Targets
      <4>1. OrderFacts' /\ ControlFacts'
        BY <1>2, ControlsNext
      <4>2. v9 \in Controls'
        BY <2>1, <4>1 DEF OrderFacts, Orderly, Focus!Contains
      <4>3. QED
        BY <4>1, <4>2 DEF ControlFacts
    <3> DEFINE t == v9
    <3> HIDE DEF t
    <3>3. QED
      BY <1>1, <1>2, <1>3, <3>1, <3>2, FocusGoes
  <2>2. CASE ~Focus!Contains((Focus!focus_order)', v9)
    <3>1. Focus!focus_first(v10)
      BY <2>2 DEF Focus!leave_power_dialog, Focus!focus_first
    <3>2. QED
      BY <1>1, <1>2, <1>3, <3>1, FocusGoesFirst
  <2>3. QED
    BY <2>1, <2>2
<1>5. ~Focus!Dialog'
  BY <1>1 DEF Focus!Dialog
<1>6. DialogInv' /\ SeveralInv' /\ Focus!MenuGivesWay /\ Focus!SessionIsFixed
  BY <1>1, <1>4, <1>5 DEF FocusInv, DialogInv, SeveralInv, Focus!MenuGivesWay,
     Focus!SessionIsFixed
<1>7. QED
  BY <1>2, <1>4, <1>6 DEF Handled

\* The user takes it back.
LEMMA CancellingPower ==
    ASSUME FocusInv, Focus!CancelPower
    PROVE  Handled
<1>1. Focus!Dialog /\ Focus!leave_power_dialog
  BY DEF Focus!CancelPower, Focus!Confirming, Focus!Dialog, Focus!Idle
<1>2. QED
  BY <1>1, LeavingDialog

\* The user means it: nothing has the focus while the computer obeys.
LEMMA ConfirmingPower ==
    ASSUME FocusInv, v7' = v7, Focus!ConfirmPower
    PROVE  Handled
<1>1. /\ v6' = <<"Executing", v6[2]>> /\ v8' = Focus!NoFocus
      /\ UNCHANGED <<v1, v2, v3, v4, v5, v7, v9, v10, v11>>
  BY DEF Focus!ConfirmPower, Focus!userVars, Focus!listVars
<1>2. Focus!Dialog /\ v6 # Focus!Idle
  BY DEF Focus!ConfirmPower, Focus!Confirming, Focus!Dialog, Focus!Idle
<1>3. PageTyped'
  <2>1. v6[2] \in Focus!Actions
    BY <1>2 DEF FocusInv, PageTyped
  <2>2. v6' \in {"Confirming", "Executing"} \X Focus!Actions
    BY <1>1, <2>1
  <2>3. QED
    BY <1>1, <2>2 DEF FocusInv, PageTyped
<1>4. KeysTyped' /\ OfferedInv'
  BY <1>1 DEF FocusInv, KeysTyped, OfferedInv, Targets
<1>5. ~v10' /\ ~v11' /\ v1' \in Focus!Settled
  BY <1>1, <1>2 DEF FocusInv, DialogInv
<1>6. DialogInv' /\ SeveralInv' /\ Focus!MenuGivesWay /\ Focus!SessionIsFixed
  BY <1>1, <1>5 DEF FocusInv, DialogInv, SeveralInv, Focus!MenuGivesWay, Focus!SessionIsFixed
<1>7. QED
  BY <1>3, <1>4, <1>5, <1>6, Zenon DEF Handled

-----------------------------------------------------------------------------
(* The keys *)

\* Enter does what the control with the focus does.
LEMMA Activating ==
    ASSUME NEW menu \in BOOLEAN, Handling(menu), Focus!activate_focus(menu)
    PROVE  Handled
<1>1. FocusInv /\ v7' = v7 /\ v8 \in Targets
  BY DEF Handling, FocusInv, KeysTyped
<1>2. CASE v8[1] = "Account"
  <2>1. CASE Focus!can_select_account /\ v8[2] < v3
    <3>1. Focus!select_account /\ v3' = v3
      BY <1>2, <2>1 DEF Focus!activate_focus
    <3>2. /\ ~Focus!Dialog /\ v1 \notin {"Authenticating", "StartingSession"}
          /\ v3' \in 0 .. MaxAccounts
      BY <1>1, <2>1, <3>1 DEF Focus!can_select_account, Focus!Interactive, FocusInv, PageTyped
    <3>3. QED
      BY <3>1, <3>2, SelectingAccount
  <2>2. CASE ~(Focus!can_select_account /\ v8[2] < v3)
    <3>1. Focus!Nothing(menu)
      BY <1>2, <2>2 DEF Focus!activate_focus
    <3>2. QED
      BY <3>1, NothingKept
  <2>3. QED
    BY <2>1, <2>2
<1>3. CASE v8[1] = "RetryAccountSelection"
  <2>1. Focus!RetryUserSelectionCancellation(menu) \/ Focus!Retry(menu)
    BY <1>3 DEF Focus!activate_focus
  <2>2. QED
    BY <2>1, RetryingCancellation, Retrying
<1>4. CASE v8[1] = "Submit"
  <2>1. Focus!Submit(menu)
    BY <1>4 DEF Focus!activate_focus
  <2>2. QED
    BY <2>1, Submitting
<1>5. CASE v8[1] = "RetryAuthentication"
  <2>1. Focus!Retry(menu)
    BY <1>5 DEF Focus!activate_focus
  <2>2. QED
    BY <2>1, Retrying
<1>6. CASE v8[1] = "ChangeUser"
  <2>1. Focus!ChangeUser(menu)
    BY <1>6 DEF Focus!activate_focus
  <2>2. QED
    BY <2>1, ChangingUser
<1>7. CASE v8[1] = "Session"
  <2>1. (Focus!can_select_session /\ Focus!cycle_session(1, menu)) \/ Focus!Nothing(menu)
    BY <1>7 DEF Focus!activate_focus
  <2>2. QED
    BY <2>1, CycleSession, NothingKept
<1>8. CASE v8[1] = "RetrySession"
  <2>1. Focus!RetrySession(menu)
    BY <1>8 DEF Focus!activate_focus
  <2>2. QED
    BY <2>1, RetryingSession
<1>9. CASE v8[1] = "Power"
  <2>1. Focus!AskPower(v8[2], menu)
    BY <1>9 DEF Focus!activate_focus
  <2>2. v8 \in Powers
    BY <1>1, <1>9 DEF Targets, Dialogs, Focus!NoFocus, Focus!Input, Focus!SessionTarget,
       Focus!AccountTarget
  <2>3. v8[2] \in Focus!Actions
    BY <2>2 DEF Powers, Focus!Power
  <2>4. QED
    BY <2>1, <2>3, AskingPower
<1>10. CASE v8[1] = "DialogCancel"
  <2>1. Focus!CancelPower \/ Focus!Nothing(menu)
    BY <1>10 DEF Focus!activate_focus
  <2>2. QED
    BY <1>1, <2>1, CancellingPower, NothingKept
<1>11. CASE v8[1] = "DialogConfirm"
  <2>1. Focus!ConfirmPower \/ Focus!Nothing(menu)
    BY <1>11 DEF Focus!activate_focus
  <2>2. QED
    BY <1>1, <2>1, ConfirmingPower, NothingKept
<1>12. CASE v8[1] \notin {"Account", "RetryAccountSelection", "Submit", "RetryAuthentication",
                          "ChangeUser", "Session", "RetrySession", "Power", "DialogCancel",
                          "DialogConfirm"}
  <2>1. Focus!Nothing(menu)
    BY <1>12 DEF Focus!activate_focus
  <2>2. QED
    BY <2>1, NothingKept
<1>13. QED
  BY <1>2, <1>3, <1>4, <1>5, <1>6, <1>7, <1>8, <1>9, <1>10, <1>11, <1>12

\* On a control that is not offered it does nothing.
LEMMA StaleActivation ==
    ASSUME NEW menu \in BOOLEAN, Handling(menu), ~v7, v8 \notin Controls,
           Focus!activate_focus(menu)
    PROVE  UNCHANGED <<v1, v2, v3, v4, v5, v6, v9>>
<1>1. PageTyped /\ v8 \in Targets /\ DialogInv /\ OfferedInv
  BY DEF Handling, FocusInv, KeysTyped
<1>2. Focus!Nothing(menu) => UNCHANGED <<v1, v2, v3, v4, v5, v6, v9>>
  BY DEF Focus!Nothing, Focus!userVars, Focus!listVars, Focus!powerVars
<1>3. CASE v1 \in Focus!Settled
  <2>1. v8 = Focus!NoFocus
    BY <1>1, <1>3 DEF OfferedInv
  <2>2. v8[1] = "None"
    BY <2>1 DEF Focus!NoFocus
  <2>3. Focus!Nothing(menu)
    BY <2>2 DEF Focus!activate_focus
  <2>4. QED
    BY <1>2, <2>3
<1>4. CASE v1 \notin Focus!Settled
  <2>1. ~Focus!Dialog /\ ~Focus!Confirming /\ Focus!Interactive
    BY <1>1, <1>4 DEF DialogInv, Focus!Interactive, Focus!Confirming, Focus!Dialog, Focus!Idle
  <2>2. /\ v1 # "SelectingUser" /\ v1 # "Failed" /\ v1 # "WaitingForInput"
        /\ v1 # "UserSelectionCancellationFailed"
    BY <1>4 DEF Focus!Settled
  <2>3. /\ ~Focus!can_select_account /\ ~Focus!can_change_user /\ ~Focus!can_request_power
    BY <1>4, <2>2 DEF Focus!can_select_account, Focus!can_change_user, Focus!can_request_power
  <2>4. /\ Focus!Retry(menu) => Focus!Nothing(menu)
        /\ Focus!Submit(menu) => Focus!Nothing(menu)
        /\ Focus!RetrySession(menu) => Focus!Nothing(menu)
        /\ Focus!ChangeUser(menu) => Focus!Nothing(menu)
        /\ Focus!AskPower(v8[2], menu) => Focus!Nothing(menu)
    BY <2>2, <2>3 DEF Focus!Retry, Focus!Submit, Focus!RetrySession, Focus!ChangeUser,
       Focus!AskPower
  <2>5. v8[1] = "Session" => ~Focus!can_select_session
    <3>1. v8[1] = "Session" => v8 = Focus!SessionTarget
      BY <1>1 DEF Targets, Dialogs, Powers, Focus!NoFocus, Focus!Input, Focus!SessionTarget,
         Focus!AccountTarget, Focus!Power
    <3>2. Focus!can_select_session => Focus!SessionTarget \in Controls
      BY <2>1 DEF Controls, Page, Where
    <3>3. QED
      BY <3>1, <3>2
  <2>6. Focus!Nothing(menu)
    BY <2>1, <2>2, <2>3, <2>4, <2>5 DEF Focus!activate_focus
  <2>7. QED
    BY <1>2, <2>6
<1>5. QED
  BY <1>3, <1>4

\* Any key of the navigation.
LEMMA Navigating ==
    ASSUME NEW menu \in BOOLEAN, Handling(menu), NEW n, Focus!navigate_focus(n, menu)
    PROVE  Handled
BY MoveFocus, MoveDirectional, Activating DEF Focus!navigate_focus

-----------------------------------------------------------------------------
(* The mail *)

\* What a step keeps.
Stepped ==
    FocusInv' /\ Focus!StaleFocusDoesNothing /\ Focus!MenuGivesWay /\ Focus!SessionIsFixed

\* A step that handles no mail has no stale key.
LEMMA NoMailHandled ==
    ASSUME v12 \in Seq(Letters), v12' = v12 \/ \E m : v12' = Append(v12, m)
    PROVE  Focus!StaleFocusDoesNothing
<1>1. ASSUME v12 # << >>
      PROVE  v12' # Tail(v12)
  <2>1. Len(Tail(v12)) = Len(v12) - 1 /\ Len(v12) \in Nat
    BY <1>1
  <2>2. Len(v12') = Len(v12) \/ Len(v12') = Len(v12) + 1
    <3>1. \A m : Len(Append(v12, m)) = Len(v12) + 1
      OBVIOUS
    <3>2. QED
      BY <3>1
  <2>3. QED
    BY <2>1, <2>2
<1>2. QED
  BY <1>1 DEF Focus!StaleFocusDoesNothing

\* The invariant, once the presses App has to hear of are still on their way.
LEMMA Delivered ==
    ASSUME FocusInv, Handled, v7' = v7, v12' \in Seq(Letters),
           (\E i \in 1 .. Len(v12) : v12[i] \in Presses)
             => \E i \in 1 .. Len(v12') : v12'[i] \in Presses
    PROVE  FocusInv'
<1>1. TypingInv'
  BY DEF FocusInv, Handled, TypingInv
<1>2. QED
  BY <1>1 DEF FocusInv, Handled

\* A step that has nothing to do with the mail.
LEMMA Unmailed ==
    ASSUME FocusInv, Handled, v7' = v7, v12' = v12
    PROVE  Stepped
<1>1. v12 \in Seq(Letters)
  BY DEF FocusInv
<1>2. FocusInv'
  BY <1>1, Delivered
<1>3. Focus!StaleFocusDoesNothing
  BY <1>1, NoMailHandled
<1>4. QED
  BY <1>2, <1>3 DEF Stepped, Handled

\* What there is in the head of the mail and in the rest.
LEMMA MailParts ==
    ASSUME v12 \in Seq(Letters), v12 # << >>
    PROVE  /\ Head(v12) \in Letters /\ Head(v12) = v12[1] /\ Tail(v12) \in Seq(Letters)
           /\ Len(Tail(v12)) = Len(v12) - 1 /\ Len(v12) \in Nat \ {0}
           /\ \A i \in 1 .. Len(v12) - 1 : Tail(v12)[i] = v12[i + 1]
OBVIOUS

\* A key that App hears of.
LEMMA KeyHandled ==
    ASSUME FocusInv, Handled, v7' = v7, v12 # << >>, v12' = Tail(v12),
           Head(v12) \notin Presses
    PROVE  FocusInv'
<1>1. v12 \in Seq(Letters)
  BY DEF FocusInv
<1>2. ASSUME NEW i \in 1 .. Len(v12), v12[i] \in Presses
      PROVE  \E k \in 1 .. Len(v12') : v12'[k] \in Presses
  <2>1. i # 1
    BY <1>1, <1>2, MailParts
  <2>2. i - 1 \in 1 .. Len(v12') /\ v12'[i - 1] = v12[i]
    BY <1>1, <1>2, <2>1, MailParts
  <2>3. QED
    BY <1>2, <2>2
<1>3. v12' \in Seq(Letters)
  BY <1>1, MailParts
<1>4. QED
  BY <1>2, <1>3, Delivered

\* The order has what is offered.
LEMMA OrderHasControls ==
    ASSUME FocusInv, NEW t
    PROVE  Focus!Contains(Focus!focus_order, t) <=> t \in Controls
<1>1. Orderly(Focus!focus_order, Controls)
  BY OrderIsOrderly DEF FocusInv, OrderFacts
<1>2. QED
  BY <1>1 DEF Orderly, Focus!Contains

\* Enter on a control that is gone.
LEMMA StaleKey ==
    ASSUME NEW menu \in BOOLEAN, Handling(menu), ~v7, NEW n, n = "Activate",
           ~Focus!Contains(Focus!focus_order, v8), Focus!navigate_focus(n, menu)
    PROVE  UNCHANGED <<v1, v2, v3, v4, v5, v6, v9>>
<1>1. v8 \notin Controls
  BY OrderHasControls DEF Handling
<1>2. Focus!activate_focus(menu)
  BY DEF Focus!navigate_focus
<1>3. QED
  BY <1>1, <1>2, StaleActivation

\* A key that the page was to have.
LEMMA KeyOnPage ==
    ASSUME FocusInv, v7' = v7, NEW n, Focus!NavigateFocus(n)
    PROVE  Handled /\ (n = "Activate" /\ ~Focus!Contains(Focus!focus_order, v8)
                         => UNCHANGED <<v1, v2, v3, v4, v5, v6, v9>>)
<1>1. v10 \in BOOLEAN
  BY DEF FocusInv, KeysTyped
<1>2. Handling(v10) /\ Handling(FALSE)
  BY DEF Handling
<1>3. CASE Focus!Interactive
  <2>1. Focus!navigate_focus(n, FALSE) /\ ~v7
    BY <1>3 DEF Focus!NavigateFocus, Focus!Interactive
  <2>2. Handled
    BY <1>2, <2>1, Navigating
  <2>3. QED
    BY <1>2, <2>1, <2>2, StaleKey
<1>4. CASE ~Focus!Interactive
  <2>1. Focus!Nothing(v10)
    BY <1>4 DEF Focus!NavigateFocus
  <2>2. UNCHANGED <<v1, v2, v3, v4, v5, v6, v9>>
    BY <2>1 DEF Focus!Nothing, Focus!userVars, Focus!listVars, Focus!powerVars
  <2>3. QED
    BY <1>1, <1>2, <2>1, <2>2, NothingKept
<1>5. QED
  BY <1>3, <1>4

\* A key that the dialog was to have.
LEMMA KeyOnDialog ==
    ASSUME FocusInv, v7' = v7, NEW n, Focus!NavigateModal(n)
    PROVE  Handled /\ (n = "Activate" /\ ~Focus!Contains(Focus!focus_order, v8)
                         => UNCHANGED <<v1, v2, v3, v4, v5, v6, v9>>)
<1>1. v10 \in BOOLEAN
  BY DEF FocusInv, KeysTyped
<1>2. Handling(v10)
  BY DEF Handling
<1>3. CASE ~v7 /\ Focus!Confirming
  <2>1. Focus!navigate_focus(n, v10)
    BY <1>3 DEF Focus!NavigateModal
  <2>2. Handled
    BY <1>1, <1>2, <2>1, Navigating
  <2>3. QED
    BY <1>1, <1>2, <1>3, <2>1, <2>2, StaleKey
<1>4. CASE ~(~v7 /\ Focus!Confirming)
  <2>1. Focus!Nothing(v10)
    BY <1>4 DEF Focus!NavigateModal
  <2>2. UNCHANGED <<v1, v2, v3, v4, v5, v6, v9>>
    BY <2>1 DEF Focus!Nothing, Focus!userVars, Focus!listVars, Focus!powerVars
  <2>3. QED
    BY <1>1, <1>2, <2>1, <2>2, NothingKept
<1>5. QED
  BY <1>3, <1>4

\* App loses or finds the focus of the input on a page that stays.
LEMMA InputFocus ==
    ASSUME FocusInv, UNCHANGED <<v1, v2, v3, v4, v5, v6, v7, v9, v10>>,
           v11' \in BOOLEAN, v11' => v1 = "WaitingForInput" /\ ~Focus!Dialog,
           v8' \in {v8, Focus!NoFocus} \/ (v8' = Focus!Input /\ Focus!Input \in Controls)
    PROVE  /\ PageTyped' /\ KeysTyped' /\ DialogInv' /\ SeveralInv' /\ OfferedInv'
           /\ Focus!MenuGivesWay /\ Focus!SessionIsFixed
<1>1. Controls' = Controls /\ Focus!Dialog' = Focus!Dialog
  BY SameControls DEF Focus!Dialog
<1>2. PageTyped' /\ KeysTyped'
  BY DEF FocusInv, PageTyped, KeysTyped, Targets
<1>3. DialogInv' /\ SeveralInv' /\ OfferedInv'
  BY <1>1 DEF FocusInv, DialogInv, SeveralInv, OfferedInv
<1>4. Focus!MenuGivesWay /\ Focus!SessionIsFixed
  BY <1>1 DEF FocusInv, DialogInv, Focus!MenuGivesWay, Focus!SessionIsFixed
<1>5. QED
  BY <1>2, <1>3, <1>4

\* The input can have the focus while App waits for it.
LEMMA InputIsOffered ==
    ASSUME FocusInv, Focus!Interactive, v1 = "WaitingForInput"
    PROVE  Focus!Input \in Controls
BY DEF Controls, Page, Where, Focus!Interactive, Focus!Confirming, Focus!Dialog, Focus!Idle,
       FocusInv, PageTyped

\* App asks which widget has the focus of iced after a press.
LEMMA SyncingFocus ==
    ASSUME FocusInv, v12 # << >>, v7' = v7, Head(v12)[1] = "SyncWidgetFocus",
           Focus!SyncWidgetFocus
    PROVE  Stepped
<1>1. /\ UNCHANGED <<v1, v2, v3, v4, v5, v6, v7, v9, v10, v11>>
      /\ v8' = IF Focus!Interactive /\ v8 = Focus!Input THEN Focus!NoFocus ELSE v8
      /\ v12' = Tail(v12) \o Focus!If(Focus!Interactive /\ v11, << <<"WidgetFocused", "">> >>)
  BY DEF Focus!SyncWidgetFocus, Focus!userVars, Focus!listVars, Focus!powerVars
<1>2. /\ v12 \in Seq(Letters) /\ v11 \in BOOLEAN /\ Tail(v12) \in Seq(Letters)
      /\ v11 => v1 = "WaitingForInput" /\ ~Focus!Dialog
  BY MailParts DEF FocusInv, KeysTyped, TypingInv, DialogInv
<1>3. /\ PageTyped' /\ KeysTyped' /\ DialogInv' /\ SeveralInv' /\ OfferedInv'
      /\ Focus!MenuGivesWay /\ Focus!SessionIsFixed
  BY <1>1, <1>2, InputFocus
<1> DEFINE w == <<"WidgetFocused", "">>
<1>4. w \in Letters /\ w \in Presses
  BY DEF Letters, Presses
<1> HIDE DEF w
<1>5. v12' \in Seq(Letters) /\ (Focus!Interactive /\ v11 => \E i \in 1 .. Len(v12') : v12'[i] = w)
  <2>1. CASE Focus!Interactive /\ v11
    <3>1. v12' = Tail(v12) \o <<w>>
      BY <1>1, <2>1 DEF Focus!If, w
    <3>2. /\ v12' \in Seq(Letters) /\ Len(v12') = Len(Tail(v12)) + 1
          /\ v12'[Len(Tail(v12)) + 1] = w /\ Len(Tail(v12)) \in Nat
      BY <1>2, <1>4, <3>1
    <3>3. Len(Tail(v12)) + 1 \in 1 .. Len(v12')
      BY <3>2
    <3>4. QED
      BY <3>2, <3>3
  <2>2. CASE ~(Focus!Interactive /\ v11)
    <3>1. v12' = Tail(v12) \o << >>
      BY <1>1, <2>2 DEF Focus!If
    <3>2. QED
      BY <1>2, <2>2, <3>1
  <2>3. QED
    BY <2>1, <2>2
<1>6. TypingInv'
  <2>1. ASSUME v11, ~v7
        PROVE  \E i \in 1 .. Len(v12') : v12'[i] \in Presses
    BY <1>2, <1>4, <1>5, <2>1 DEF Focus!Interactive
  <2>2. v11' => v11 /\ v1' = "WaitingForInput"
    BY <1>1, <1>2
  <2>3. ~v7' => ~v7
    BY Zenon
  <2>4. QED
    BY <2>1, <2>2, <2>3 DEF TypingInv
<1>7. Focus!StaleFocusDoesNothing
  BY <1>1 DEF Focus!StaleFocusDoesNothing, Focus!userVars, Focus!listVars, Focus!powerVars
<1>8. QED
  BY <1>3, <1>5, <1>6, <1>7 DEF FocusInv, Stepped

\* The answer: the input has it.
LEMMA ApplyingFocus ==
    ASSUME FocusInv, v12 # << >>, v7' = v7, v12' = Tail(v12), Focus!apply_widget_focus
    PROVE  Stepped
<1>1. /\ UNCHANGED <<v1, v2, v3, v4, v5, v6, v7, v9, v10, v11>>
      /\ v8' = IF Focus!Interactive /\ v1 = "WaitingForInput" THEN Focus!Input ELSE v8
  BY DEF Focus!apply_widget_focus, Focus!userVars, Focus!listVars, Focus!powerVars
<1>2. /\ v12' \in Seq(Letters) /\ v11 \in BOOLEAN
      /\ v11 => v1 = "WaitingForInput" /\ ~Focus!Dialog
  BY MailParts DEF FocusInv, KeysTyped, TypingInv, DialogInv
<1>3. /\ PageTyped' /\ KeysTyped' /\ DialogInv' /\ SeveralInv' /\ OfferedInv'
      /\ Focus!MenuGivesWay /\ Focus!SessionIsFixed
  BY <1>1, <1>2, InputFocus, InputIsOffered
<1>4. TypingInv'
  BY <1>1, <1>2 DEF TypingInv, Focus!Interactive
<1>5. Focus!StaleFocusDoesNothing
  BY <1>1 DEF Focus!StaleFocusDoesNothing, Focus!userVars, Focus!listVars, Focus!powerVars
<1>6. QED
  BY <1>2, <1>3, <1>4, <1>5 DEF FocusInv, Stepped

\* App hears of a press.
LEMMA HandlingMail ==
    ASSUME FocusInv, Focus!HandleMail
    PROVE  Stepped
<1> DEFINE m == Head(v12)
<1>1. v12 # << >> /\ v7' = v7 /\ v12 \in Seq(Letters) /\ m \in Letters
  BY MailParts DEF Focus!HandleMail, FocusInv
<1>2. ASSUME m[1] \in {"NavigateFocus", "NavigateModal"}, v12' = Tail(v12),
             Handled, m[2] = "Activate" /\ ~Focus!Contains(Focus!focus_order, v8)
                        => UNCHANGED <<v1, v2, v3, v4, v5, v6, v9>>
      PROVE  Stepped
  <2> HIDE DEF m
  <2>1. m \notin Presses
    <3>1. m[1] \in {"NavigateFocus", "NavigateModal"}
      BY <1>2
    <3>2. QED
      BY <3>1 DEF Presses
  <2> USE DEF m
  <2>2. FocusInv'
    BY <1>1, <1>2, <2>1, KeyHandled
  <2>3. Focus!StaleFocusDoesNothing
    BY <1>2 DEF Focus!StaleFocusDoesNothing, Focus!userVars, Focus!listVars, Focus!powerVars
  <2>4. QED
    BY <1>2, <2>2, <2>3 DEF Stepped, Handled
<1>3. CASE m[1] = "NavigateFocus" /\ Focus!NavigateFocus(m[2]) /\ v12' = Tail(v12)
  <2>1. Handled /\ (m[2] = "Activate" /\ ~Focus!Contains(Focus!focus_order, v8)
                      => UNCHANGED <<v1, v2, v3, v4, v5, v6, v9>>)
    BY <1>1, <1>3, KeyOnPage
  <2>2. QED
    BY <1>2, <1>3, <2>1
<1>4. CASE m[1] = "NavigateModal" /\ Focus!NavigateModal(m[2]) /\ v12' = Tail(v12)
  <2>1. Handled /\ (m[2] = "Activate" /\ ~Focus!Contains(Focus!focus_order, v8)
                      => UNCHANGED <<v1, v2, v3, v4, v5, v6, v9>>)
    BY <1>1, <1>4, KeyOnDialog
  <2>2. QED
    BY <1>2, <1>4, <2>1
<1>5. CASE m[1] = "SyncWidgetFocus" /\ Focus!SyncWidgetFocus
  BY <1>1, <1>5, SyncingFocus
<1>6. CASE m[1] = "WidgetFocused" /\ Focus!apply_widget_focus /\ v12' = Tail(v12)
  BY <1>1, <1>6, ApplyingFocus
<1>7. QED
  BY <1>3, <1>4, <1>5, <1>6 DEF Focus!HandleMail

\* The presses that are on their way stay so.
LEMMA Mailed ==
    ASSUME v12 \in Seq(Letters), NEW m \in Letters, v12' = Append(v12, m)
    PROVE  /\ v12' \in Seq(Letters) /\ \E i \in 1 .. Len(v12') : v12'[i] = m
           /\ \A i \in 1 .. Len(v12) : i \in 1 .. Len(v12') /\ v12'[i] = v12[i]
           /\ Focus!StaleFocusDoesNothing
<1>1. /\ v12' \in Seq(Letters) /\ Len(v12') = Len(v12) + 1 /\ v12'[Len(v12) + 1] = m
      /\ \A i \in 1 .. Len(v12) : v12'[i] = v12[i]
      /\ Len(v12) \in Nat
  OBVIOUS
<1>2. Len(v12) + 1 \in 1 .. Len(v12')
  BY <1>1
<1>3. \E x : v12' = Append(v12, x)
  OBVIOUS
<1>4. Focus!StaleFocusDoesNothing
  BY <1>3, NoMailHandled
<1>5. QED
  BY <1>1, <1>2, <1>4

\* A key is pressed.
LEMMA PressingKey ==
    ASSUME FocusInv, NEW n \in Focus!Navigation, Focus!PressKey(n)
    PROVE  Stepped
<1>1. UNCHANGED <<v1, v2, v3, v4, v5, v6, v7, v8, v9, v10, v11>>
  BY DEF Focus!PressKey, Focus!userVars, Focus!listVars, Focus!powerVars, Focus!focusVars
<1>2. PICK captured \in Focus!Captured :
        v12' = Append(v12, <<IF captured THEN "NavigateModal" ELSE "NavigateFocus", n>>)
  BY DEF Focus!PressKey
<1> DEFINE m == <<IF captured THEN "NavigateModal" ELSE "NavigateFocus", n>>
<1>3. m \in Letters
  BY DEF Letters
<1> HIDE DEF m
<1>4. /\ v12 \in Seq(Letters) /\ v11 \in BOOLEAN
      /\ v11 => v1 = "WaitingForInput" /\ ~Focus!Dialog
  BY DEF FocusInv, KeysTyped, TypingInv, DialogInv
<1>5. v12' = Append(v12, m)
  BY <1>2 DEF m
<1>6. /\ v12' \in Seq(Letters) /\ Focus!StaleFocusDoesNothing
      /\ \A i \in 1 .. Len(v12) : i \in 1 .. Len(v12') /\ v12'[i] = v12[i]
  BY <1>3, <1>4, <1>5, Mailed
<1>7. /\ PageTyped' /\ KeysTyped' /\ DialogInv' /\ SeveralInv' /\ OfferedInv'
      /\ Focus!MenuGivesWay /\ Focus!SessionIsFixed
  BY <1>1, <1>4, InputFocus
<1>8. TypingInv'
  BY <1>1, <1>6 DEF FocusInv, TypingInv
<1>9. QED
  BY <1>6, <1>7, <1>8 DEF FocusInv, Stepped

\* A press of the pointer may take the focus of iced to the input, or from it.
LEMMA PressingPointer ==
    ASSUME FocusInv, NEW onInput \in BOOLEAN, Focus!PressPointer(onInput)
    PROVE  Stepped
<1>1. UNCHANGED <<v1, v2, v3, v4, v5, v6, v7, v8, v9, v10>>
  BY DEF Focus!PressPointer, Focus!userVars, Focus!listVars, Focus!powerVars
<1> DEFINE m == <<"SyncWidgetFocus", "">>
<1>2. m \in Letters /\ m \in Presses
  BY DEF Letters, Presses
<1>3. v12' = Append(v12, m)
  BY DEF Focus!PressPointer
<1> HIDE DEF m
<1>4. /\ v11' \in BOOLEAN /\ (v11' => v1 = "WaitingForInput" /\ ~Focus!Dialog)
      /\ v12 \in Seq(Letters)
  BY DEF Focus!PressPointer, Focus!blocks_background, FocusInv, KeysTyped, DialogInv
<1>5. /\ v12' \in Seq(Letters) /\ Focus!StaleFocusDoesNothing
      /\ \E i \in 1 .. Len(v12') : v12'[i] = m
  BY <1>2, <1>3, <1>4, Mailed
<1>6. /\ PageTyped' /\ KeysTyped' /\ DialogInv' /\ SeveralInv' /\ OfferedInv'
      /\ Focus!MenuGivesWay /\ Focus!SessionIsFixed
  BY <1>1, <1>4, InputFocus
<1>7. TypingInv'
  BY <1>1, <1>2, <1>4, <1>5 DEF TypingInv
<1>8. QED
  BY <1>5, <1>6, <1>7 DEF FocusInv, Stepped

-----------------------------------------------------------------------------
(* Clicks *)

\* A step of the input on the page, seen by App at once.
LEMMA InputUsed ==
    ASSUME FocusInv, UNCHANGED <<v1, v2, v3, v4, v5, v6, v7, v9, v10, v12>>,
           \/ Focus!Interactive /\ v1 = "WaitingForInput" /\ v8' = Focus!Input /\ v11' = v11
           \/ v8' \in {v8, Focus!NoFocus} /\ v11' = FALSE
    PROVE  Stepped
<1>1. /\ v12 \in Seq(Letters) /\ v11' \in BOOLEAN
      /\ v11' => v1 = "WaitingForInput" /\ ~Focus!Dialog
  BY DEF FocusInv, KeysTyped, Focus!Interactive
<1>2. /\ PageTyped' /\ KeysTyped' /\ DialogInv' /\ SeveralInv' /\ OfferedInv'
      /\ Focus!MenuGivesWay /\ Focus!SessionIsFixed
  BY <1>1, InputFocus, InputIsOffered
<1>3. TypingInv' /\ Focus!StaleFocusDoesNothing
  BY <1>1, NoMailHandled DEF TypingInv
<1>4. QED
  BY <1>1, <1>2, <1>3 DEF FocusInv, Stepped

\* The state with the session menu closed.
LEMMA MenuClosed ==
    ASSUME FocusInv, v7' = v7, v12' = v12, Focus!Nothing(FALSE)
    PROVE  Stepped
<1>1. Handling(FALSE)
  BY DEF Handling
<1>2. QED
  BY <1>1, NothingKept, Unmailed

\* The user types.
LEMMA Changing ==
    ASSUME FocusInv, v7' = v7, v12' = v12, Focus!InputChanged
    PROVE  Stepped
BY InputUsed DEF Focus!InputChanged, Focus!userVars, Focus!listVars, Focus!powerVars

\* Escape: the dialog, the menu or the input gives way.
LEMMA Escaping ==
    ASSUME FocusInv, v7' = v7, v12' = v12, Focus!Escape
    PROVE  Stepped
<1>1. v10 \in BOOLEAN /\ Handling(v10)
  BY DEF FocusInv, KeysTyped, Handling
<1>2. CASE Focus!Confirming
  <2>1. Focus!CancelPower
    BY <1>2 DEF Focus!Escape
  <2>2. QED
    BY <2>1, CancellingPower, Unmailed
<1>3. CASE ~Focus!Confirming /\ Focus!Interactive /\ v10
  BY <1>3, MenuClosed DEF Focus!Escape
<1>4. CASE ~Focus!Confirming /\ Focus!Interactive /\ ~v10 /\ v1 = "WaitingForInput"
  <2>1. /\ UNCHANGED <<v1, v2, v3, v4, v5, v6, v7, v9, v10, v12>>
        /\ v8' \in {v8, Focus!NoFocus} /\ v11' = FALSE
    BY <1>1, <1>4 DEF Focus!Escape, Focus!userVars, Focus!listVars, Focus!powerVars
  <2>2. QED
    BY <2>1, InputUsed
<1>5. CASE ~Focus!Confirming /\ ~(Focus!Interactive /\ v10)
             /\ ~(Focus!Interactive /\ v1 = "WaitingForInput")
  <2>1. Focus!Nothing(v10)
    BY <1>5 DEF Focus!Escape
  <2>2. QED
    BY <1>1, <2>1, NothingKept, Unmailed
<1>6. QED
  BY <1>2, <1>3, <1>4, <1>5

\* The session can have the focus while it can be selected.
LEMMA SessionIsOffered ==
    ASSUME FocusInv, Focus!can_select_session
    PROVE  Focus!SessionTarget \in Controls /\ Focus!SessionTarget \in Targets
BY DEF Controls, Page, Where, Focus!can_select_session, Focus!Interactive, Focus!Confirming,
       Focus!Dialog, Focus!Idle, FocusInv, PageTyped, Targets

\* A session of the menu is selected.
LEMMA SelectingSession ==
    ASSUME FocusInv, v7' = v7, v12' = v12, NEW i \in 1 .. v4, Focus!SelectSession(i)
    PROVE  Stepped
<1>1. /\ v5' = i /\ UNCHANGED <<v1, v2, v3, v4, v6, v7, v9>> /\ Focus!can_select_session
      /\ Focus!set_focus(Focus!SessionTarget, FALSE)
  BY DEF Focus!SelectSession, Focus!userVars, Focus!powerVars
<1>2. /\ v5' \in 0 .. v4 /\ v5' # 0 /\ v5 # 0 /\ v1 \notin {"Authenticating", "StartingSession"}
      /\ Handling(FALSE) /\ MaxSessions \in Nat /\ v4 \in 0 .. MaxSessions
  BY <1>1, FocusIsBounded DEF Focus!can_select_session, Handling, Focus!FocusAssumption,
     FocusInv, PageTyped
<1>3. Handled
  BY <1>1, <1>2, SessionIsOffered, Moving
<1>4. QED
  BY <1>3, Unmailed

\* The menu opens.
LEMMA OpeningMenu ==
    ASSUME FocusInv, v7' = v7, v12' = v12, Focus!SessionMenuOpened
    PROVE  Stepped
<1>1. /\ UNCHANGED <<v1, v2, v3, v4, v5, v6, v7, v9>> /\ Focus!can_select_session
      /\ Focus!set_focus(Focus!SessionTarget, TRUE)
  BY DEF Focus!SessionMenuOpened, Focus!userVars, Focus!listVars, Focus!powerVars
<1>2. /\ PageTyped' /\ v9' \in {Focus!NoFocus} \cup Powers /\ Controls' = Controls
      /\ Focus!Dialog' = Focus!Dialog /\ ~Focus!Dialog
  BY <1>1, SameControls DEF FocusInv, PageTyped, KeysTyped, Focus!Dialog,
     Focus!can_select_session, Focus!Interactive
<1>3. Focus!SessionTarget \in Controls' /\ Focus!SessionTarget \in Targets
  BY <1>1, <1>2, SessionIsOffered
<1>4. KeysTyped' /\ OfferedInv' /\ (v11' => v1' = "WaitingForInput" /\ v8' = Focus!Input)
  BY <1>1, <1>2, <1>3, FocusGoes
<1>5. DialogInv' /\ SeveralInv' /\ Focus!MenuGivesWay /\ Focus!SessionIsFixed
  BY <1>1, <1>2 DEF FocusInv, DialogInv, SeveralInv, Focus!MenuGivesWay, Focus!SessionIsFixed
<1>6. Handled
  BY <1>2, <1>4, <1>5 DEF Handled
<1>7. QED
  BY <1>6, Unmailed

\* What the widgets say.
LEMMA Clicking ==
    ASSUME FocusInv, Focus!Click
    PROVE  Stepped
<1>1. v10 \in BOOLEAN /\ Handling(v10) /\ v7' = v7 /\ v12' = v12
  BY DEF FocusInv, KeysTyped, Handling, Focus!Click
<1>2. CASE \/ Focus!Submit(v10) \/ Focus!Retry(v10) \/ Focus!ChangeUser(v10)
           \/ Focus!RetrySession(v10) \/ Focus!RetryUserSelectionCancellation(v10)
  <2>1. Handled
    BY <1>1, <1>2, Submitting, Retrying, ChangingUser, RetryingSession, RetryingCancellation
  <2>2. QED
    BY <1>1, <2>1, Unmailed
<1>3. CASE Focus!can_select_account /\ Focus!select_account /\ UNCHANGED v3
  <2>1. /\ ~Focus!Dialog /\ v1 \notin {"Authenticating", "StartingSession"}
        /\ v3' \in 0 .. MaxAccounts
    BY <1>3 DEF Focus!can_select_account, Focus!Interactive, FocusInv, PageTyped
  <2>2. QED
    BY <1>1, <1>3, <2>1, SelectingAccount, Unmailed
<1>4. CASE \E a \in Focus!Actions : Focus!can_request_power /\ Focus!AskPower(a, v10)
  BY <1>1, <1>4, AskingPower, Unmailed
<1>5. CASE Focus!CancelPower \/ Focus!ConfirmPower
  BY <1>1, <1>5, CancellingPower, ConfirmingPower, Unmailed
<1>6. CASE \E i \in 1 .. v4 : Focus!SelectSession(i)
  BY <1>1, <1>6, SelectingSession
<1>7. CASE Focus!SessionMenuOpened
  BY <1>1, <1>7, OpeningMenu
<1>8. CASE Focus!CloseMenu
  BY <1>1, <1>8, MenuClosed DEF Focus!CloseMenu
<1>9. CASE Focus!InputChanged \/ Focus!Escape
  BY <1>1, <1>9, Changing, Escaping
<1>10. QED
  BY <1>2, <1>3, <1>4, <1>5, <1>6, <1>7, <1>8, <1>9 DEF Focus!Click

-----------------------------------------------------------------------------
(* Replies *)

\* A page that comes in place of a wait, with the focus on one of its controls.
LEMMA PageComes ==
    ASSUME FocusInv, v7' = v7, v1 \in Focus!Asleep,
           v1' \in {"WaitingForInput", "SelectingUser", "UserSelectionCancellationFailed"},
           PageTyped', UNCHANGED <<v4, v5, v6, v9>>, SeveralInv',
           NEW t \in Targets, t \in Controls', t # Focus!SessionTarget, Focus!set_focus(t, v10)
    PROVE  Handled
<1>1. v10 \in BOOLEAN /\ v9' \in {Focus!NoFocus} \cup Powers /\ ~Focus!Dialog'
  BY DEF FocusInv, KeysTyped, DialogInv, Focus!Dialog, Focus!Asleep, Focus!Settled
<1>2. /\ KeysTyped' /\ OfferedInv' /\ (v11' => v1' = "WaitingForInput" /\ v8' = Focus!Input)
      /\ v8' = t /\ (v10' => t = Focus!SessionTarget)
  BY <1>1, FocusGoes
<1>3. DialogInv' /\ Focus!MenuGivesWay /\ Focus!SessionIsFixed
  BY <1>1, <1>2 DEF DialogInv, Focus!MenuGivesWay, Focus!SessionIsFixed
<1>4. QED
  BY <1>2, <1>3 DEF Handled

\* greetd answers the conversation.
LEMMA AuthAnswered ==
    ASSUME FocusInv, ~v7, v7' = v7, Focus!AuthResult
    PROVE  Handled
<1>1. /\ v10 \in BOOLEAN /\ Handling(v10) /\ ~Focus!Dialog /\ v1 \in Focus!Asleep
      /\ v1 \in {"CreatingSession", "Authenticating", "StartingSession"}
      /\ UNCHANGED <<v2, v3>>
  BY DEF FocusInv, KeysTyped, Handling, DialogInv, Focus!AuthResult, Focus!Asleep,
     Focus!Settled, Focus!userVars
<1>2. CASE /\ Focus!GoTo("WaitingForInput") /\ UNCHANGED <<Focus!listVars, Focus!powerVars>>
           /\ Focus!set_focus(Focus!Input, v10)
  <2>1. /\ v1' = "WaitingForInput" /\ UNCHANGED <<v4, v5, v6, v9>>
        /\ Focus!set_focus(Focus!Input, v10)
    BY <1>2 DEF Focus!GoTo, Focus!listVars, Focus!powerVars
  <2>2. PageTyped' /\ SeveralInv'
    BY <1>1, <2>1 DEF FocusInv, PageTyped, SeveralInv, Focus!Settled
  <2>3. ~v7' /\ ~Focus!Dialog' /\ ~Focus!Confirming'
    BY <1>1, <2>1 DEF Focus!Dialog, Focus!Confirming, Focus!Idle
  <2>4. Focus!Input \in Controls' /\ Focus!Input \in Targets /\ Focus!Input # Focus!SessionTarget
    BY <2>1, <2>3 DEF Controls, Page, Where, Focus!Interactive, Targets, Focus!Input,
       Focus!SessionTarget
  <2>5. QED
    BY <1>1, <2>1, <2>2, <2>4, PageComes
<1>3. CASE /\ v1 # "StartingSession" /\ Focus!GoTo("StartingSession")
           /\ Focus!keep_focus(v10) /\ UNCHANGED <<Focus!listVars, Focus!powerVars>>
  <2>1. /\ v1' = "StartingSession" /\ UNCHANGED <<v4, v5, v6, v9>> /\ Focus!keep_focus(v10)
    BY <1>3 DEF Focus!GoTo, Focus!listVars, Focus!powerVars
  <2>2. PageTyped' /\ v1' \in Focus!Asleep
    BY <1>1, <2>1 DEF FocusInv, PageTyped, Focus!Asleep
  <2>3. QED
    BY <1>1, <2>1, <2>2, Keeping
<1>4. CASE Focus!fail(v10)
  BY <1>1, <1>4, Failing
<1>5. QED
  BY <1>2, <1>3, <1>4 DEF Focus!AuthResult

\* A list of users offers the first of them.
LEMMA FirstAccountOffered ==
    ASSUME PageTyped', v1' = "SelectingUser", v3' > 1, ~v7', UNCHANGED v6, ~Focus!Dialog
    PROVE  /\ Focus!AccountTarget(0) \in Controls' /\ Focus!AccountTarget(0) \in Targets
           /\ Focus!AccountTarget(0) # Focus!SessionTarget
<1>1. Focus!Interactive' /\ ~Focus!Confirming' /\ Focus!can_select_account'
  BY DEF Focus!Interactive, Focus!Dialog, Focus!Confirming, Focus!Idle, Focus!can_select_account
<1>2. 1 \in 1 .. v3' /\ 0 \in 0 .. MaxAccounts - 1
  BY FocusIsBounded DEF PageTyped, Focus!FocusAssumption
<1>3. Focus!AccountTarget(0) \in Accounted'
  BY <1>2 DEF Accounted, Focus!AccountTarget
<1>4. QED
  BY <1>1, <1>2, <1>3 DEF Controls, Page, Where, Targets, Focus!AccountTarget,
     Focus!SessionTarget

\* AccountsService answers.
LEMMA AccountsAnswered ==
    ASSUME FocusInv, ~v7, v7' = v7, Focus!AccountsResult
    PROVE  Handled
<1>1. /\ v10 \in BOOLEAN /\ Handling(v10) /\ ~Focus!Dialog /\ v1 \in Focus!Asleep
      /\ v1 = "DiscoveringUsers" /\ MaxAccounts \in Nat
  BY FocusIsBounded DEF FocusInv, KeysTyped, Handling, DialogInv, Focus!AccountsResult,
     Focus!Asleep, Focus!Settled, Focus!FocusAssumption
<1>2. CASE Focus!fail(v10)
  BY <1>1, <1>2, Failing
<1>3. CASE \E n \in 1 .. MaxAccounts : v3' = n /\ Focus!select_account
  BY <1>1, <1>3, SelectingAccount
<1>4. CASE \E n \in 2 .. MaxAccounts :
             /\ v3' = n /\ Focus!GoTo("SelectingUser")
             /\ Focus!set_focus(Focus!AccountTarget(0), v10)
             /\ UNCHANGED <<v2, Focus!listVars, Focus!powerVars>>
  <2>1. /\ v3' \in 2 .. MaxAccounts /\ v1' = "SelectingUser" /\ UNCHANGED <<v2, v4, v5, v6, v9>>
        /\ Focus!set_focus(Focus!AccountTarget(0), v10)
    BY <1>4 DEF Focus!GoTo, Focus!listVars, Focus!powerVars
  <2>2. PageTyped' /\ SeveralInv'
    BY <1>1, <2>1 DEF FocusInv, PageTyped, SeveralInv, Focus!Settled
  <2>3. /\ Focus!AccountTarget(0) \in Controls' /\ Focus!AccountTarget(0) \in Targets
        /\ Focus!AccountTarget(0) # Focus!SessionTarget
    BY <1>1, <2>1, <2>2, FirstAccountOffered
  <2>4. QED
    BY <1>1, <2>1, <2>2, <2>3, PageComes
<1>5. QED
  BY <1>2, <1>3, <1>4 DEF Focus!AccountsResult

\* greetd answers the cancellation.
LEMMA CancellationAnswered ==
    ASSUME FocusInv, ~v7, v7' = v7, Focus!UserSelectionCancelled
    PROVE  Handled
<1>1. /\ ~Focus!Dialog /\ v1 \in Focus!Asleep /\ UNCHANGED <<v2, v3, v4, v5, v6, v9>>
      /\ v1 = "CancellingForUserSelection" /\ v3 > 1 /\ v3 \in 0 .. MaxAccounts
  BY DEF FocusInv, Focus!UserSelectionCancelled, Focus!Asleep, Focus!userVars, Focus!listVars,
     Focus!powerVars, SeveralInv, PageTyped
<1>2. CASE Focus!GoTo("SelectingUser") /\ Focus!set_focus(Focus!AccountTarget(0), v10)
  <2>1. PageTyped' /\ SeveralInv' /\ v1' = "SelectingUser"
    BY <1>1, <1>2 DEF FocusInv, PageTyped, SeveralInv, Focus!Settled, Focus!GoTo
  <2>2. /\ Focus!AccountTarget(0) \in Controls' /\ Focus!AccountTarget(0) \in Targets
        /\ Focus!AccountTarget(0) # Focus!SessionTarget
    BY <1>1, <2>1, FirstAccountOffered
  <2>3. QED
    BY <1>1, <1>2, <2>1, <2>2, PageComes
<1>3. CASE /\ Focus!GoTo("UserSelectionCancellationFailed")
           /\ Focus!set_focus(<<"RetryAccountSelection">>, v10)
  <2>1. PageTyped' /\ SeveralInv' /\ v1' = "UserSelectionCancellationFailed"
    BY <1>1, <1>3 DEF FocusInv, PageTyped, SeveralInv, Focus!Settled, Focus!GoTo
  <2>2. Focus!Interactive' /\ ~Focus!Confirming'
    BY <1>1 DEF Focus!Interactive, Focus!Dialog, Focus!Confirming, Focus!Idle
  <2>3. /\ <<"RetryAccountSelection">> \in Controls' /\ <<"RetryAccountSelection">> \in Targets
        /\ <<"RetryAccountSelection">> # Focus!SessionTarget
    BY <2>1, <2>2 DEF Controls, Page, Where, Targets, Focus!SessionTarget
  <2>4. QED
    BY <1>1, <1>3, <2>1, <2>3, PageComes
<1>4. QED
  BY <1>2, <1>3 DEF Focus!UserSelectionCancelled

\* Any reply.
LEMMA Replying ==
    ASSUME FocusInv, Focus!Reply
    PROVE  Stepped
<1>1. ~v7 /\ v7' = v7 /\ v12' = v12
  BY DEF Focus!Reply
<1>3. Focus!PowerResult => Handled
  BY LeavingDialog DEF Focus!PowerResult, Focus!Dialog, Focus!Idle
<1>4. Handled
  BY <1>1, <1>3, AuthAnswered, AccountsAnswered, CancellationAnswered DEF Focus!Reply
<1>5. QED
  BY <1>1, <1>4, Unmailed

\* The window is asked to close.
LEMMA Closing ==
    ASSUME FocusInv, Focus!CloseRequested
    PROVE  Stepped
<1>1. v7' = TRUE /\ UNCHANGED <<v1, v2, v3, v4, v5, v6, v8, v9, v10, v11, v12>>
  BY DEF Focus!CloseRequested, Focus!userVars, Focus!listVars, Focus!powerVars, Focus!focusVars
<1>2. Focus!Dialog' = Focus!Dialog
  BY <1>1 DEF Focus!Dialog
<1>3. PageTyped' /\ KeysTyped' /\ DialogInv' /\ SeveralInv' /\ TypingInv' /\ OfferedInv'
  BY <1>1, <1>2 DEF FocusInv, PageTyped, KeysTyped, DialogInv, SeveralInv, TypingInv, OfferedInv
<1>4. /\ v12 \in Seq(Letters) /\ Focus!MenuGivesWay /\ Focus!SessionIsFixed
  BY <1>1, <1>2 DEF FocusInv, DialogInv, Focus!MenuGivesWay, Focus!SessionIsFixed
<1>5. Focus!StaleFocusDoesNothing
  BY <1>1, <1>4, NoMailHandled
<1>6. QED
  BY <1>1, <1>3, <1>4, <1>5 DEF FocusInv, Stepped

\* The focus of the other parts stands still.
LEMMA FocusStands ==
    ASSUME FocusInv, UNCHANGED pool
    PROVE  Stepped
<1>1. UNCHANGED <<v1, v2, v3, v4, v5, v6, v7, v8, v9, v10, v11, v12>>
  BY DEF pool
<1>2. Handling(v10) /\ v10 \in BOOLEAN /\ Focus!Nothing(v10)
  BY <1>1 DEF Handling, FocusInv, KeysTyped, TypingInv, Focus!Nothing, Focus!keep_focus,
     Focus!userVars, Focus!listVars, Focus!powerVars
<1>3. QED
  BY <1>1, <1>2, NothingKept, Unmailed

\* Every step of the focus keeps the invariant.
LEMMA FocusNext ==
    ASSUME FocusInv, Focus!Next
    PROVE  Stepped
BY HandlingMail, PressingKey, PressingPointer, Clicking, Replying, Closing DEF Focus!Next

\* The focus starts with it.
LEMMA FocusStarts == Focus!Init => FocusInv
<1> SUFFICES ASSUME Focus!Init
             PROVE  FocusInv
  OBVIOUS
<1>1. PICK n \in 0 .. MaxSessions : v4 = n /\ v5 = IF n = 0 THEN 0 ELSE 1
  BY DEF Focus!Init
<1>2. v5 \in 0 .. v4 /\ v4 \in 0 .. MaxSessions
  BY <1>1, FocusIsBounded DEF Focus!FocusAssumption
<1>3. PageTyped
  <2>1. MaxAccounts \in Nat \ {0}
    BY FocusIsBounded DEF Focus!FocusAssumption
  <2>2. v2 \in BOOLEAN /\ v3 \in {0, 1}
    BY DEF Focus!Init
  <2>3. v1 \in {"Failed", "CreatingSession", "DiscoveringUsers"}
    BY DEF Focus!Init
  <2>4. v6 = Focus!Idle /\ v7 = FALSE
    BY DEF Focus!Init
  <2>5. v1 \in Focus!Asleep \cup Focus!Settled
    BY <2>3 DEF Focus!Asleep, Focus!Settled
  <2>6. v3 \in 0 .. MaxAccounts
    BY <2>1, <2>2
  <2>7. v6 \in {Focus!Idle} /\ v7 \in BOOLEAN
    BY <2>4
  <2>8. QED
    BY <1>2, <2>2, <2>5, <2>6, <2>7 DEF PageTyped
<1>4. KeysTyped /\ v12 \in Seq(Letters) /\ TypingInv
  <2>1. /\ v8 \in {<<"RetrySession">>, Focus!NoFocus} /\ v9 = Focus!NoFocus /\ v10 = FALSE
        /\ v11 = FALSE /\ v12 = << >>
    BY DEF Focus!Init
  <2>2. v8 \in Targets
    BY <2>1 DEF Targets
  <2>3. v9 \in {Focus!NoFocus} \cup Powers /\ v10 \in BOOLEAN /\ v11 \in BOOLEAN
    BY <2>1
  <2>4. v12 \in Seq(Letters) /\ TypingInv
    BY <2>1 DEF TypingInv
  <2>5. QED
    BY <2>2, <2>3, <2>4 DEF KeysTyped
<1>5. ~Focus!Dialog /\ ~Focus!Confirming /\ Focus!Interactive
  BY DEF Focus!Init, Focus!Dialog, Focus!Confirming, Focus!Interactive, Focus!Idle
<1>6. v1 \in Focus!Settled => v8 = <<"RetrySession">> /\ v1 = "Failed" /\ v5 = 0
  BY DEF Focus!Init, Focus!Settled
<1>7. OfferedInv
  BY <1>5, <1>6 DEF OfferedInv, Controls, Page, Where
<1>8. SeveralInv
  BY DEF Focus!Init, SeveralInv
<1>9. QED
  BY <1>3, <1>4, <1>5, <1>7, <1>8 DEF FocusInv, DialogInv

-----------------------------------------------------------------------------
(* The Tab key *)

Ascending == {p \in Nat \X Nat : p[1] < p[2]}

\* A set of natural numbers has a least one.
LEMMA LeastOne ==
    ASSUME NEW S \in SUBSET Nat, S # {}
    PROVE  \E x \in S : \A y \in S : x <= y
<1>1. OpToRel(<, Nat) = Ascending
  BY Zenon DEF Ascending, OpToRel
<1>2. IsWellFoundedOn(Ascending, Nat)
  BY <1>1, NatLessThanWellFounded, Zenon
<1>3. PICK x \in S : \A y \in S : ~(<<y, x>> \in Ascending)
  BY <1>2, WFMin
<1>4. ASSUME NEW y \in S
      PROVE  x <= y
  <2>1. x \in Nat /\ y \in Nat /\ ~(<<y, x>> \in Ascending)
    BY <1>3
  <2>2. ~(y < x)
    BY <2>1 DEF Ascending
  <2>3. QED
    BY <2>1, <2>2
<1>5. QED
  BY <1>4

\* A set of numbers to n that goes from each to the next, and from the last to the first,
\* has all of them.
LEMMA RoundHasAll ==
    ASSUME NEW n \in Nat, NEW S \in SUBSET (1 .. n), S # {},
           \A i \in S : (i < n => i + 1 \in S) /\ (i = n => 1 \in S)
    PROVE  S = 1 .. n
<1>1. SUFFICES ASSUME NEW k \in 1 .. n, k \notin S
               PROVE  FALSE
  OBVIOUS
<1> DEFINE Above(a) == {j \in Nat : a <= j /\ j <= n /\ j \notin S}
<1>2. ASSUME NEW a \in S, NEW b \in Above(a)
      PROVE  FALSE
  <2>1. PICK j \in Above(a) : \A l \in Above(a) : j <= l
    BY <1>2, LeastOne
  <2>2. j # a /\ j \in Nat /\ a \in 1 .. n /\ a <= j /\ j <= n
    BY <1>2
  <2>3. j - 1 \in Nat /\ a <= j - 1 /\ j - 1 < n
    BY <2>2
  <2>4. j - 1 \in S
    BY <2>1, <2>2, <2>3
  <2>5. (j - 1) + 1 \in S
    BY <2>3, <2>4
  <2>6. QED
    BY <2>2, <2>5
<1>3. PICK a \in S : TRUE
  OBVIOUS
<1>4. n \in S
  BY <1>2, <1>3
<1>5. 1 \in S
  BY <1>4
<1>6. k \in Above(1)
  BY <1>1
<1>7. QED
  BY <1>2, <1>5, <1>6

\* Tab goes round all controls, and Shift-Tab back.
LEMMA TabGoesRound ==
    ASSUME FocusInv
    PROVE  Focus!TabReachesEveryControl
<1> DEFINE order == Focus!focus_order  n == Len(order)
<1>1. /\ order \in Seq(Targets)
      /\ \A t : t \in Controls <=> \E i \in 1 .. n : order[i] = t
      /\ \A i, j \in 1 .. n : order[i] = order[j] => i = j
      /\ PageTyped
  BY OrderIsOrderly DEF FocusInv, OrderFacts, Orderly
<1>2. n \in Nat /\ DOMAIN order = 1 .. n /\ Focus!ToSet(order) = Controls
  BY <1>1 DEF Focus!ToSet
<1>3. ASSUME NEW i \in 1 .. n
      PROVE  Focus!Position(order[i]) = i - 1
  <2>1. order[i] \in Controls
    BY <1>1, <1>3
  <2>2. Focus!Position(order[i]) \in 0 .. n - 1 /\ order[Focus!Position(order[i]) + 1] = order[i]
    BY <1>1, <2>1, PlaceInOrder
  <2> DEFINE p == Focus!Position(order[i])
  <2> HIDE DEF p, order
  <2>3. p + 1 \in 1 .. n /\ order[p + 1] = order[i]
    BY <1>2, <2>2 DEF p
  <2>4. p + 1 = i /\ p \in Int
    BY <1>1, <1>2, <2>2, <2>3 DEF p
  <2>5. QED
    BY <2>4 DEF p
<1>4. ASSUME NEW i \in 1 .. n
      PROVE  /\ i < n => Focus!neighbour(order[i], 1) = order[i + 1]
             /\ i = n => Focus!neighbour(order[i], 1) = order[1]
             /\ i > 1 => Focus!neighbour(order[i], -1) = order[i - 1]
             /\ i = 1 => Focus!neighbour(order[i], -1) = order[n]
  <2>1. /\ Focus!neighbour(order[i], 1) = order[((i - 1 + 1) % n) + 1]
        /\ Focus!neighbour(order[i], -1) = order[((i - 1 + (-1)) % n) + 1]
    BY <1>2, <1>3 DEF Focus!neighbour
  <2> HIDE DEF order, n
  <2>2. n \in Nat \ {0} /\ i \in 1 .. n
    BY <1>2, <1>3
  <2>3. i < n => ((i - 1 + 1) % n) + 1 = i + 1
    BY <2>2
  <2>4. i = n => ((i - 1 + 1) % n) + 1 = 1
    BY <2>2
  <2>5. i > 1 => ((i - 1 + (-1)) % n) + 1 = i - 1
    BY <2>2
  <2>6. i = 1 => ((i - 1 + (-1)) % n) + 1 = n
    <3>1. (-1) % n = n - 1
      BY <2>2
    <3>2. i = 1 => i - 1 + (-1) = -1
      BY <2>2
    <3>3. QED
      BY <2>2, <3>1, <3>2
  <2>7. QED
    BY <2>1, <2>3, <2>4, <2>5, <2>6
<1> HIDE DEF order, n
<1>5. ASSUME NEW S \in SUBSET Controls, S # {}, \A t \in S : Focus!neighbour(t, 1) \in S
      PROVE  S = Controls
  <2> DEFINE I == {i \in 1 .. n : order[i] \in S}
  <2>1. I # {} /\ I \in SUBSET (1 .. n)
    BY <1>1, <1>5
  <2>2. \A i \in I : (i < n => i + 1 \in I) /\ (i = n => 1 \in I)
    BY <1>2, <1>4, <1>5
  <2>3. I = 1 .. n
    BY <1>2, <2>1, <2>2, RoundHasAll
  <2>4. ASSUME NEW t \in Controls
        PROVE  t \in S
    <3>1. PICK i \in 1 .. n : order[i] = t
      BY <1>1
    <3>2. i \in I
      BY <2>3
    <3>3. QED
      BY <3>1, <3>2
  <2>5. QED
    BY <2>4
<1>6. ASSUME NEW i \in 1 .. n
      PROVE  Focus!neighbour(Focus!neighbour(order[i], 1), -1) = order[i]
  <2>1. CASE i < n
    <3>1. i + 1 \in 1 .. n /\ i + 1 > 1 /\ (i + 1) - 1 = i
      BY <1>2, <2>1
    <3>2. Focus!neighbour(order[i + 1], -1) = order[i]
      BY <1>4, <3>1
    <3>3. QED
      BY <1>4, <2>1, <3>2
  <2>2. CASE i = n
    <3>1. 1 \in 1 .. n
      BY <1>2
    <3>2. QED
      BY <1>4, <2>2, <3>1
  <2>3. QED
    BY <1>2, <2>1, <2>2
<1>7. QED
  BY <1>2, <1>5, <1>6 DEF Focus!TabReachesEveryControl, order, n

-----------------------------------------------------------------------------
(* The focus in every behaviour *)

\* What the invariant says of a state.
LEMMA FocusShown ==
    ASSUME FocusInv
    PROVE  Focus!FocusIsOffered /\ Focus!TypingIsShown /\ Focus!TabReachesEveryControl
<1>1. Focus!FocusIsOffered
  BY OrderHasControls DEF FocusInv, OfferedInv, Focus!FocusIsOffered
<1>2. Focus!TypingIsShown
  BY DEF FocusInv, TypingInv, Focus!TypingIsShown
<1>3. QED
  BY <1>1, <1>2, TabGoesRound

OnScreen == part = "focus" => FocusInv

\* Every step of the instance keeps it.
LEMMA FocusStep ==
    ASSUME OnScreen, [MCNext]_mcVars
    PROVE  /\ OnScreen'
           /\ part = "focus" => /\ Focus!StaleFocusDoesNothing /\ Focus!MenuGivesWay
                                /\ Focus!SessionIsFixed
<1>1. CASE part = "focus"
  <2>1. part' = part /\ (Focus!Next \/ UNCHANGED pool)
    BY <1>1 DEF MCNext, mcVars
  <2>2. Stepped
    BY <1>1, <2>1, FocusNext, FocusStands DEF OnScreen
  <2>3. QED
    BY <2>1, <2>2 DEF OnScreen, Stepped
<1>2. CASE part # "focus"
  <2>1. part' = part
    BY <1>2 DEF MCNext, mcVars
  <2>2. QED
    BY <1>2, <2>1 DEF OnScreen
<1>3. QED
  BY <1>1, <1>2

\* The inductive invariant of the focus: whatever keys, presses, replies and Escape come in
\* between, focus_target names a control of the page, or of the dialog over it, or none, and
\* what iced thinks of the input is what App thinks of it or what App is about to hear
\* (update, set_focus, sync_widget_focus).
THEOREM FocusInvariant == MCSpec => []OnScreen
<1>1. MCInit => OnScreen
  BY FocusStarts DEF MCInit, OnScreen
<1>2. OnScreen /\ [MCNext]_mcVars => OnScreen'
  BY FocusStep
<1>3. QED
  BY <1>1, <1>2, PTL DEF MCSpec

\* For any number of accounts, sessions and presses on their way, the focus is on a control that
\* is offered, text goes where the focus is shown, and Tab comes to every control; a key for a
\* control that is gone does nothing, the menu gives way to what interrupts it, and the session
\* being started stays the one that was selected (focus_order, neighbour, activate_focus,
\* leave_power_dialog, can_select_session).
THEOREM FocusStaysOffered == MCSpec => FocusIsOffered
<1>1. OnScreen => (part = "focus" => /\ Focus!FocusIsOffered /\ Focus!TypingIsShown
                                     /\ Focus!TabReachesEveryControl)
  BY FocusShown DEF OnScreen
<1>2. OnScreen /\ [MCNext]_mcVars
        => [part = "focus" => /\ Focus!StaleFocusDoesNothing /\ Focus!MenuGivesWay
                              /\ Focus!SessionIsFixed]_mcVars
  BY FocusStep
<1>3. QED
  BY <1>1, <1>2, FocusInvariant, PTL DEF MCSpec, FocusIsOffered
=============================================================================
