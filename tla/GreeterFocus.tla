----------------------------- MODULE GreeterFocus -----------------------------
(***************************************************************************)
(* Keyboard focus of the greeter: src/app/focus.rs, the barrier of         *)
(* src/app/modal.rs and what App::update (src/app/mod.rs) does to the      *)
(* focus.  App keeps a focus of its own, focus_target, beside that of the  *)
(* one iced widget that takes text.                                        *)
(*                                                                         *)
(* A key press or a click is seen twice: by the widget under it, which     *)
(* hands App a message at once, and by App's subscriptions, whose message  *)
(* comes later and is routed by what the widgets did at the time of the    *)
(* press.  `mail` holds those later messages.                              *)
(*                                                                         *)
(* A reply of greetd or AccountsService comes in the phases that wait for  *)
(* one; that none comes in another is Greeter!ReplyIsOwed.  Text, and what *)
(* is asked of greetd, are in Greeter.  Previews are left out.             *)
(***************************************************************************)
EXTENDS Integers, Sequences, SequencesExt

CONSTANTS
    MaxAccounts,   \* bound of the model on accounts found
    MaxSessions,   \* bound of the model on desktop sessions
    MaxMail        \* bound of the model on messages on their way

FocusAssumption ==
    MaxAccounts \in Nat \ {0} /\ MaxSessions \in Nat /\ MaxMail \in Nat

VARIABLES
    phase, named,                  \* App::phase; username is not empty
    accounts,                      \* number of accounts
    sessions, selected_session,    \* number of sessions, the one selected or 0
    power_state, closing,
    focus_target, focus_before_modal, session_menu_open,
    typing,                        \* the text input has iced's focus
    mail

powerVars == <<power_state, focus_before_modal>>
userVars  == <<named, accounts>>
listVars  == <<sessions, selected_session>>
focusVars == <<focus_target, session_menu_open, typing>>
vars == <<phase, userVars, listVars, powerVars, closing, focusVars, mail>>

Actions == {"Suspend", "Reboot", "PowerOff"}
Idle    == <<"Idle">>
NoFocus == <<"None">>
Input   == <<"AuthenticationInput">>
AccountTarget(i) == <<"Account", i>>
Power(a)   == <<"Power", a>>
SessionTarget == <<"Session">>

Navigation == {"Next", "Previous", "DirectionNext", "DirectionPrevious", "Activate"}
Asleep  == {"CreatingSession", "Authenticating", "StartingSession", "DiscoveringUsers",
            "CancellingForUserSelection"}     \* phases that wait for a reply
Settled == {"WaitingForInput", "Failed", "SelectingUser", "UserSelectionCancellationFailed"}

TypeOK ==
    /\ phase \in Asleep \cup Settled /\ named \in BOOLEAN /\ accounts \in 0 .. MaxAccounts
    /\ sessions \in 0 .. MaxSessions /\ selected_session \in 0 .. sessions
    /\ power_state = Idle \/ power_state \in {"Confirming", "Executing"} \X Actions
    /\ {focus_target[1], focus_before_modal[1]} \subseteq
         {"None", "Account", "RetryAccountSelection", "AuthenticationInput", "Submit",
          "RetryAuthentication", "ChangeUser", "Session", "RetrySession", "Power",
          "DialogCancel", "DialogConfirm"}
    /\ closing \in BOOLEAN /\ session_menu_open \in BOOLEAN /\ typing \in BOOLEAN
    /\ Len(mail) <= MaxMail

Confirming == power_state[1] = "Confirming"
Dialog     == power_state # Idle

\* The filters at the head of update, for what the user asks for.
Interactive == ~closing /\ ~Dialog

can_request_power == Interactive /\ phase \in Settled
can_change_user ==
    Interactive /\ accounts > 1 /\ phase \in {"WaitingForInput", "Failed"}

can_select_session ==
    /\ Interactive /\ selected_session # 0
    /\ phase \notin {"Authenticating", "StartingSession"}
can_select_account == Interactive /\ phase = "SelectingUser"

-----------------------------------------------------------------------------
(* focus.rs *)

If(c, s) == IF c THEN s ELSE << >>

\* Targets in the order the Tab key visits them.
focus_order ==
    IF Confirming THEN << <<"DialogCancel">>, <<"DialogConfirm">> >>
    ELSE IF Dialog \/ closing THEN << >>
    ELSE If(can_select_account, [i \in 1 .. accounts |-> AccountTarget(i - 1)])
      \o If(phase = "UserSelectionCancellationFailed", << <<"RetryAccountSelection">> >>)
      \o If(phase = "WaitingForInput", << Input, <<"Submit">> >>)
      \o If(phase = "Failed" /\ selected_session # 0,
            << IF named THEN <<"RetryAuthentication">> ELSE <<"RetryAccountSelection">> >>)
      \o If(can_change_user, << <<"ChangeUser">> >>)
      \o If(can_select_session, << SessionTarget >>)
      \o If(phase = "Failed" /\ selected_session = 0, << <<"RetrySession">> >>)
      \o If(can_request_power, << Power("Suspend"), Power("Reboot"), Power("PowerOff") >>)

\* The state without the session menu, or with it as it is.  The input is on the
\* screen while App waits for it, and loses iced's focus when it is taken away.
keep_focus(menu) ==
    /\ UNCHANGED focus_target /\ session_menu_open' = menu
    /\ typing' = (typing /\ phase' = "WaitingForInput")

no_focus ==
    focus_target' = NoFocus /\ session_menu_open' = FALSE /\ typing' = FALSE

set_focus(t, menu) ==
    /\ focus_target' = t /\ session_menu_open' = (menu /\ t = SessionTarget)
    /\ typing' = ((t = Input \/ (typing /\ t[1] = "Account")) /\ phase' = "WaitingForInput")

\* focus_first, with the order of the state the handler has made.
focus_first(menu) ==
    IF focus_order' = << >> THEN no_focus ELSE set_focus(Head(focus_order'), menu)

Position(t) ==
    LET order == focus_order IN SelectInSeq(order, LAMBDA c : c = t) - 1

\* Where move_focus goes from t; rem_euclid of the index.
neighbour(t, delta) ==
    LET order == focus_order  n == Len(order)  p == Position(t) IN
    IF p < 0 THEN order[IF delta < 0 THEN n ELSE 1] ELSE order[((p + delta) % n) + 1]

move_focus(delta, menu) ==
    /\ UNCHANGED phase
    /\ IF focus_order = << >> THEN no_focus
       ELSE set_focus(neighbour(focus_target, delta), menu)
    /\ UNCHANGED <<userVars, listVars, powerVars>>

Nothing(menu) == UNCHANGED <<phase, userVars, listVars, powerVars>> /\ keep_focus(menu)

cycle_session(delta, menu) ==
    /\ selected_session' = ((selected_session - 1 + delta) % sessions) + 1
    /\ UNCHANGED <<phase, userVars, sessions, powerVars>> /\ keep_focus(menu)

move_directional(delta, menu) ==
    IF focus_target[1] = "Account" /\ can_select_account /\ accounts > 0
      THEN /\ UNCHANGED phase
           /\ set_focus(AccountTarget((focus_target[2] + delta) % accounts), menu)
           /\ UNCHANGED <<userVars, listVars, powerVars>>
    ELSE IF focus_target = SessionTarget /\ can_select_session
      THEN cycle_session(delta, menu)
    ELSE IF focus_target[1] \in {"DialogCancel", "DialogConfirm"}
      THEN move_focus(delta, menu)
    ELSE Nothing(menu)

-----------------------------------------------------------------------------
(* Messages of App::update.  `menu` tells whether the session menu is open *)
(* when the message is handled.                                            *)

GoTo(p) == phase' = p

fail(menu) ==
    /\ GoTo("Failed") /\ UNCHANGED <<userVars, listVars, powerVars, closing>>
    /\ focus_first(menu)

select_account ==
    /\ GoTo("CreatingSession") /\ named' = TRUE
    /\ no_focus /\ UNCHANGED <<listVars, powerVars>>

retry_authentication(menu) ==
    GoTo("CreatingSession") /\ keep_focus(menu) /\ UNCHANGED <<userVars, powerVars>>

change_user(menu) ==
    /\ GoTo("CancellingForUserSelection") /\ named' = FALSE
    /\ UNCHANGED <<accounts, listVars, powerVars, closing>>
    /\ focus_first(menu)

ChangeUser(menu) == IF can_change_user THEN change_user(menu) ELSE Nothing(menu)

RetryUserSelectionCancellation(menu) ==
    IF Interactive /\ phase = "UserSelectionCancellationFailed"
    THEN /\ GoTo("CancellingForUserSelection")
         /\ UNCHANGED <<userVars, listVars, powerVars, closing>>
         /\ focus_first(menu)
    ELSE Nothing(menu)

Retry(menu) ==
    IF Interactive /\ phase = "Failed"
    THEN IF named THEN retry_authentication(menu) /\ UNCHANGED listVars
         ELSE /\ GoTo("DiscoveringUsers")
              /\ keep_focus(menu) /\ UNCHANGED <<userVars, listVars, powerVars>>
    ELSE Nothing(menu)

RetrySession(menu) ==
    IF Interactive /\ phase = "Failed" /\ selected_session = 0
    THEN \E n \in 0 .. MaxSessions :
           /\ sessions' = n /\ selected_session' = IF n = 0 THEN 0 ELSE 1
           /\ IF n = 0 THEN UNCHANGED <<phase, userVars, powerVars>> /\ keep_focus(menu)
              ELSE IF named THEN retry_authentication(menu)
              ELSE /\ GoTo("DiscoveringUsers")
                   /\ keep_focus(menu) /\ UNCHANGED <<userVars, powerVars>>
    ELSE Nothing(menu)

\* The connection to greetd may be lost when the answer is to be sent.
Submit(menu) ==
    IF Interactive /\ phase = "WaitingForInput"
    THEN \/ /\ GoTo("Authenticating")
            /\ keep_focus(menu) /\ UNCHANGED <<userVars, listVars, powerVars>>
         \/ fail(menu)
    ELSE Nothing(menu)

AskPower(a, menu) ==
    IF can_request_power
    THEN /\ power_state' = <<"Confirming", a>> /\ focus_before_modal' = Power(a)
         /\ UNCHANGED phase /\ set_focus(<<"DialogCancel">>, menu)
         /\ UNCHANGED <<userVars, listVars>>
    ELSE Nothing(menu)

\* Bug: the focus stays in the dialog that closes.
leave_power_dialog_InDialog ==
    /\ power_state' = Idle /\ focus_before_modal' = NoFocus
    /\ UNCHANGED <<phase, userVars, listVars, closing>>
    /\ keep_focus(session_menu_open)
leave_power_dialog ==
    /\ power_state' = Idle /\ focus_before_modal' = NoFocus
    /\ UNCHANGED <<phase, userVars, listVars, closing>>
    /\ LET order == focus_order' IN
       IF Contains(order, focus_before_modal)
         THEN set_focus(focus_before_modal, session_menu_open)
       ELSE IF order # << >> THEN set_focus(Head(order), session_menu_open)
       ELSE no_focus

\* Also Escape while the dialog asks.
CancelPower == Confirming /\ leave_power_dialog

ConfirmPower ==
    /\ Confirming
    /\ power_state' = <<"Executing", power_state[2]>>
    /\ focus_target' = NoFocus
    /\ UNCHANGED <<phase, userVars, listVars, focus_before_modal, session_menu_open, typing>>

activate_focus(menu) ==
    LET t == focus_target IN
    CASE t[1] = "Account" ->
           IF can_select_account /\ t[2] < accounts
           THEN select_account /\ UNCHANGED accounts ELSE Nothing(menu)
      [] t[1] = "RetryAccountSelection" ->
           IF phase = "UserSelectionCancellationFailed"
           THEN RetryUserSelectionCancellation(menu) ELSE Retry(menu)
      [] t[1] = "Submit" -> Submit(menu)
      [] t[1] = "RetryAuthentication" -> Retry(menu)
      [] t[1] = "ChangeUser" -> ChangeUser(menu)
      [] t[1] = "Session" ->
           IF can_select_session THEN cycle_session(1, menu) ELSE Nothing(menu)
      [] t[1] = "RetrySession" -> RetrySession(menu)
      [] t[1] = "Power" -> AskPower(t[2], menu)
      [] t[1] = "DialogCancel" -> IF Confirming THEN CancelPower ELSE Nothing(menu)
      [] t[1] = "DialogConfirm" -> IF Confirming THEN ConfirmPower ELSE Nothing(menu)
      [] OTHER -> Nothing(menu)     \* the input, and no focus

navigate_focus(n, menu) ==
    \/ n = "Next" /\ move_focus(1, menu)
    \/ n = "Previous" /\ move_focus(-1, menu)
    \/ n = "DirectionNext" /\ move_directional(1, menu)
    \/ n = "DirectionPrevious" /\ move_directional(-1, menu)
    \/ n = "Activate" /\ activate_focus(menu)

-----------------------------------------------------------------------------
(* Messages of the subscriptions *)

NavigateFocus(n) ==
    IF Interactive THEN navigate_focus(n, FALSE) ELSE Nothing(session_menu_open)
NavigateModal(n) ==
    IF ~closing /\ Confirming THEN navigate_focus(n, session_menu_open)
    ELSE Nothing(session_menu_open)

\* find_focused answers with the input, or not at all.
SyncWidgetFocus ==
    /\ UNCHANGED <<phase, userVars, listVars, powerVars, session_menu_open, typing>>
    /\ focus_target' = IF Interactive /\ focus_target = Input THEN NoFocus ELSE focus_target
    /\ mail' = Tail(mail) \o If(Interactive /\ typing, << <<"WidgetFocused", "">> >>)

apply_widget_focus ==
    /\ UNCHANGED <<phase, userVars, listVars, powerVars, session_menu_open, typing>>
    /\ focus_target' = IF Interactive /\ phase = "WaitingForInput" THEN Input ELSE focus_target

HandleMail ==
    /\ mail # << >>
    /\ LET m == Head(mail) IN
       \/ m[1] = "NavigateFocus" /\ NavigateFocus(m[2]) /\ mail' = Tail(mail)
       \/ m[1] = "NavigateModal" /\ NavigateModal(m[2]) /\ mail' = Tail(mail)
       \/ m[1] = "SyncWidgetFocus" /\ SyncWidgetFocus
       \/ m[1] = "WidgetFocused" /\ apply_widget_focus /\ mail' = Tail(mail)
    /\ UNCHANGED closing

\* The barrier of a dialog captures every key and press; the text input some keys.
blocks_background == Dialog
Captured == IF blocks_background THEN {TRUE} ELSE {FALSE, typing}

\* keyboard_navigation
PressKey(n) ==
    /\ Len(mail) < MaxMail
    /\ \E captured \in Captured :
         mail' = Append(mail, <<IF captured THEN "NavigateModal" ELSE "NavigateFocus", n>>)
    /\ UNCHANGED <<phase, userVars, listVars, powerVars, closing, focusVars>>

\* pointer_focus_sync, and iced's own focus: it goes to the input if that was pressed,
\* which a dialog covers.
PressPointer(onInput) ==
    /\ Len(mail) < MaxMail
    /\ onInput => ~blocks_background /\ phase = "WaitingForInput"
    /\ typing' = IF blocks_background THEN typing ELSE onInput
    /\ mail' = Append(mail, <<"SyncWidgetFocus", "">>)
    /\ UNCHANGED <<phase, userVars, listVars, powerVars, closing, focus_target,
                   session_menu_open>>

-----------------------------------------------------------------------------
(* Messages of the widgets.  They go away with what they belong to. *)

InputChanged ==
    /\ typing /\ Interactive /\ phase = "WaitingForInput"
    /\ focus_target' = Input
    /\ UNCHANGED <<phase, userVars, listVars, powerVars, session_menu_open, typing>>

Escape ==
    IF Confirming THEN CancelPower
    ELSE IF Interactive /\ session_menu_open THEN Nothing(FALSE)
    ELSE IF Interactive /\ phase = "WaitingForInput"       \* blur_input
      THEN /\ focus_target' = IF focus_target = Input THEN NoFocus ELSE focus_target
           /\ session_menu_open' = FALSE /\ typing' = FALSE
           /\ UNCHANGED <<phase, userVars, listVars, powerVars>>
    ELSE Nothing(session_menu_open)

SelectSession(i) ==
    /\ can_select_session /\ session_menu_open
    /\ selected_session' = i
    /\ UNCHANGED <<phase, userVars, sessions, powerVars>>
    /\ set_focus(SessionTarget, FALSE)

SessionMenuOpened ==
    /\ can_select_session /\ UNCHANGED <<phase, userVars, listVars, powerVars>>
    /\ set_focus(SessionTarget, TRUE)

\* SessionMenuClosed; also OutputLayoutChanged, at any time.
CloseMenu == session_menu_open /\ Nothing(FALSE)

Click ==
    LET menu == session_menu_open IN
    /\ ~closing /\ UNCHANGED <<closing, mail>>
    /\ \/ Interactive /\ (Submit(menu) \/ Retry(menu) \/ ChangeUser(menu) \/ RetrySession(menu)
                            \/ RetryUserSelectionCancellation(menu))
       \/ can_select_account /\ select_account /\ UNCHANGED accounts
       \/ \E a \in Actions : can_request_power /\ AskPower(a, menu)
       \/ CancelPower \/ ConfirmPower
       \/ \E i \in 1 .. sessions : SelectSession(i)
       \/ SessionMenuOpened \/ CloseMenu
       \/ InputChanged \/ Escape

-----------------------------------------------------------------------------
(* Replies, and the window *)

\* handle_auth_result: an answer of greetd, or none; a notice changes nothing here.
AuthResult ==
    /\ phase \in {"CreatingSession", "Authenticating", "StartingSession"}
    /\ UNCHANGED userVars
    /\ \/ /\ GoTo("WaitingForInput") /\ UNCHANGED <<listVars, powerVars>>
          /\ set_focus(Input, session_menu_open)
       \/ /\ phase # "StartingSession" /\ selected_session # 0
          /\ GoTo("StartingSession") /\ keep_focus(session_menu_open)
          /\ UNCHANGED <<listVars, powerVars>>
       \/ fail(session_menu_open)

AccountsResult ==
    /\ phase = "DiscoveringUsers"
    /\ \/ fail(session_menu_open)
       \/ \E n \in 1 .. MaxAccounts : accounts' = n /\ select_account
       \/ \E n \in 2 .. MaxAccounts :
            /\ accounts' = n /\ GoTo("SelectingUser")
            /\ set_focus(AccountTarget(0), session_menu_open)
            /\ UNCHANGED <<named, listVars, powerVars>>

UserSelectionCancelled ==
    /\ phase = "CancellingForUserSelection" /\ ~Dialog
    /\ UNCHANGED <<userVars, listVars, powerVars>>
    /\ \/ GoTo("SelectingUser") /\ set_focus(AccountTarget(0), session_menu_open)
       \/ /\ GoTo("UserSelectionCancellationFailed")
          /\ set_focus(<<"RetryAccountSelection">>, session_menu_open)

\* Only a suspended computer comes back.
PowerResult ==
    power_state[1] = "Executing" /\ leave_power_dialog

Reply ==
    /\ ~closing /\ UNCHANGED <<closing, mail>>
    /\ AuthResult \/ AccountsResult \/ UserSelectionCancelled \/ PowerResult

\* A window that closes takes no message that has to do with focus.
CloseRequested ==
    /\ ~closing /\ closing' = TRUE
    /\ UNCHANGED <<phase, userVars, listVars, powerVars, focusVars, mail>>

Init ==
    /\ \E n \in 0 .. MaxSessions : sessions = n /\ selected_session = IF n = 0 THEN 0 ELSE 1
    /\ named \in BOOLEAN /\ accounts = IF named THEN 1 ELSE 0
    /\ phase = IF selected_session = 0 THEN "Failed"
               ELSE IF named THEN "CreatingSession" ELSE "DiscoveringUsers"
    /\ power_state = Idle /\ focus_before_modal = NoFocus /\ closing = FALSE
    /\ focus_target = IF selected_session = 0 THEN <<"RetrySession">> ELSE NoFocus
    /\ session_menu_open = FALSE /\ typing = FALSE /\ mail = << >>

Next ==
    \/ HandleMail
    \/ \E n \in Navigation : PressKey(n)
    \/ \E onInput \in BOOLEAN : PressPointer(onInput)
    \/ Click \/ Reply \/ CloseRequested

Spec == Init /\ [][Next]_vars

-----------------------------------------------------------------------------
(* Properties *)

\* When nothing is awaited, the focus is on a control the screen offers: in the dialog
\* while it asks, on none while it works, and on the page again after it.
FocusIsOffered ==
    ~closing /\ phase \in Settled =>
        focus_target = NoFocus \/ Contains(focus_order, focus_target)

\* Of a step: a key that reaches a control which is not offered any more changes nothing: no
\* session, no user, no request, no dialog.
StaleFocusDoesNothing ==
    mail # << >> /\ Head(mail)[2] = "Activate" /\ mail' = Tail(mail)
      /\ ~Contains(focus_order, focus_target)
      => UNCHANGED <<phase, userVars, listVars, powerVars>>

\* Once App heard of every press, text goes to the input only if App shows the focus
\* there.
TypingIsShown == mail = << >> /\ typing /\ ~closing => focus_target = Input

\* From every control the Tab key comes to every other: a set of controls that Tab does not
\* leave has them all.  Shift-Tab goes back.
TabReachesEveryControl ==
    LET order == focus_order IN
    /\ \A S \in SUBSET ToSet(order) :
         S # {} /\ (\A t \in S : neighbour(t, 1) \in S) => S = ToSet(order)
    /\ \A i \in DOMAIN order : neighbour(neighbour(order[i], 1), -1) = order[i]

\* Of a step: a prompt, a failure, a list of users and the power dialog come with the session menu
\* closed.
MenuGivesWay ==
    (phase' # phase /\ phase' \in Settled) \/ Dialog' => ~session_menu_open'

\* Of a step: the session being started is the one that was selected when the password was sent.
SessionIsFixed ==
    phase \in {"Authenticating", "StartingSession"} => selected_session' = selected_session
=============================================================================
