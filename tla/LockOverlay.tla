----------------------------- MODULE LockOverlay -----------------------------
(***************************************************************************)
(* What a locked session shows and takes (LockerPresentation of            *)
(* src/locker/mod.rs, src/conversation.rs): prompts and notices of PAM,    *)
(* wrapped into lines and shown page by page, the field with the masked    *)
(* input, and the frame they are rendered into over the wallpaper.         *)
(* LockAuth is about whom the answers reach; here a worker sends prompts,  *)
(* notices and verdicts, or has died.                                      *)
(*                                                                         *)
(* A text is what it says; Lines gives the lines it is wrapped into.  A    *)
(* character is the number of its bytes.  receive_auth takes up to         *)
(* MAX_AUTH_EVENTS_PER_REFRESH events in a turn; a turn of several events  *)
(* leaves the state that as many turns of one event leave.                 *)
(***************************************************************************)
EXTENDS Naturals, Sequences, SequencesExt, FiniteSetsExt

CONSTANTS
    Prompts, Notices,   \* texts of PAM
    Lines,              \* text -> lines
    PromptLines, NoticeLines,   \* lines a page of either has room for
    Inputs,             \* sequences of characters that a key gives
    MAX_TEXT_CHARS, MaskChars,
    MaxPresses, MaxFrames       \* bounds of the model

Password == "Password"
None == "none"
Unavailable == "Authentication worker unavailable"
AuthenticationFailed == "Authentication failed"
MAX_INPUT_BYTES == 4 * MAX_TEXT_CHARS

\* The text is set in smaller letters until it fits (draw_wrapped_text_in): the notice of a
\* worker that can not be reached, of three words, fits on one page.
LockOverlayAssumption ==
    /\ {PromptLines, NoticeLines, MAX_TEXT_CHARS} \subseteq Nat \ {0}
    /\ {Password, Unavailable, AuthenticationFailed} \cup Prompts \cup Notices \subseteq DOMAIN Lines
    /\ \A t \in DOMAIN Lines : Lines[t] \in Nat
    /\ Lines[Unavailable] <= NoticeLines
    /\ Inputs \subseteq Seq(1 .. 4) /\ MaxFrames \in Nat

VARIABLES
    confirmed, auth, prompt_id,        \* LockerPresentation; auth: there is a worker
    status, prompt, notice, input,     \* Conversation
    instruction_page,
    background, frame,                 \* frame: what was rendered last
    shown,                             \* the latest frame of the wallpaper
    presses, seen                      \* history: pages turned, lines seen since a text came

conversation == <<status, prompt, notice, input>>
vars == <<confirmed, auth, prompt_id, conversation, instruction_page,
          background, frame, shown, presses, seen>>

-----------------------------------------------------------------------------
(* Rendering *)

\* page_layout: the pages of a text, and the lines of one of them.
PageCount(text, room) == (Max({Lines[text], 1}) + room - 1) \div room

page_layout(text, room, page) ==
    LET first == (page % PageCount(text, room)) * room IN
    {first + i : i \in 1 .. Min({Lines[text] - Min({first, Lines[text]}), room})}

persistent_prompt == prompt # Password

\* The field: masked input, never the input itself.
Field ==
    IF status = "Submitting" THEN "Authenticating"
    ELSE IF input # << >> THEN Min({Len(input), MaskChars})
    ELSE IF persistent_prompt THEN "Response" ELSE prompt

PromptPage == IF persistent_prompt THEN page_layout(prompt, PromptLines, instruction_page) ELSE {}
NoticePage == IF notice # None THEN page_layout(notice, NoticeLines, instruction_page) ELSE {}

render_authentication_overlay ==
    IF ~confirmed THEN [prompt |-> {}, notice |-> {}, field |-> <<"Securing session">>]
    ELSE [prompt |-> PromptPage, notice |-> NoticePage, field |-> <<Field>>]

\* rebuild_overlay and rebuild_frame; `fresh` when a text came or went.
rebuild_overlay(fresh) ==
    /\ frame' = [background |-> background, overlay |-> render_authentication_overlay']
    /\ LET overlay == render_authentication_overlay' IN
       IF fresh THEN presses' = 0 /\ seen' = [prompt |-> overlay.prompt, notice |-> overlay.notice]
       ELSE /\ UNCHANGED presses
            /\ seen' = [prompt |-> seen.prompt \cup overlay.prompt,
                        notice |-> seen.notice \cup overlay.notice]
    /\ UNCHANGED <<background, shown>>

-----------------------------------------------------------------------------
(* Conversation *)

\* The bytes of each character.
Bytes(s) == Cardinality(UNION {{i} \X (1 .. s[i]) : i \in DOMAIN s})

\* Characters are taken until the first that does not fit.
append_bounded(target, value) ==
    LET fits(n) == Len(target) + n <= MAX_TEXT_CHARS
                     /\ Bytes(target \o SubSeq(value, 1, n)) <= MAX_INPUT_BYTES IN
    target \o SubSeq(value, 1, Max({n \in 0 .. Len(value) : fits(n)}))

ReceiveFailure(text) ==
    /\ input' = << >> /\ prompt' = Password /\ notice' = text /\ status' = "Failed"

begin_attempt == input' = << >> /\ notice' = None /\ status' = "Submitting" /\ UNCHANGED prompt

-----------------------------------------------------------------------------
(* LockerPresentation *)

lock_confirmed ==
    /\ ~confirmed /\ confirmed' = TRUE
    /\ UNCHANGED conversation \/ ReceiveFailure(Unavailable)
    /\ UNCHANGED <<auth, prompt_id, instruction_page>> /\ rebuild_overlay(TRUE)

Event ==
    \/ /\ status = "Submitting"
       /\ \E text \in Prompts :
            prompt' = text /\ status' = "Waiting" /\ input' = << >> /\ prompt_id' = TRUE
       /\ UNCHANGED notice
    \/ /\ status = "Submitting"
       /\ \E text \in Notices : notice' = text
       /\ UNCHANGED <<status, prompt, input, prompt_id>>
    \/ /\ status = "Submitting"
       /\ status' = "Succeeded" /\ input' = << >> /\ notice' = None /\ prompt_id' = FALSE
       /\ UNCHANGED prompt
    \/ /\ status # "Succeeded" /\ ReceiveFailure(AuthenticationFailed) /\ prompt_id' = FALSE

\* receive_latest, when receive_auth took an event.
receive_latest ==
    /\ confirmed /\ auth /\ Event
    /\ instruction_page' = 0
    /\ UNCHANGED <<confirmed, auth>> /\ rebuild_overlay(TRUE)

\* The wallpaper has a frame; receive_deferred takes it, under the overlay of before.
receive_deferred ==
    /\ shown < MaxFrames /\ shown' = shown + 1 /\ background' = shown'
    /\ frame' = [frame EXCEPT !.background = background']
    /\ UNCHANGED <<confirmed, auth, prompt_id, conversation, instruction_page, presses, seen>>

\* Input::Text and Input::Backspace, when they change the input.
Text ==
    /\ confirmed /\ status = "Waiting"
    /\ \E value \in Inputs : input' = append_bounded(input, value)
    /\ input' # input
    /\ UNCHANGED <<confirmed, auth, prompt_id, status, prompt, notice, instruction_page>>
    /\ rebuild_overlay(FALSE)

Backspace ==
    /\ confirmed /\ status = "Waiting" /\ input # << >>
    /\ input' = Front(input)
    /\ UNCHANGED <<confirmed, auth, prompt_id, status, prompt, notice, instruction_page>>
    /\ rebuild_overlay(FALSE)

\* The worker takes the answer, or can not be reached.
Submit ==
    /\ confirmed /\ status = "Waiting" /\ prompt_id /\ auth
    /\ prompt_id' = FALSE
    /\ \/ /\ status' = "Submitting" /\ input' = << >> /\ UNCHANGED <<prompt, notice>>
          /\ UNCHANGED <<confirmed, auth, instruction_page>> /\ rebuild_overlay(FALSE)
       \/ /\ ReceiveFailure(Unavailable)
          /\ UNCHANGED <<confirmed, auth, instruction_page>> /\ rebuild_overlay(TRUE)

\* retry and cancel_attempt: a worker goes on, or is replaced, or can not be.
BeginAgain ==
    /\ \/ begin_attempt /\ auth' = TRUE
       \/ ReceiveFailure(Unavailable) /\ auth' = FALSE
    /\ prompt_id' = FALSE /\ instruction_page' = 0
    /\ UNCHANGED confirmed /\ rebuild_overlay(TRUE)

retry == confirmed /\ status = "Failed" /\ BeginAgain
cancel_attempt == confirmed /\ auth /\ BeginAgain

NextPage ==
    /\ confirmed /\ presses < MaxPresses /\ (persistent_prompt \/ notice # None)
    /\ instruction_page' = instruction_page + 1
    /\ UNCHANGED <<confirmed, auth, prompt_id, conversation, background, shown>>
    /\ frame' = [background |-> background, overlay |-> render_authentication_overlay']
    /\ presses' = presses + 1
    /\ LET overlay == render_authentication_overlay' IN
       seen' = [prompt |-> seen.prompt \cup overlay.prompt, notice |-> seen.notice \cup overlay.notice]

-----------------------------------------------------------------------------
Init ==
    /\ confirmed = FALSE /\ auth = TRUE /\ prompt_id = FALSE
    /\ status = "Submitting" /\ prompt = Password /\ notice = None /\ input = << >>
    /\ instruction_page = 0 /\ shown = 0 /\ background = 0
    /\ frame = [background |-> 0, overlay |-> render_authentication_overlay]
    /\ presses = 0 /\ seen = [prompt |-> {}, notice |-> {}]

Next == \/ lock_confirmed \/ receive_latest \/ receive_deferred \/ Text \/ Backspace
        \/ Submit \/ retry \/ cancel_attempt \/ NextPage

Spec == Init /\ [][Next]_vars

-----------------------------------------------------------------------------
(* Properties *)

\* The id of a prompt is kept while a worker waits for its answer.
TypeOK ==
    /\ {confirmed, auth, prompt_id} \subseteq BOOLEAN
    /\ status \in {"Waiting", "Submitting", "Succeeded", "Failed"}
    /\ prompt \in Prompts \cup {Password}
    /\ notice \in Notices \cup {None, Unavailable, AuthenticationFailed}
    /\ input \in Seq(1 .. 4) /\ instruction_page \in Nat
    /\ {background, shown} \subseteq 0 .. MaxFrames
    /\ prompt_id => auth /\ status = "Waiting"

\* Nothing typed leaves the buffer that is wiped: it never has to grow, however many keys and
\* of however many characters.
InputStaysInItsBuffer == Bytes(input) <= MAX_INPUT_BYTES /\ Len(input) <= MAX_TEXT_CHARS

\* The frame on display is that of the current conversation over the current wallpaper.
FrameIsCurrent == frame = [background |-> shown, overlay |-> render_authentication_overlay]

\* A prompt or a notice is shown from its first line on when it comes, though the last was
\* left at a later page.
TextBeginsAtItsStart ==
    confirmed /\ presses = 0 =>
      /\ persistent_prompt /\ Lines[prompt] > 0 => 1 \in seen.prompt
      /\ notice # None /\ Lines[notice] > 0 => 1 \in seen.notice

\* Turning as many pages as the longer of the two texts has shows every line of both.
EveryLineIsShown ==
    confirmed =>
      /\ persistent_prompt /\ presses + 1 >= PageCount(prompt, PromptLines)
           => seen.prompt = 1 .. Lines[prompt]
      /\ notice # None /\ presses + 1 >= PageCount(notice, NoticeLines)
           => seen.notice = 1 .. Lines[notice]
=============================================================================
