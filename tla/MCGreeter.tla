----------------------------- MODULE MCGreeter -----------------------------
(***************************************************************************)
(* The greeter on a small instance: its conversation with greetd, and the  *)
(* focus of its controls, the desktop sessions, the people and the desktop *)
(* entries it finds as it starts.  These do not share steps, so a          *)
(* behaviour is one of `part`; v1 to v12 are the variables of the part     *)
(* that is not Greeter.                                                    *)
(***************************************************************************)
EXTENDS Greeter, Integers, TLC

CONSTANTS MaxAccounts, MaxSessions, MaxMail   \* of GreeterFocus

VARIABLES part, v1, v2, v3, v4, v5, v6, v7, v8, v9, v10, v11, v12

pool   == <<v1, v2, v3, v4, v5, v6, v7, v8, v9, v10, v11, v12>>
mcVars == <<part, vars, pool>>

Unused == "unused"

\* Users and desktop sessions are interchangeable.
Symmetry == Permutations(Account) \cup Permutations(Session)

-----------------------------------------------------------------------------
(* Directories of desktop sessions, up to three of them with up to three   *)
(* files of two names.                                                     *)

Unset    == "unset"
NoLocale == "?"

Word(p, q) == [pieces |-> p, quoted |-> q]
Plain == [strict |-> TRUE, hidden |-> "absent", no_display |-> "absent", application |-> TRUE,
          name |-> [l \in {"C", "de", Unset} |-> IF l = "de" THEN 2 ELSE 1],
          try_exec |-> "absent", exec |-> <<Word(<<"char">>, FALSE)>>, available |-> TRUE,
          desktop_names |-> TRUE]

Entries == {Plain,
            [Plain EXCEPT !.name = [l \in DOMAIN Plain.name |-> 2], !.try_exec = "present"],
            [Plain EXCEPT !.hidden = "true"],
            [Plain EXCEPT !.strict = FALSE],
            [Plain EXCEPT !.exec = <<Word(<<"deprecated">>, FALSE), Word(<<"char">>, FALSE),
                                     Word(<< >>, TRUE)>>]}
OtherEntries == {[Plain EXCEPT !.no_display = "bad"],
                 [Plain EXCEPT !.no_display = "true"],
                 [Plain EXCEPT !.application = FALSE],
                 [Plain EXCEPT !.name = [l \in DOMAIN Plain.name |-> IF l = "C" THEN 0 ELSE 1]],
                 [Plain EXCEPT !.try_exec = "missing"],
                 [Plain EXCEPT !.available = FALSE],
                 [Plain EXCEPT !.desktop_names = FALSE],
                 [Plain EXCEPT !.exec = <<Word(<<"file">>, FALSE)>>],
                 [Plain EXCEPT !.exec = <<Word(<<"char", "equals">>, FALSE)>>],
                 [Plain EXCEPT !.exec = <<Word(<<"name", "location">>, TRUE)>>],
                 [Plain EXCEPT !.exec = <<Word(<< >>, TRUE), Word(<<"char">>, FALSE)>>],
                 [Plain EXCEPT !.exec = << >>]}

File(n, e) == [id |-> n, desktop |-> TRUE, entry |-> e]
Note == [id |-> 1, desktop |-> FALSE, entry |-> Plain]
Directory(F) == [absolute |-> TRUE, readable |-> TRUE, files |-> F]

Unreadable == [Directory({File(1, Plain)}) EXCEPT !.readable = FALSE]
Relative == [Directory({File(2, Plain)}) EXCEPT !.absolute = FALSE]
System == Directory({File(1, Plain), File(2, Plain), Note})

Two == {Directory({File(1, e), File(2, g)}) : e, g \in Entries}
One == {Directory({File(1, e)}) : e \in Entries \cup OtherEntries}

Places == {<<d, System>> : d \in Two \cup One}
               \cup {<<Unreadable, d, Relative, Directory({File(2, e)})>> : d \in One, e \in Entries}
Languages == {<<Unset, Unset, Unset>>, <<Unset, "de", "C">>, <<"C", "de", Unset>>,
                 <<NoLocale, "de", "de">>}

\* Up to three users of four names.
Users == [username : 0 .. 2, real_name : {0, 1}, hidden : {FALSE}, last_login : 0 .. 2]
              \cup [username : {3}, real_name : {2}, hidden : BOOLEAN, last_login : {2}]

-----------------------------------------------------------------------------
(* The parts *)

Focus == INSTANCE GreeterFocus
    WITH phase <- v1, named <- v2, accounts <- v3, sessions <- v4,
         selected_session <- v5, power_state <- v6, closing <- v7,
         focus_target <- v8, focus_before_modal <- v9, session_menu_open <- v10,
         typing <- v11, mail <- v12

Desktops == INSTANCE Sessions
    WITH Places <- Places, Languages <- Languages, Unset <- Unset, NoLocale <- NoLocale,
         places <- v1, language <- v2, pc <- v3, directory <- v4, todo <- v5,
         seen <- v6, sessions <- v7

People == INSTANCE Accounts
    WITH Users <- Users, MaxUsers <- 3, INITIAL_BUFFER_SIZE <- 2, MAX_BUFFER_SIZE <- 7,
         Sizes <- {1, 2, 3, 5, 7, 8},
         paths <- v1, results <- v2, outcome <- v3, entry <- v4, size <- v5,
         identity <- v6

Entry == INSTANCE ExecLine
    WITH MaxRaw <- 5, MaxLines <- 4, Groups <- {"g1", "g2"}, Keys <- {"k1", "k2"},
         raw <- v1, lines <- v2, pc <- v3, index <- v4, units <- v5, groups <- v6,
         keys <- v7

ASSUME FocusIsBounded == Focus!FocusAssumption
ASSUME People!AccountsAssumption
ASSUME Entry!LineAssumption

\* In the behaviours of the other parts, Greeter stands in one of its initial states.
Standing == username = None /\ selected_session = None /\ owner = None

MCInit ==
    /\ Init
    /\ \/ /\ part = "greeter"
          /\ v1 = Unused /\ v2 = Unused /\ v3 = Unused /\ v4 = Unused /\ v5 = Unused
          /\ v6 = Unused /\ v7 = Unused /\ v8 = Unused /\ v9 = Unused /\ v10 = Unused
          /\ v11 = Unused /\ v12 = Unused
       \/ /\ part = "focus" /\ Standing /\ Focus!Init
       \/ /\ part = "sessions" /\ Standing /\ Desktops!Init
          /\ v8 = Unused /\ v9 = Unused /\ v10 = Unused /\ v11 = Unused /\ v12 = Unused
       \/ /\ part = "accounts" /\ Standing /\ People!Init
          /\ v7 = Unused /\ v8 = Unused /\ v9 = Unused /\ v10 = Unused /\ v11 = Unused
          /\ v12 = Unused
       \/ /\ part = "entry" /\ Standing /\ Entry!Init
          /\ v8 = Unused /\ v9 = Unused /\ v10 = Unused /\ v11 = Unused /\ v12 = Unused

MCNext ==
    \/ part = "greeter" /\ Next /\ UNCHANGED <<part, pool>>
    \/ part = "focus" /\ Focus!Next /\ UNCHANGED <<part, vars>>
    \/ part = "sessions" /\ Desktops!Next /\ UNCHANGED <<part, vars, v8, v9, v10, v11, v12>>
    \/ part = "accounts" /\ People!Next /\ UNCHANGED <<part, vars, v7, v8, v9, v10, v11, v12>>
    \/ part = "entry" /\ Entry!Next /\ UNCHANGED <<part, vars, v8, v9, v10, v11, v12>>

MCSpec == MCInit /\ [][MCNext]_mcVars

-----------------------------------------------------------------------------
(* Properties *)

\* The keyboard goes where the screen shows: focus rests on a control that is
\* offered, text goes to an input only if that has it, and Tab comes round to
\* every control (set_focus, neighbour, leave_power_dialog).  A key for a control
\* that is gone does nothing, the menu gives way to what interrupts it, and the
\* session being started does not change (activate, begin_session,
\* can_select_session).
FocusIsOffered ==
    /\ [](part = "focus" => /\ Focus!FocusIsOffered /\ Focus!TypingIsShown
                            /\ Focus!TabReachesEveryControl)
    /\ [][part = "focus" => /\ Focus!StaleFocusDoesNothing /\ Focus!MenuGivesWay
                            /\ Focus!SessionIsFixed]_mcVars

\* What the greeter offers at first does not depend on luck: the first directory
\* that has an entry decides, in whatever order files are read; one account that
\* cannot be read loses that account only, and a user is preferred only when that
\* is certain; and an entry passes if and only if it is unambiguous and nothing a
\* shell would expand is in its command (sessions.rs: discover_in,
\* strict_desktop_file, strict_exec; accounts.rs: discover, preferred_account;
\* identity.rs: resolve).
DiscoveryIsDetermined ==
    /\ part = "sessions" => /\ Desktops!TypeOK /\ Desktops!FirstDirectoryWins
                            /\ Desktops!ListIsDetermined
    /\ part = "accounts" => /\ People!TypeOK /\ People!OneFailureLosesOneUser
                            /\ People!PreferenceIsCertain /\ People!FittingEntryIsRead
    /\ part = "entry" => /\ Entry!TypeOK /\ Entry!FilePassesIfUnambiguous
                         /\ Entry!ExecPassesIfWellFormed
=============================================================================
