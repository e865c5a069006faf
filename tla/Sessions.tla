------------------------------- MODULE Sessions -------------------------------
(***************************************************************************)
(* Discovery of the desktop sessions the greeter offers (src/sessions.rs). *)
(* The directories of XDG_DATA_DIRS are read in order, the files of one in *)
(* whatever order the file system gives them.  A file hides those of the   *)
(* same name in later directories, whether or not it makes a session.      *)
(*                                                                         *)
(* A desktop entry is a record of what its keys say; the parser of entries *)
(* is external, and what else a file must satisfy is in ExecLine.  Names   *)
(* and file names are their ranks in the order of strings.                 *)
(***************************************************************************)
EXTENDS Naturals, Sequences, SequencesExt, FiniteSets

CONSTANTS
    Places,      \* sequences of directories: [absolute, readable, files]
    Languages,   \* values of LC_ALL, LC_MESSAGES and LANG: sequences of three
    Unset,       \* a variable that is not set or empty
    NoLocale     \* a value that is no locale

VARIABLES
    places, language,      \* the environment
    pc, directory, todo,   \* the loops of discover_in
    seen, sessions

vars == <<places, language, pc, directory, todo, seen, sessions>>

-----------------------------------------------------------------------------
(* A desktop entry *)

\* The first variable that is set names the locale; there is none if that is no locale.
locale ==
    LET set == SelectSeq(language, LAMBDA v : v # Unset) IN
    IF set = << >> \/ Head(set) = NoLocale THEN Unset ELSE Head(set)

Refused == [kind |-> "None"]
Hidden  == [kind |-> "Hidden"]

\* A key that may be absent and holds TRUE, FALSE or what is no boolean.
Boolean(v) == v \in {"absent", "true", "false"}

\* expand_exec: an argument is the sequence of its pieces and whether it was quoted.
\* Fields for the name and the file are replaced, deprecated ones dropped, others refuse
\* the command.  An argument left empty goes, unless it was written as one.
Pieces == {"char", "equals", "name", "location", "deprecated", "file"}
Expanded(argument) == SelectSeq(argument.pieces, LAMBDA p : p # "deprecated")
Kept(argument) ==
    Expanded(argument) # << >> \/ (argument.quoted /\ argument.pieces = << >>)
expand_exec(exec) ==
    LET kept == SelectSeq(exec, Kept) IN [i \in DOMAIN kept |-> Expanded(kept[i])]
Expands(exec) ==
    /\ \A i \in DOMAIN exec : ~Contains(exec[i].pieces, "file")
    /\ expand_exec(exec) # << >> /\ ~Contains(Head(expand_exec(exec)), "equals")

\* An empty program is found in no directory of PATH.
executable_available(e) == Head(expand_exec(e.exec)) # << >> /\ e.available

\* parse_desktop_entry_with_locale, of the file f.
parse_desktop_entry(f) ==
    LET e == f.entry IN
    IF ~e.strict \/ ~Boolean(e.hidden) \/ ~Boolean(e.no_display) THEN Refused
    ELSE IF "true" \in {e.hidden, e.no_display} THEN Hidden
    ELSE IF \/ ~e.application \/ e.name[locale] = 0
            \/ e.try_exec = "missing"
            \/ ~Expands(e.exec) \/ ~executable_available(e)
            \/ ~e.desktop_names
      THEN Refused
    ELSE [kind |-> "Visible", id |-> f.id, name |-> e.name[locale],
          command |-> expand_exec(e.exec)]

-----------------------------------------------------------------------------
(* discover_in *)

session_directories == SelectSeq(places, LAMBDA d : d.absolute)

OpenDirectory ==
    /\ pc = "directories" /\ directory <= Len(session_directories)
    /\ LET d == session_directories[directory] IN
       IF d.readable THEN todo' = d.files /\ pc' = "files" /\ UNCHANGED directory
       ELSE directory' = directory + 1 /\ UNCHANGED <<pc, todo>>
    /\ UNCHANGED <<places, language, seen, sessions>>

\* Bug: only a file that makes a session hides others.
Seen_Visible(f) == IF parse_desktop_entry(f).kind = "Visible" THEN seen \cup {f.id} ELSE seen
Seen(f) == seen \cup {f.id}

Offered(parsed) == parsed.kind = "Visible"

Visit(f) ==
    /\ pc = "files" /\ f \in todo /\ todo' = todo \ {f}
    /\ IF ~f.desktop \/ f.id \in seen THEN UNCHANGED <<seen, sessions>>
       ELSE /\ seen' = Seen(f)
            /\ LET parsed == parse_desktop_entry(f) IN
               sessions' = IF Offered(parsed) THEN Append(sessions, parsed) ELSE sessions
    /\ UNCHANGED <<places, language, pc, directory>>

CloseDirectory ==
    /\ pc = "files" /\ todo = {}
    /\ directory' = directory + 1 /\ pc' = "directories"
    /\ UNCHANGED <<places, language, todo, seen, sessions>>

Before(s, t) == s.name < t.name \/ (s.name = t.name /\ s.id < t.id)

\* The stable sort: the order kept among those that Before does not tell apart.
Sorted(S) ==
    SortSeq([i \in DOMAIN S |-> [at |-> i, session |-> S[i]]],
            LAMBDA a, b : \/ Before(a.session, b.session)
                          \/ ~Before(b.session, a.session) /\ a.at < b.at)
Sort ==
    /\ pc = "directories" /\ directory > Len(session_directories)
    /\ sessions' = [i \in DOMAIN sessions |-> Sorted(sessions)[i].session]
    /\ pc' = "done"
    /\ UNCHANGED <<places, language, directory, todo, seen>>

Init ==
    /\ places \in Places /\ language \in Languages
    /\ pc = "directories" /\ directory = 1 /\ todo = {} /\ seen = {} /\ sessions = << >>

Next ==
    \/ OpenDirectory \/ CloseDirectory \/ Sort
    \/ \E f \in todo : Visit(f)

Spec == Init /\ [][Next]_vars

-----------------------------------------------------------------------------
(* Properties *)

TypeOK ==
    /\ places \in Places /\ language \in Languages
    /\ pc \in {"directories", "files", "done"}
    /\ directory \in 1 .. Len(places) + 1
    /\ pc # "files" => todo = {}
    /\ \A i \in DOMAIN sessions : sessions[i].kind = "Visible"

\* The directories that count, by the environment alone.
Read(d) == places[d].absolute /\ places[d].readable
Having(n) == {d \in DOMAIN places : Read(d) /\
                \E f \in places[d].files : f.desktop /\ f.id = n}
Winner(n) ==
    LET first == CHOOSE d \in Having(n) : \A e \in Having(n) : d <= e IN
    CHOOSE f \in places[first].files : f.desktop /\ f.id = n
Ids == {n \in UNION {{f.id : f \in places[d].files} : d \in DOMAIN places} : Having(n) # {}}

\* Whatever order a directory is read in, the sessions offered are those of the first file
\* of each name in the directories that can be read, and only those.
FirstDirectoryWins ==
    pc = "done" =>
        ToSet(sessions) =
          {parse_desktop_entry(Winner(n)) : n \in Ids} \ {Refused, Hidden}

\* The list, and with it the session selected at first, does not depend on the order the
\* directories are read in: it is sorted by a key no two sessions share.
ListIsDetermined ==
    pc = "done" => \A i, j \in DOMAIN sessions : i < j =>
        \/ sessions[i].name < sessions[j].name
        \/ sessions[i].name = sessions[j].name /\ sessions[i].id < sessions[j].id
=============================================================================
