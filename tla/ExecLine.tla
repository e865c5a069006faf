------------------------------- MODULE ExecLine -------------------------------
(***************************************************************************)
(* strict_desktop_file and strict_exec (src/sessions.rs): what a desktop   *)
(* file must be beyond what its parser asks, before its command is offered *)
(* as a session.  Both read from left to right and stop at the first       *)
(* fault; each step here is one round of one of their loops.               *)
(*                                                                         *)
(* Characters are their classes: "x" any other, "s" a letter an escape may *)
(* name, "_" a separator, "q" a double quote, "b" a backslash, "d" a       *)
(* dollar or a back quote, "r" another reserved one, "c" a control         *)
(* character or none of ASCII's.  A line is blank, <<"group", g>>,         *)
(* <<"key", k>> or a "bad" one without an equals sign.                     *)
(***************************************************************************)
EXTENDS Naturals, Sequences, FiniteSets

CONSTANTS
    MaxRaw,      \* bound of the model on characters of a command
    MaxLines,    \* bound of the model on lines of a file
    Groups, Keys

LineAssumption == MaxRaw \in Nat /\ MaxLines \in Nat

VARIABLES
    raw, lines,    \* the command, or the lines of the file; the other is empty
    pc, index,     \* the loop, and the first element it has not read
    units,         \* strict_exec: characters and whether they were escaped
    groups, keys   \* strict_desktop_file

vars == <<raw, lines, pc, index, units, groups, keys>>

Characters == {"x", "s", "_", "q", "b", "d", "r", "c"}
Lines == {<<"blank">>, <<"bad">>} \cup {<<"group", g>> : g \in Groups}
                                  \cup {<<"key", k>> : k \in Keys}

Done(result) == pc' = result /\ UNCHANGED <<index, units, groups, keys>>
More == index <= Len(raw \o lines)

-----------------------------------------------------------------------------
(* strict_desktop_file *)

ReadLine ==
    LET line == lines[index] IN
    IF line[1] = "bad" \/ (line[1] = "group" /\ line[2] \in groups)
                       \/ (line[1] = "key" /\ line[2] \in keys)
      THEN Done("None")
    ELSE /\ groups' = groups \cup IF line[1] = "group" THEN {line[2]} ELSE {}
         /\ keys' = IF line[1] = "group" THEN {}
                    ELSE keys \cup IF line[1] = "key" THEN {line[2]} ELSE {}
         /\ index' = index + 1 /\ UNCHANGED <<pc, units>>

strict_desktop_file ==
    pc = "lines" /\ (IF More THEN ReadLine ELSE Done("Some")) /\ UNCHANGED <<raw, lines>>

-----------------------------------------------------------------------------
(* strict_exec *)

is_exec_separator(c) == c = "_"
is_unquoted_reserved(c) == c \in {"b", "d", "r"}

\* One character of the command, or an escape of two.
Collect ==
    /\ pc = "units" /\ UNCHANGED <<raw, lines, groups, keys>>
    /\ IF ~More
         THEN pc' = "arguments" /\ index' = 1 /\ UNCHANGED units
       ELSE IF raw[index] = "c" \/ (raw[index] = "b" /\
                 (index = Len(raw) \/ raw[index + 1] \notin {"s", "b"}))
         THEN pc' = "None" /\ UNCHANGED <<index, units>>
       ELSE IF raw[index] # "b"
         THEN units' = Append(units, <<raw[index], FALSE>>) /\ index' = index + 1 /\ UNCHANGED pc
       ELSE /\ units' = Append(units, <<IF raw[index + 1] = "b" THEN "b" ELSE "_", TRUE>>)
            /\ index' = index + 2 /\ UNCHANGED pc

Unit    == units[index][1]
HasUnit == index <= Len(units)
Step(p, n) == pc' = p /\ index' = index + n /\ UNCHANGED <<units, groups, keys>>

\* Between arguments.
Argument ==
    /\ pc = "arguments" /\ UNCHANGED <<raw, lines>>
    /\ IF ~HasUnit THEN Done("Some")
       ELSE IF is_exec_separator(Unit) THEN Step("arguments", 1)
       ELSE IF units[index] = <<"q", FALSE>> THEN Step("quoted", 1)
       ELSE Step("word", 0)

\* What a backslash within double quotes stands before.
Protected == index < Len(units) /\ units[index + 1][1] \in {"q", "d", "b"}

\* Within double quotes; a backslash protects one of the four.
Quoted ==
    /\ pc = "quoted" /\ UNCHANGED <<raw, lines>>
    /\ IF ~HasUnit THEN Done("None")
       ELSE IF units[index] = <<"q", FALSE>>
         THEN IF index < Len(units) /\ ~is_exec_separator(units[index + 1][1])
              THEN Done("None") ELSE Step("arguments", 1)
       ELSE IF units[index] = <<"b", TRUE>>
         THEN IF Protected THEN Step("quoted", 2) ELSE Done("None")
       ELSE IF Unit = "d" THEN Done("None") ELSE Step("quoted", 1)

Word ==
    /\ pc = "word" /\ UNCHANGED <<raw, lines>>
    /\ IF ~HasUnit \/ is_exec_separator(Unit) THEN Step("arguments", 0)
       ELSE IF Unit = "q" \/ is_unquoted_reserved(Unit) THEN Done("None")
       ELSE Step("word", 1)

strict_exec == Collect \/ Argument \/ Quoted \/ Word

-----------------------------------------------------------------------------
Upto(S, n) == UNION {[1 .. k -> S] : k \in 0 .. n}

Init ==
    /\ \/ pc = "lines" /\ raw = << >> /\ lines \in Upto(Lines, MaxLines)
       \/ pc = "units" /\ lines = << >> /\ raw \in Upto(Characters, MaxRaw)
    /\ index = 1 /\ units = << >> /\ groups = {} /\ keys = {}

Next == strict_desktop_file \/ strict_exec

Spec == Init /\ [][Next]_vars

-----------------------------------------------------------------------------
(* Properties *)

TypeOK ==
    /\ pc \in {"lines", "units", "arguments", "quoted", "word", "Some", "None"}
    /\ index \in 1 .. Len(raw \o lines) + 1
    /\ pc \in {"arguments", "quoted", "word"} => index <= Len(units) + 1
    /\ \A i \in DOMAIN units : units[i] \in Characters \X BOOLEAN
    /\ groups \subseteq Groups /\ keys \subseteq Keys

\* A file passes if and only if no group comes twice, no key comes twice in its group,
\* and every other line is blank or a comment.
FilePassesIfUnambiguous ==
    lines # << >> /\ pc \in {"Some", "None"} =>
      (pc = "Some" <=>
        /\ \A i \in DOMAIN lines : lines[i] # <<"bad">>
        /\ \A i, j \in DOMAIN lines :
             i < j /\ lines[i] = lines[j] =>
               CASE lines[i][1] = "group" -> FALSE
                 [] lines[i][1] = "key" -> \E k \in i .. j : lines[k][1] = "group"
                 [] OTHER -> TRUE)

\* The grammar of a command, over characters whose escapes are resolved.
Texts == Upto(Characters, MaxRaw)
From(v, i) == SubSeq(v, i, Len(v))

Unescaped[v \in Texts] ==
    IF v = << >> THEN << >>
    ELSE IF v[1] # "b" THEN <<v[1]>> \o Unescaped[Tail(v)]
    ELSE IF Len(v) > 1 /\ v[2] \in {"s", "b"}
      THEN <<IF v[2] = "b" THEN "b" ELSE "_">> \o Unescaped[From(v, 3)]
    ELSE <<"c">>
Body[v \in Texts] ==
    \/ v = << >>
    \/ v[1] \notin {"q", "b", "d", "c"} /\ Body[Tail(v)]
    \/ v[1] = "b" /\ Len(v) > 1 /\ v[2] \in {"q", "d", "b"} /\ Body[From(v, 3)]
PlainWord(v) == v # << >> /\ \A i \in DOMAIN v : v[i] \in {"x", "s"}
QuotedWord(v) ==
    Len(v) > 1 /\ v[1] = "q" /\ v[Len(v)] = "q" /\ Body[SubSeq(v, 2, Len(v) - 1)]
Command[v \in Texts] ==
    \/ v = << >>
    \/ v[1] = "_" /\ Command[Tail(v)]
    \/ \E k \in 1 .. Len(v) :
         /\ PlainWord(SubSeq(v, 1, k)) \/ QuotedWord(SubSeq(v, 1, k))
         /\ k = Len(v) \/ v[k + 1] = "_"
         /\ Command[From(v, k + 1)]

\* A command passes if and only if it is a sequence of plain words and fully quoted ones:
\* nothing a shell would expand gets through, and nothing well-formed is refused.
ExecPassesIfWellFormed ==
    lines = << >> /\ pc \in {"Some", "None"} => (pc = "Some" <=> Command[Unescaped[raw]])
=============================================================================
