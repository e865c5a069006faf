------------------------------- MODULE BoxBytes -------------------------------
(***************************************************************************)
(* How the container preflight reads bytes                                 *)
(* (src/dynamic_wallpaper/container.rs): the headers of the boxes that     *)
(* follow each other in a parent, and the strings in their bodies.  What   *)
(* the bytes say is chosen freely; the walk goes from box to box.          *)
(***************************************************************************)
EXTENDS Naturals, SequencesExt

CONSTANTS Limit,       \* bound of the model on the end of the parent
          MaxString    \* bound of the model on the length of a string

VARIABLES limit,    \* where the parent ends
          offset,   \* where the walk is
          header,   \* the header read last
          string    \* the bytes of a string up to the end of its box

vars == <<limit, offset, header, string>>

Refused == [body_start |-> 0, body_end |-> 0, next |-> 0]

\* read: the bytes are there.
Readable(from, length, end) == from + length <= end

HeaderFits(length, size) == length >= size

\* read_header: a zero size reaches to the end of the parent, a size of one
\* stands for a 64-bit size, and a uuid box has a longer header.
read_header(at, end, size, large, uuid) ==
    LET short  == IF size = 1 THEN 16 ELSE 8
        total  == short + (IF uuid THEN 16 ELSE 0)
        length == CASE size = 0 -> end - at [] size = 1 -> large [] OTHER -> size
    IN  IF /\ Readable(at, short, end)
           /\ HeaderFits(length, total)
           /\ at + length <= end
        THEN [body_start |-> at + total, body_end |-> at + length, next |-> at + length]
        ELSE Refused

\* read_cstring: up to a zero, or all but the last byte of the box.
read_cstring(bytes) ==
    LET zeros == {i \in DOMAIN bytes : bytes[i] = 0} IN
    IF zeros # {} THEN SubSeq(bytes, 1, (CHOOSE i \in zeros : \A j \in zeros : i <= j) - 1)
    ELSE IF bytes # <<>> THEN Front(bytes) ELSE <<>>

Init ==
    /\ limit \in 8..Limit /\ offset = 0
    /\ header = Refused
    /\ string \in UNION {[1..n -> {0, 7}] : n \in 0..MaxString}
    /\ limit > 8 => string = <<>>

\* walk: the next box, if there is one and it can be read.
walk ==
    /\ offset < limit
    /\ \E size \in {0, 1} \cup 7..25, large \in {0, 15, 16, 24, 32}, uuid \in BOOLEAN :
         LET h == read_header(offset, limit, size, large, uuid) IN
         /\ h # Refused
         /\ header' = h /\ offset' = h.next
    /\ UNCHANGED <<limit, string>>

Spec == Init /\ [][walk]_vars

-----------------------------------------------------------------------------

\* The walk of a parent moves on and ends: every header takes it past itself,
\* and neither a box nor its body reaches past the parent (Walk::walk,
\* read_header).
WalkMovesOn ==
    header # Refused =>
      /\ header.body_start <= header.body_end /\ header.body_end <= limit
      /\ offset = header.body_end

\* The parser's reader takes the bytes one by one; it stops at a zero and does
\* not keep the byte with which the box ends.
Reader ==
    FoldLeft(LAMBDA r, i :
                 IF r.done \/ i = Len(string) \/ string[i] = 0 THEN [r EXCEPT !.done = TRUE]
                 ELSE [r EXCEPT !.value = Append(@, string[i])],
             [value |-> <<>>, done |-> FALSE], [i \in DOMAIN string |-> i]).value

\* The preflight and the parser read the same string, so that they agree on
\* which items are images (read_cstring).
ParserReadsTheSame == read_cstring(string) = Reader
=============================================================================
