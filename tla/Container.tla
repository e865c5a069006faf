------------------------------ MODULE Container ------------------------------
(***************************************************************************)
(* The structural preflight of HEIF containers                             *)
(* (src/dynamic_wallpaper/container.rs).  The walk visits every box that   *)
(* the native parser would, in file order, and adds what the boxes declare *)
(* to totals of the whole container; a container over a budget, or one the *)
(* walk and the parser could read differently, is refused.                 *)
(*                                                                         *)
(* A box is a record of its kind and of what its body declares.  The file  *)
(* is chosen box by box while the walk reads it, and kept to say what the  *)
(* parser will have to allocate.                                           *)
(***************************************************************************)
EXTENDS Naturals, SequencesExt, FiniteSetsExt

CONSTANTS
    Box,                         \* boxes files are made of
    max_container_items, max_container_associations, max_metadata_items,
    max_metadata_bytes, max_container_boxes, max_container_depth, max_item_extents

VARIABLES
    file,     \* the boxes read so far, each with its depth
    stack,    \* the open boxes, outermost first, with the children they declare
    totals,   \* Walk.totals, boxes and flags
    items,    \* Walk.metadata_items
    extents,  \* Walk.extents
    verdict   \* the outcome of the preflight

vars == <<file, stack, totals, items, extents, verdict>>

-----------------------------------------------------------------------------
(* Boxes *)

\* Children follow the header, a prefix, or a count (is_container,
\* is_visual_sample_entry, meta, dref, urim, iinf, stsd).
Containers == {"meta", "iprp", "hvc1"}
Counted    == {"iinf", "stsd"}

\* is_image_item: a MIME item may be an image by its content type.
is_image_item(b) == b.type \in {"image", "mime image"}

\* Items the parser loads while it parses: every one that is no image, and
\* every MIME item again in its text pass.
Eager(b) == b.type # "image"

SumSeq(s) == FoldLeft(LAMBDA a, n : a + n, 0, s)

Over(limit) == [outcome |-> "limit", of |-> limit]
Malformed   == [outcome |-> "malformed", of |-> "box"]
Walking     == [outcome |-> "walking", of |-> ""]
Accepted    == [outcome |-> "accepted", of |-> ""]

Depth == Len(stack)

-----------------------------------------------------------------------------
(* The parsers of single boxes.  Each sets the variables of the walk but the *)
(* file and the stack.                                                      *)

Unread == UNCHANGED <<items, extents>>

Nothing == verdict' = Walking /\ Unread

\* Adds n to a total and refuses the container when it is over its limit.
Charge(t, total, n, limit, name) ==
    /\ totals' = [t EXCEPT ![total] = @ + n]
    /\ verdict' = IF t[total] + n > limit THEN Over(name) ELSE Walking

parse_infe(t, b) ==
    /\ totals' = [t EXCEPT !.items = @ + 1]
    /\ UNCHANGED extents
    /\ IF t.items + 1 > max_container_items
       THEN verdict' = Over("items") /\ UNCHANGED items
       ELSE IF (is_image_item(b) /\ b.type # "mime image") \/ Contains(items, b.id)
       THEN verdict' = Walking /\ UNCHANGED items
       ELSE IF Len(items) >= max_metadata_items
       THEN verdict' = Over("metadata items") /\ UNCHANGED items
       ELSE verdict' = Walking /\ items' = Append(items, b.id)

\* The record count is charged before the records are read.
parse_iloc(t, b) ==
    /\ totals' = [t EXCEPT !.iloc_records = @ + Len(b.records)]
    /\ UNCHANGED items
    /\ IF t.iloc_records + Len(b.records) > max_container_items
       THEN verdict' = Over("records") /\ UNCHANGED extents
       ELSE IF \E i \in DOMAIN b.records : Len(b.records[i].lengths) > max_item_extents
       THEN verdict' = Over("extents") /\ UNCHANGED extents
       ELSE /\ verdict' = Walking
            /\ extents' = extents \o [i \in DOMAIN b.records |->
                   [id |-> b.records[i].id, bytes |-> SumSeq(b.records[i].lengths)]]

\* A list that is empty, or does not fill its box, would be read otherwise by
\* the parser.
parse_iref(t, b) ==
    /\ Unread
    /\ IF b.count = 0 THEN totals' = t /\ verdict' = Malformed
       ELSE IF ~b.fills /\ t.references + b.count <= max_container_items
       THEN totals' = t /\ verdict' = Malformed
       ELSE Charge(t, "references", b.count, max_container_items, "references")

parse_tref(t, b) ==
    /\ Unread
    /\ IF b.count = 0 THEN totals' = t /\ verdict' = Malformed
       ELSE Charge(t, "references", b.count, max_container_items, "references")

parse_ipma(t, b) ==
    /\ Unread
    /\ IF t.entries + Len(b.associations) > max_container_items
       THEN totals' = t /\ verdict' = Over("associations")
       ELSE Charge([t EXCEPT !.entries = @ + Len(b.associations)], "associations",
                   SumSeq(b.associations), max_container_associations, "associations")

parse_ftyp(t, b) == totals' = [t EXCEPT !.sequence_brand = b.sequence] /\ Nothing

parse_colr(t, b) ==
    /\ Unread /\ totals' = t
    /\ verdict' = IF b.empty THEN Malformed ELSE Walking

\* A container, a counted box, or a sample entry whose name fits its field.
Descend(t, b) ==
    /\ Unread
    /\ totals' = IF b.kind = "meta" THEN [t EXCEPT !.saw_meta = TRUE] ELSE t
    /\ verdict' = IF b.kind = "hvc1" /\ b.long_name THEN Malformed ELSE Walking

-----------------------------------------------------------------------------
(* The walk *)

TooDeep(b) == Depth > max_container_depth

\* A box that declares its children has room for another one.
Expected ==
    stack # <<>> => (Last(stack).kind = "stsd" => Last(stack).left > 0)

Counting(s) ==
    IF s = <<>> THEN s ELSE [s EXCEPT ![Len(s)].left = IF @ > 0 THEN @ - 1 ELSE @,
                                      ![Len(s)].seen = @ + 1]

Dispatch(t, b) ==
    CASE b.kind = "infe" -> parse_infe(t, b)
      [] b.kind = "iloc" -> parse_iloc(t, b)
      [] b.kind = "iref" -> parse_iref(t, b)
      [] b.kind = "tref" -> parse_tref(t, b)
      [] b.kind = "ipma" -> parse_ipma(t, b)
      [] b.kind = "ftyp" -> parse_ftyp(t, b)
      [] b.kind = "colr" -> parse_colr(t, b)
      [] b.kind = "mini" -> totals' = [t EXCEPT !.saw_mini = TRUE] /\ Nothing
      [] b.kind = "free" -> totals' = t /\ Nothing
      [] OTHER -> Descend(t, b)

\* visit: the ceilings of depth and count hold for every box, however the
\* walk came to it; then the box is dispatched by its kind.
visit(b) ==
    /\ verdict = Walking /\ Expected
    /\ LET t == [totals EXCEPT !.boxes = @ + 1] IN
       IF TooDeep(b)
       THEN totals' = totals /\ verdict' = Over("depth") /\ Unread
       ELSE IF t.boxes > max_container_boxes
       THEN totals' = t /\ verdict' = Over("boxes") /\ Unread
       ELSE Dispatch(t, b)
    /\ file' = Append(file, [box |-> b, depth |-> Depth])
    /\ stack' = IF verdict' = Walking /\ b.kind \in Containers \cup Counted
                THEN Append(Counting(stack),
                            [kind |-> b.kind, seen |-> 0,
                             declared |-> IF b.kind \in Counted THEN b.declared ELSE 0,
                             left |-> IF b.kind \in Counted THEN b.declared ELSE 0])
                ELSE Counting(stack)

\* The body of the innermost box ends: an item information box has the entries
\* it declares, and a sample description all of them.
EndBox ==
    /\ verdict = Walking /\ stack # <<>>
    /\ LET top == Last(stack) IN
       verdict' = IF top.kind \in Counted /\ top.seen # top.declared THEN Malformed ELSE Walking
    /\ stack' = Front(stack)
    /\ UNCHANGED <<file, totals, items, extents>>

\* A box header or body that its parent does not hold (read_header, read).
Truncated ==
    /\ verdict = Walking
    /\ verdict' = Malformed
    /\ UNCHANGED <<file, stack, totals, items, extents>>

\* Bug: the first record of an item is charged.
ItemBytes_First(id) ==
    LET mine == SelectSeq(extents, LAMBDA e : e.id = id) IN
    IF mine = <<>> THEN 0 ELSE mine[1].bytes

\* The largest record of an item, whichever the parser will read.
ItemBytes(id) ==
    Max({0} \cup {extents[i].bytes : i \in {j \in DOMAIN extents : extents[j].id = id}})

check_metadata_bytes ==
    SumSeq([i \in DOMAIN items |-> ItemBytes(items[i])]) <= max_metadata_bytes

\* run, after the walk of the whole file
EndFile ==
    /\ verdict = Walking /\ stack = <<>>
    /\ verdict' = IF ~totals.saw_meta /\ ~totals.saw_mini /\ ~totals.sequence_brand
                  THEN Malformed
                  ELSE IF check_metadata_bytes THEN Accepted ELSE Over("metadata bytes")
    /\ UNCHANGED <<file, stack, totals, items, extents>>

Init ==
    /\ file = <<>> /\ stack = <<>> /\ items = <<>> /\ extents = <<>>
    /\ totals = [boxes |-> 0, items |-> 0, iloc_records |-> 0, references |-> 0,
                 entries |-> 0, associations |-> 0, saw_meta |-> FALSE, saw_mini |-> FALSE,
                 sequence_brand |-> FALSE]
    /\ verdict = Walking

Next == (\E b \in Box : visit(b)) \/ EndBox \/ Truncated \/ EndFile

Spec == Init /\ [][Next]_vars

-----------------------------------------------------------------------------
(* What the parser has to do for the file *)

Of(kind) == {i \in DOMAIN file : file[i].box.kind = kind}

Count(S, Value(_)) == MapThenSumSet(LAMBDA i : Value(file[i].box), S)

\* Items loaded while parsing: an item counts by its first declaration.
EagerItems == {file[i].box.id : i \in {j \in Of("infe") : Eager(file[j].box)}}

\* Locations the parser may take for an item.
Located(id) ==
    UNION {{SumSeq(file[i].box.records[k].lengths) :
              k \in {j \in DOMAIN file[i].box.records : file[i].box.records[j].id = id}} :
           i \in Of("iloc")}

\* The most the parser can load for its eager items.
EagerBytes == MapThenSumSet(LAMBDA id : Max({0} \cup Located(id)), EagerItems)

References == Count(Of("iref") \cup Of("tref"), LAMBDA b : b.count)

Fits ==
    /\ Len(file) <= max_container_boxes
    /\ \A i \in DOMAIN file : file[i].depth <= max_container_depth
    /\ Cardinality(Of("infe")) <= max_container_items
    /\ Count(Of("iloc"), LAMBDA b : Len(b.records)) <= max_container_items
    /\ References <= max_container_items
    /\ Count(Of("ipma"), LAMBDA b : Len(b.associations)) <= max_container_items
    /\ Count(Of("ipma"), LAMBDA b : SumSeq(b.associations)) <= max_container_associations
    /\ Cardinality(EagerItems) <= max_metadata_items
    /\ EagerBytes <= max_metadata_bytes
    /\ \A i \in Of("iloc") : \A k \in DOMAIN file[i].box.records :
           Len(file[i].box.records[k].lengths) <= max_item_extents

-----------------------------------------------------------------------------
(* Properties *)

\* A container that passes is within every budget as a whole: no budget is
\* escaped by spreading items, records, references or associations over boxes,
\* by nesting boxes in counted boxes, or by a decoy location for an item
\* (preflight, visit, check_metadata_bytes).
AcceptedFits == verdict = Accepted => Fits

\* A container is refused for a limit only when it is over one: neither a
\* repeated declaration of an item nor a second location of it is charged
\* twice (parse_infe, check_metadata_bytes).
LimitHasCause == verdict.outcome = "limit" => ~Fits
=============================================================================
