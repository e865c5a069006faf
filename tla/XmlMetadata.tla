------------------------------ MODULE XmlMetadata ------------------------------
(***************************************************************************)
(* The two loops over XML events in src/dynamic_wallpaper/heic.rs:         *)
(* parse_xmp collects the Apple properties of an XMP packet, and           *)
(* preflight_xml_plist bounds a property list before it is expanded.  The  *)
(* document is chosen event by event and kept in a log.                    *)
(*                                                                         *)
(* A name is "listed" when it is an Apple property in a packet, or becomes *)
(* a value in a property list.  A text is good Base64 of three bytes,      *)
(* white space, or bad.  Attributes that are no Apple property are left    *)
(* out.                                                                    *)
(***************************************************************************)
EXTENDS Naturals, SequencesExt

CONSTANTS Event,        \* the events documents are made of: see MCXmlMetadata
          max_xml_depth, max_plist_depth, max_xml_events, max_plist_bytes,
          max_expanded_plist_objects

VARIABLES mode,        \* "xmp" or "plist"
          log,         \* the events read
          depth,       \* open elements
          active,      \* the Apple element being read: its depth and its text
          properties,  \* values collected from a packet
          objects,     \* values counted in a property list
          verdict      \* "reading", "accepted", "malformed" or "limit"

vars == <<mode, log, depth, active, properties, objects, verdict>>

NoProperty == [depth |-> 0, value |-> <<>>]

MaxDepth == IF mode = "xmp" THEN max_xml_depth ELSE max_plist_depth

-----------------------------------------------------------------------------

\* decode_plist_base64: white space goes, and the size is bounded before and
\* after the decoding.
Compact(value) == SelectSeq(value, LAMBDA t : t # "white")

Decoded(value) ==
    IF 3 * Len(Compact(value)) > max_plist_bytes THEN "limit"
    ELSE IF Contains(Compact(value), "bad") THEN "malformed" ELSE "reading"

\* The first value of several that does not decode decides.
DecodedAll(values) ==
    FoldLeft(LAMBDA v, value : IF v = "reading" THEN Decoded(value) ELSE v, "reading", values)

\* push_property, for each value
Push(values) ==
    /\ verdict' = DecodedAll(values)
    /\ properties' = IF verdict' = "reading"
                     THEN properties \o [i \in DOMAIN values |-> Compact(values[i])] ELSE properties

Attribute(e) == [i \in DOMAIN e.attributes |-> <<e.attributes[i]>>]

Refuse(why) == verdict' = why /\ UNCHANGED <<depth, active, properties, objects>>

\* charge_plist_element: the elements that plist turns into values.
charge_plist_element(e) ==
    /\ objects' = objects + (IF e.name = "listed" THEN 1 ELSE 0)
    /\ verdict' = IF objects' > max_expanded_plist_objects THEN "limit" ELSE "reading"
    /\ UNCHANGED <<active, properties>>

Start(e) ==
    IF depth + 1 > MaxDepth THEN Refuse("limit")
    ELSE IF active # NoProperty THEN Refuse("malformed")
    ELSE /\ depth' = depth + 1
         /\ \/ mode = "plist" /\ charge_plist_element(e)
            \/ /\ mode = "xmp" /\ Push(Attribute(e))
               /\ active' = IF e.name = "listed" THEN [NoProperty EXCEPT !.depth = depth + 1]
                            ELSE active
               /\ UNCHANGED objects

EmptyTooDeep == depth + 1 > MaxDepth

InProperty == active # NoProperty

\* An empty Apple element is a property without text.
Empty(e) ==
    IF EmptyTooDeep THEN Refuse("limit")
    ELSE IF InProperty THEN Refuse("malformed")
    ELSE /\ \/ mode = "plist" /\ charge_plist_element(e)
            \/ /\ mode = "xmp" /\ UNCHANGED <<active, objects>>
               /\ Push(Attribute(e) \o (IF e.name = "listed" THEN << <<>> >> ELSE <<>>))
         /\ UNCHANGED depth

Appended(text) ==
    /\ active' = IF active = NoProperty THEN active ELSE [active EXCEPT !.value = Append(@, text)]
    /\ UNCHANGED <<depth, properties, objects, verdict>>

\* The end of the Apple element gives its value.  An end without a start is an
\* error of the reader.
End ==
    IF depth = 0 THEN Refuse("malformed")
    ELSE /\ depth' = depth - 1
         /\ IF active # NoProperty /\ active.depth = depth
            THEN Push(<<active.value>>) /\ active' = NoProperty
            ELSE UNCHANGED <<active, properties, verdict>>
         /\ UNCHANGED objects

\* Entities, comments and instructions may stand anywhere but in an Apple
\* element, where only character references may.
Reference(e) ==
    IF active = NoProperty THEN UNCHANGED <<depth, active, properties, objects, verdict>>
    ELSE IF ~e.character THEN Refuse("malformed")
    ELSE Appended("good")

Comment ==
    IF active = NoProperty THEN UNCHANGED <<depth, active, properties, objects, verdict>>
    ELSE Refuse("malformed")

DocType ==
    IF mode = "plist" THEN UNCHANGED <<depth, active, properties, objects, verdict>>
    ELSE Refuse("malformed")

HasRoot == \E i \in DOMAIN log : log[i].type \in {"start", "empty"}

Eof ==
    Refuse(IF depth # 0 \/ active # NoProperty \/ (mode = "plist" /\ ~HasRoot)
           THEN "malformed" ELSE "accepted")

\* One turn of either loop: an event is counted before it is read.
TooManyEvents ==
    /\ verdict = "reading" /\ Len(log) = max_xml_events
    /\ Refuse("limit")
    /\ UNCHANGED <<mode, log>>

Read(e) ==
    /\ verdict = "reading"
    /\ Len(log) < max_xml_events
    /\ log' = Append(log, e)
    /\ CASE e.type = "start" -> Start(e)
         [] e.type = "empty" -> Empty(e)
         [] e.type \in {"text", "cdata"} -> Appended(e.text)
         [] e.type = "end" -> End
         [] e.type = "reference" -> Reference(e)
         [] e.type = "comment" -> Comment
         [] e.type = "doctype" -> DocType
         [] e.type = "eof" -> Eof
    /\ UNCHANGED mode

\* Before its loop, preflight_xml_plist refuses what is too long, and what does not
\* begin like XML.
Preflight ==
    /\ verdict = "reading" /\ mode = "plist" /\ log = <<>>
    /\ Refuse("limit") \/ Refuse("malformed")
    /\ UNCHANGED <<mode, log>>

\* read_event fails: the document is not well-formed here.
Unreadable ==
    /\ verdict = "reading"
    /\ Refuse("malformed")
    /\ UNCHANGED <<mode, log>>

Init ==
    /\ mode \in {"xmp", "plist"} /\ log = <<>> /\ depth = 0
    /\ active = NoProperty /\ properties = <<>> /\ objects = 0 /\ verdict = "reading"

Next == (\E e \in Event : Read(e)) \/ Preflight \/ TooManyEvents \/ Unreadable

Spec == Init /\ [][Next]_vars

-----------------------------------------------------------------------------
(* The document, as a tree over its events *)

Count(i, j, types) == Cardinality({k \in i..j : log[k].type \in types})

\* Where an element that starts at i ends, and the elements around an event.
EndOf(i) == Min({j \in i..Len(log) : log[j].type = "end" /\ Count(i, j, {"start"}) = Count(i, j, {"end"})})

LevelAt(i) == Count(1, i, {"start"}) - Count(1, i - 1, {"end"}) + Count(i, i, {"empty"})

\* The text of an element, event by event.
Content(i) ==
    LET inside == SubSeq(log, i + 1, EndOf(i) - 1) IN
    [k \in DOMAIN inside |-> IF inside[k].type = "reference" THEN "good"
                             ELSE IF inside[k].type \in {"text", "cdata"} THEN inside[k].text
                             ELSE "markup"]

Started(j) == CHOOSE i \in 1..j : log[i].type = "start" /\ EndOf(i) = j

\* The values an event gives: of attributes at a tag, of text where it ends.
Values(k) ==
    IF log[k].type \in {"start", "empty"}
    THEN [i \in DOMAIN log[k].attributes |-> Compact(<<log[k].attributes[i]>>)]
         \o (IF log[k].type = "empty" /\ log[k].name = "listed" THEN << <<>> >> ELSE <<>>)
    ELSE IF log[k].type = "end" /\ log[Started(k)].name = "listed"
    THEN << Compact(Content(Started(k))) >>
    ELSE <<>>

-----------------------------------------------------------------------------
(* Properties *)

\* The properties of a packet that is accepted are exactly those its elements
\* and attributes state, in document order, each made of all the text of its
\* element and of nothing but text (parse_xmp).
PropertiesAreThePackets ==
    verdict = "accepted" /\ mode = "xmp" =>
        /\ properties = FlattenSeq([k \in DOMAIN log |-> Values(k)])
        /\ \A i \in DOMAIN log : log[i].type = "start" /\ log[i].name = "listed" =>
               ~Contains(Content(i), "markup")

\* What passes is within the limits on nesting, size and values, with empty
\* elements counted as a level (parse_xmp, preflight_xml_plist).
AcceptedIsBounded ==
    verdict = "accepted" =>
        /\ \A i \in DOMAIN log : log[i].type \in {"start", "empty"} => LevelAt(i) <= MaxDepth
        /\ mode = "plist" =>
             /\ HasRoot
             /\ Cardinality({i \in DOMAIN log : log[i].type \in {"start", "empty"}
                                                  /\ log[i].name = "listed"})
                  <= max_expanded_plist_objects
        /\ \A i \in DOMAIN properties : 3 * Len(properties[i]) <= max_plist_bytes
=============================================================================
