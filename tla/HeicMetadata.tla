----------------------------- MODULE HeicMetadata -----------------------------
(***************************************************************************)
(* The Apple metadata of a dynamic wallpaper: read_metadata and            *)
(* parse_property (src/dynamic_wallpaper/heic.rs) take the properties out  *)
(* of the metadata blocks of the primary image; Metadata::insert and       *)
(* Metadata::select (src/dynamic_wallpaper.rs) merge them and choose what  *)
(* the wallpaper shows.                                                    *)
(*                                                                         *)
(* A block is its size and the property lists found in it; a list is the   *)
(* images of its points and an optional light and dark pair; an image is   *)
(* the number it is referred to by, from 0.                                *)
(***************************************************************************)
EXTENDS Naturals, SequencesExt

CONSTANTS Block,         \* metadata blocks: see MCHeicFile
          NoPair,        \* the pair of a list that has none
          Images,        \* number of top-level images
          max_metadata_blocks, max_metadata_block_bytes, max_metadata_bytes,
          max_schedule_points,
          MaxBlocks      \* bound of the model on the blocks of a document

VARIABLES blocks,     \* the blocks of the primary image
          next,       \* the block to read
          total,      \* size of the blocks so far
          loaded,     \* bytes taken out of the native parser
          metadata,   \* the state of each property
          verdict,    \* "reading", "read" or the error
          selection   \* what select chose, once asked

vars == <<blocks, next, total, loaded, metadata, verdict, selection>>

Property == {"time", "solar", "appearance"}

Missing    == [state |-> "missing"]
Valid(v)   == [state |-> "valid", value |-> v]
Conflicted == [state |-> "conflicted"]

Primary  == [kind |-> "primary"]
Static(i) == [kind |-> "static", image |-> i]
Dynamic(kind, schedule) == [kind |-> kind, points |-> schedule.points]

-----------------------------------------------------------------------------
(* parse_property *)

\* image_reference: the index of a top-level image (TopLevelImages::resolve).
image_reference(i) == i \in 0..Images - 1

parse_appearance(pair) ==
    pair # NoPair /\ image_reference(pair.dark) /\ image_reference(pair.light)

optional_appearance(pair) == pair = NoPair \/ parse_appearance(pair)

\* number, NormalizedTime::new, SolarPosition::new: every number of a point is
\* finite and in its range.
InDomain(list) == list.in_domain

\* parse_h24, parse_solar: between one point and the limit, each of a top-level
\* image.
ScheduleParses(list) ==
    /\ Len(list.points) \in 1..max_schedule_points
    /\ \A i \in DOMAIN list.points : image_reference(list.points[i])
    /\ InDomain(list)
    /\ optional_appearance(list.pair)

parse_property(list) ==
    IF list.property = "appearance"
    THEN parse_appearance(list.pair)
    ELSE ScheduleParses(list)

-----------------------------------------------------------------------------
(* Metadata::insert *)

\* Bug: a conflict is forgotten with the next value.
insert_property_Forgets(state, v) ==
    CASE state.state = "missing"    -> Valid(v)
      [] state.state = "valid"      -> IF state.value = v THEN state ELSE Conflicted
      [] state.state = "conflicted" -> Valid(v)

\* The same value again changes nothing, another one invalidates the property.
insert_property(state, v) ==
    CASE state.state = "missing"    -> Valid(v)
      [] state.state = "valid"      -> IF state.value = v THEN state ELSE Conflicted
      [] state.state = "conflicted" -> state

Value(list) == [points |-> list.points, pair |-> list.pair]

insert(m, list) == [m EXCEPT ![list.property] = insert_property(@, Value(list))]

-----------------------------------------------------------------------------
(* read_metadata *)

Fail(why) == verdict' = why /\ UNCHANGED <<blocks, next, metadata, selection>>

\* The blocks are counted and enumerated, which may fail.
Count ==
    /\ verdict = "counting"
    /\ IF Len(blocks) > max_metadata_blocks THEN Fail("limit")
       ELSE \/ verdict' = "reading" /\ UNCHANGED <<blocks, next, metadata, selection>>
            \/ Fail("container")
    /\ UNCHANGED <<total, loaded>>

Charged(b) == b.size

\* One block: it is charged before it is taken, and only XMP packets are.  It may
\* not be available; the lists of a packet are parsed and inserted in turn.
ReadBlock ==
    /\ verdict = "reading" /\ next <= Len(blocks)
    /\ LET b == blocks[next] IN
       /\ total' = total + Charged(b)
       /\ IF b.size > max_metadata_block_bytes \/ total' > max_metadata_bytes
          THEN Fail("limit") /\ UNCHANGED loaded
          ELSE IF ~b.rdf
          THEN next' = next + 1 /\ UNCHANGED <<blocks, loaded, metadata, verdict, selection>>
          ELSE \/ Fail("container") /\ UNCHANGED loaded
               \/ /\ loaded' = loaded + b.size
                  /\ IF \E i \in DOMAIN b.lists : ~parse_property(b.lists[i])
                     THEN Fail("metadata")
                     ELSE /\ next' = next + 1
                          /\ metadata' = FoldLeft(insert, metadata, b.lists)
                          /\ UNCHANGED <<blocks, verdict, selection>>

Finish ==
    /\ verdict = "reading" /\ next > Len(blocks)
    /\ verdict' = "read"
    /\ UNCHANGED <<blocks, next, total, loaded, metadata, selection>>

-----------------------------------------------------------------------------
(* Metadata::select *)

PairOf(p) == IF metadata[p].state = "valid" THEN metadata[p].value.pair ELSE NoPair

\* The pair of its own property, or else that of the time or solar schedule.
fallback_appearance ==
    IF PairOf("appearance") # NoPair THEN PairOf("appearance")
    ELSE IF PairOf("time") # NoPair THEN PairOf("time") ELSE PairOf("solar")

select(preference, solar) ==
    LET pair == fallback_appearance
        IsValid(p) == metadata[p].state = "valid"
    IN  IF preference # "automatic"
        THEN IF pair = NoPair THEN Primary ELSE Static(pair[preference])
        ELSE IF solar /\ IsValid("solar") THEN Dynamic("solar", metadata["solar"].value)
        ELSE IF IsValid("time") THEN Dynamic("time", metadata["time"].value)
        ELSE IF pair = NoPair THEN Primary ELSE Static(pair.light)

\* The player asks once it knows the preference and whether it has a location.
Select ==
    /\ verdict = "read"
    /\ \E preference \in {"automatic", "light", "dark"}, solar \in BOOLEAN :
         selection' = select(preference, solar)
    /\ UNCHANGED <<blocks, next, total, loaded, metadata, verdict>>

Init ==
    /\ blocks \in UNION {[1..n -> Block] : n \in 0..MaxBlocks}
    /\ next = 1 /\ total = 0 /\ loaded = 0
    /\ metadata = [p \in Property |-> Missing]
    /\ verdict = "counting" /\ selection = Primary

Next == Count \/ ReadBlock \/ Finish \/ Select

Spec == Init /\ [][Next]_vars

-----------------------------------------------------------------------------
(* Properties *)

\* The values of a property in all packets.
ValuesOf(p) ==
    UNION {{Value(l) : l \in {k \in Range(b.lists) : k.property = p}} :
           b \in {c \in Range(blocks) : c.rdf}}

\* The metadata depends on which values the packets hold, not on their order
\* or on how often one is repeated: a property counts when it has one value,
\* and two values leave it out for good (Metadata::insert).
OrderDoesNotMatter ==
    verdict = "read" => \A p \in Property :
        metadata[p] = IF ValuesOf(p) = {} THEN Missing
                      ELSE IF Cardinality(ValuesOf(p)) = 1
                      THEN Valid(CHOOSE v \in ValuesOf(p) : TRUE) ELSE Conflicted

\* Whatever is selected, the images it can show are in the document, also when a
\* schedule, or every property, comes without a pair (parse_property,
\* Metadata::select, TopLevelImages::resolve).
SelectedImagesExist ==
    CASE selection.kind = "primary" -> TRUE
      [] selection.kind = "static"  -> selection.image \in 0..Images - 1
      [] OTHER -> selection.points # <<>>
                  /\ \A i \in DOMAIN selection.points : selection.points[i] \in 0..Images - 1

\* The pairs that valid properties state.
StatedPairs == {PairOf(p) : p \in Property} \ {NoPair}

\* A picture for a light or a dark screen is that of a pair some valid property
\* states, and the primary image stands in only where no property states one;
\* a schedule's own points are those of its only value (Metadata::select,
\* fallback_appearance).
SelectionIsStated ==
    verdict = "read" =>
        \A preference \in {"automatic", "light", "dark"}, solar \in BOOLEAN :
            LET s == select(preference, solar) IN
            CASE s.kind = "primary" -> StatedPairs = {}
              [] s.kind = "static"  ->
                     s.image \in {IF preference = "dark" THEN p.dark ELSE p.light : p \in StatedPairs}
              [] OTHER -> /\ preference = "automatic" /\ s.kind = "solar" => solar
                          /\ \A v \in ValuesOf(s.kind) : v.points = s.points

\* The blocks of a document are within the budget together, those that are no
\* packets included, and nothing over it is taken (read_metadata).
BlocksFitBudget ==
    /\ loaded <= max_metadata_bytes
    /\ verdict = "read" => FoldLeft(LAMBDA n, b : n + b.size, 0, blocks) <= max_metadata_bytes
=============================================================================
