----------------------------- MODULE MCHeicFile -----------------------------
(***************************************************************************)
(* Everything that reads a dynamic wallpaper before and after libheif: the *)
(* boxes of the container and their bytes, the file itself, the pixels of  *)
(* an image, its metadata and its colour profile, and the schedule in it.  *)
(* Each reads its own input to the end, so a behaviour is that of one of   *)
(* them, `part`; the variables v1 to v12 are the variables of that part.   *)
(***************************************************************************)
EXTENDS Integers, Sequences

CONSTANTS
    MaxLength, max_source_bytes, MaxChanges,    \* of HeicDocument
    Limit, MaxString,                           \* of BoxBytes
    SecondsPerDay, Grain, SampleSeconds,        \* of DynamicSchedule
    MaxPoints,    \* bound of the model on the points of a schedule
    MaxSlope,     \* bound of the model on how fast the sun comes and goes
    NoPair        \* of HeicMetadata

ASSUME FileAssumption ==
    {MaxLength, max_source_bytes, Limit, MaxString, MaxPoints, MaxSlope} \subseteq Nat

VARIABLES part, v1, v2, v3, v4, v5, v6, v7, v8, v9, v10, v11, v12

pool == <<part, v1, v2, v3, v4, v5, v6, v7, v8, v9, v10, v11, v12>>

Unused == "unused"

-----------------------------------------------------------------------------
(* Boxes: two items, locations of one, two or three extents, lists around  *)
(* the budgets, and boxes to nest.                                         *)

Infe(id, type) == [kind |-> "infe", id |-> id, type |-> type]
Iloc(id, n) == [kind |-> "iloc", records |-> <<[id |-> id, lengths |-> [i \in 1..n |-> 1]]>>]

Both == [kind |-> "iloc", records |-> Iloc(1, 1).records \o Iloc(2, 1).records]

Box ==
    {[kind |-> "meta"], [kind |-> "hvc1", long_name |-> TRUE],
     [kind |-> "iinf", declared |-> 1], [kind |-> "stsd", declared |-> 1],
     Infe(1, "image"), Infe(1, "mime image"), Infe(1, "text"), Infe(2, "text"), Infe(3, "text"),
     Iloc(1, 2), Iloc(2, 3), Both,
     [kind |-> "iref", count |-> 0, fills |-> TRUE],
     [kind |-> "iref", count |-> 1, fills |-> FALSE],
     [kind |-> "iref", count |-> 2, fills |-> TRUE],
     [kind |-> "tref", count |-> 1],
     [kind |-> "ipma", associations |-> <<2>>],
     [kind |-> "ftyp", sequence |-> TRUE], [kind |-> "colr", empty |-> TRUE]}

-----------------------------------------------------------------------------
(* Images *)

\* A transform that is not linear, so that it does not commute with alpha.
Convert(transform, c) == IF transform = "identity" THEN c ELSE 255 - c

PlainItem ==
    [width |-> 1, height |-> 1, plane_width |-> 1, plane_height |-> 1, stride |-> 1,
     plane_length |-> 1, bits |-> 8, nclx |-> "none", decoded_nclx |-> "srgb",
     profile |-> [bytes |-> 0, converts |-> FALSE, transform |-> "none"],
     decoded_profile |-> FALSE, premultiplied |-> FALSE, plane_is_rgba8 |-> TRUE]

ProfileOf(t) == [bytes |-> 1, converts |-> TRUE, transform |-> t]

Stored == UNION {{[PlainItem EXCEPT !.premultiplied = p],
                  [PlainItem EXCEPT !.premultiplied = p, !.profile = ProfileOf("identity"), !.decoded_profile = TRUE],
                  [PlainItem EXCEPT !.premultiplied = p, !.profile = ProfileOf("negative"), !.decoded_profile = TRUE]}
                 : p \in BOOLEAN}

\* Sizes and strides, some of which are refused.
Sized == {[PlainItem EXCEPT !.width = w, !.height = h, !.plane_width = pw, !.plane_height = h,
                        !.stride = s, !.plane_length = n, !.premultiplied = TRUE] :
             w \in 0..3, h \in 0..2, pw \in 1..2, s \in 1..3, n \in {2, 4, 6}}

\* Profiles and colour tags; the decoder hands a profile of the item through.
Tagged == {i \in {[PlainItem EXCEPT !.bits = b, !.nclx = n, !.decoded_nclx = d, !.decoded_profile = t,
                         !.profile = [bytes |-> s, converts |-> c, transform |-> "negative"]] :
             b \in {8, 10}, n \in {"none", "srgb", "p3"}, d \in {"srgb", "p3"}, t \in BOOLEAN,
             s \in {0, 1, 2, 3}, c \in BOOLEAN} : i.profile.bytes # 0 => i.decoded_profile}

Item == Stored \cup Sized \cup Tagged \cup {[PlainItem EXCEPT !.plane_is_rgba8 = FALSE]}
Channel == {0, 1, 2, 50, 127, 128, 200, 254, 255} \cup 90..110
Alpha == {0, 1, 2, 3, 64, 100, 127, 128, 191, 254, 255}

-----------------------------------------------------------------------------
(* Metadata and profiles *)

\* Collections of up to two references, of which 2 is valid in a list of three.
Object ==
    {[kind |-> "value", fits |-> f] : f \in BOOLEAN}
    \cup {[kind |-> k, length |-> 60, fits |-> TRUE] : k \in {"data", "utf16"}}
    \cup {[kind |-> "collection", children |-> s, fits |-> TRUE] :
             s \in UNION {[1..n -> 0..2] : n \in 0..2} \cup {<<0, 1, 2, 1>>}}

Element(type, name, attributes) == [type |-> type, name |-> name, attributes |-> attributes]

Event ==
    {Element("start", "listed", <<>>), Element("start", "other", <<"good">>),
     Element("empty", "listed", <<"good">>), Element("empty", "other", <<>>),
     Element("empty", "other", <<"white", "bad">>)}
    \cup {[type |-> "text", text |-> "good"], [type |-> "text", text |-> "bad"],
          [type |-> "cdata", text |-> "white"]}
    \cup [type : {"reference"}, character : BOOLEAN]
    \cup [type : {"end", "comment", "doctype", "eof"}]

Pair(l, d) == [light |-> l, dark |-> d]
List(property, points, pair) ==
    [property |-> property, points |-> points, pair |-> pair, in_domain |-> TRUE]

\* Schedules with and without a pair, pairs alone, and references to images that
\* are not there.
Lists ==
    {List(p, <<0, 1>>, NoPair) : p \in {"time", "solar"}}
    \cup {List("time", <<1>>, Pair(1, 0)), List("solar", <<1>>, Pair(0, 2)), List("time", <<>>, NoPair),
          List("solar", <<2>>, NoPair), List("time", <<0, 1, 0>>, NoPair),
          List("appearance", <<>>, Pair(0, 1)), List("appearance", <<>>, Pair(1, 0)),
          List("appearance", <<>>, Pair(2, 0)), List("appearance", <<>>, Pair(0, -1)),
          List("appearance", <<>>, NoPair), List("time", <<-1>>, NoPair),
          List("solar", <<1>>, Pair(1, 1)), [List("solar", <<0>>, NoPair) EXCEPT !.in_domain = FALSE]}

Block ==
    [size : {1}, rdf : {TRUE}, lists : {<<l>> : l \in Lists}]
    \cup {[size |-> 1, rdf |-> TRUE, lists |-> <<List("time", <<1>>, NoPair), List("time", <<0>>, NoPair)>>],
          [size |-> 2, rdf |-> FALSE, lists |-> <<>>], [size |-> 3, rdf |-> TRUE, lists |-> <<>>]}

Localized(size, records) == [kind |-> "mluc", offset |-> 0, size |-> size, records |-> records]
Record(offset, length) == [offset |-> offset, length |-> length]

Tag ==
    {Localized(s, r) : s \in {0, 27, 40}, r \in {<<Record(28, 8)>>, <<Record(28, 8), Record(28, 8)>>,
                                                 <<Record(40, 4), Record(28, 8)>>}}
    \cup [kind : {"desc"}, offset : {0}, size : {30}, ascii : {2, 19}, units : {2, 5}]
    \cup [kind : {"text"}, offset : {0, 40}, size : {12}]
    \cup [kind : {"curv"}, offset : {0, 41}, size : {0}]

-----------------------------------------------------------------------------
(* The parts *)

Boxes == INSTANCE Container
    WITH Box <- Box, max_container_items <- 3, max_container_associations <- 3,
         max_metadata_items <- 2, max_metadata_bytes <- 1, max_container_boxes <- 4,
         max_container_depth <- 2, max_item_extents <- 2,
         file <- v1, stack <- v2, totals <- v3, items <- v4, extents <- v5,
         verdict <- v6

Bytes == INSTANCE BoxBytes
    WITH limit <- v1, offset <- v2, header <- v3, string <- v4

Opened == INSTANCE HeicDocument
    WITH path <- v1, disk <- v2, changes <- v3, pc <- v4, bound <- v5, file <- v6,
         measured <- v7, source <- v8, reader <- v9, limit <- v10, parsed <- v11,
         outcome <- v12

Decoded == INSTANCE HeicPixels
    WITH Channel <- Channel, Alpha <- Alpha, Item <- Item, Convert <- Convert,
         max_width <- 2, max_height <- 2, max_pixels <- 4, max_output <- 3, max_profile <- 2,
         item <- v1, straight <- v2, alpha <- v3, color <- v4, pixels <- v5,
         stage <- v6

Binary == INSTANCE PropertyList
    WITH Object <- Object, Count <- {0, 2, 3}, MaxCount <- 3, max_plist_objects <- 3,
         max_expanded_plist_objects <- 5, max_expanded_plist_bytes <- 420, max_plist_depth <- 3,
         trailer <- v1, objects <- v2, stack <- v3, expanded <- v4,
         expanded_bytes <- v5, verdict <- v6

Xml == INSTANCE XmlMetadata
    WITH Event <- Event, max_xml_depth <- 2, max_plist_depth <- 2, max_xml_events <- 5,
         max_plist_bytes <- 4, max_expanded_plist_objects <- 2,
         mode <- v1, log <- v2, depth <- v3, active <- v4, properties <- v5,
         objects <- v6, verdict <- v7

Merged == INSTANCE HeicMetadata
    WITH Block <- Block, Images <- 2, max_metadata_blocks <- 3, max_metadata_block_bytes <- 2,
         max_metadata_bytes <- 3, max_schedule_points <- 2, MaxBlocks <- 4,
         blocks <- v1, next <- v2, total <- v3, loaded <- v4, metadata <- v5,
         verdict <- v6, selection <- v7

Profile == INSTANCE IccProfile
    WITH Length <- {20, 40}, Tag <- Tag, MaxTags <- 3, max_color_profile_tags <- 2,
         max_color_profile_text_bytes <- 30, max_color_profile_text_records <- 3,
         profile <- v1, index <- v2, text_bytes <- v3, text_records <- v4,
         verdict <- v5

\* Schedules whose last boundary may fall on the end of the day: v1 is a schedule
\* in metadata order, v2 the time of day, and v3 an authored position of the sun,
\* the second at which it is nearest and the slopes before and after.
Schedule == INSTANCE DynamicSchedule

ASSUME DayAssumption == Schedule!ScheduleAssumption

Times == UNION {[1..n -> 0..Grain - 1] : n \in 1..MaxPoints}

ScheduleInit ==
    /\ \E times \in Times : v1 = [i \in DOMAIN times |-> Schedule!Point(i, times[i])]
    /\ v2 = 0
    /\ v3 \in [nearest : Schedule!Second, before : 1..MaxSlope, after : 1..MaxSlope]
    /\ Len(v1) > 1 => v3.nearest = 0 /\ v3.before = 1 /\ v3.after = 1

ScheduleNext == v2' = (v2 + 1) % SecondsPerDay /\ UNCHANGED <<v1, v3>>

Init ==
    \/ /\ part = "container" /\ Boxes!Init
       /\ v7 = Unused /\ v8 = Unused /\ v9 = Unused /\ v10 = Unused /\ v11 = Unused
       /\ v12 = Unused
    \/ /\ part = "bytes" /\ Bytes!Init
       /\ v5 = Unused /\ v6 = Unused /\ v7 = Unused /\ v8 = Unused /\ v9 = Unused
       /\ v10 = Unused /\ v11 = Unused /\ v12 = Unused
    \/ /\ part = "document" /\ Opened!Init
    \/ /\ part = "pixels" /\ Decoded!Init
       /\ v7 = Unused /\ v8 = Unused /\ v9 = Unused /\ v10 = Unused /\ v11 = Unused
       /\ v12 = Unused
    \/ /\ part = "binary" /\ Binary!Init
       /\ v7 = Unused /\ v8 = Unused /\ v9 = Unused /\ v10 = Unused /\ v11 = Unused
       /\ v12 = Unused
    \/ /\ part = "xml" /\ Xml!Init
       /\ v8 = Unused /\ v9 = Unused /\ v10 = Unused /\ v11 = Unused /\ v12 = Unused
    \/ /\ part = "metadata" /\ Merged!Init
       /\ v8 = Unused /\ v9 = Unused /\ v10 = Unused /\ v11 = Unused /\ v12 = Unused
    \/ /\ part = "profile" /\ Profile!Init
       /\ v6 = Unused /\ v7 = Unused /\ v8 = Unused /\ v9 = Unused /\ v10 = Unused
       /\ v11 = Unused /\ v12 = Unused
    \/ /\ part = "schedule" /\ ScheduleInit
       /\ v4 = Unused /\ v5 = Unused /\ v6 = Unused /\ v7 = Unused /\ v8 = Unused
       /\ v9 = Unused /\ v10 = Unused /\ v11 = Unused /\ v12 = Unused

Next ==
    \/ part = "container" /\ Boxes!Next /\ UNCHANGED <<part, v7, v8, v9, v10, v11, v12>>
    \/ part = "bytes" /\ Bytes!walk /\ UNCHANGED <<part, v5, v6, v7, v8, v9, v10, v11, v12>>
    \/ part = "document" /\ Opened!Next /\ UNCHANGED <<part>>
    \/ part = "pixels" /\ Decoded!Next /\ UNCHANGED <<part, v7, v8, v9, v10, v11, v12>>
    \/ part = "binary" /\ Binary!Next /\ UNCHANGED <<part, v7, v8, v9, v10, v11, v12>>
    \/ part = "xml" /\ Xml!Next /\ UNCHANGED <<part, v8, v9, v10, v11, v12>>
    \/ part = "metadata" /\ Merged!Next /\ UNCHANGED <<part, v8, v9, v10, v11, v12>>
    \/ part = "profile" /\ Profile!Next /\ UNCHANGED <<part, v6, v7, v8, v9, v10, v11, v12>>
    \/ part = "schedule" /\ ScheduleNext
       /\ UNCHANGED <<part, v4, v5, v6, v7, v8, v9, v10, v11, v12>>

Spec == Init /\ [][Next]_pool

-----------------------------------------------------------------------------
(* Properties *)

\* Whatever passes a preflight is within the limits as the library behind it
\* will count: no budget of a container is escaped by spreading, nesting or
\* decoys; a property list expands to a finite tree; XML, metadata blocks and
\* the texts of a profile are charged all together; and no more of a growing
\* file is read than is allowed.  And a file is refused for a limit only when it
\* is over one: items declared twice and objects that are shared are charged for
\* what they take, and the limit on the parser's memory does not outlive the
\* parse (container.rs: preflight, check_metadata_bytes; heic.rs:
\* preflight_binary_plist, preflight_xml_plist, read_metadata, charge_icc_text,
\* open_with_limits).
LimitsAreExact ==
    /\ part = "container" => Boxes!AcceptedFits /\ Boxes!LimitHasCause
    /\ part = "bytes"     => Bytes!WalkMovesOn
    /\ part = "document"  => Opened!ReadIsBounded /\ Opened!PlanesFit
    /\ part = "binary"    => /\ Binary!AcceptedExpansionFits /\ Binary!StackIsBounded
                             /\ Binary!LimitHasCause
    /\ part = "xml"       => Xml!AcceptedIsBounded
    /\ part = "metadata"  => Merged!BlocksFitBudget
    /\ part = "profile"   => Profile!AcceptedTextFits

\* libheif reads, while it parses and at each later decode, the regular file
\* that was checked and only bytes that the preflight approved, though the owner
\* renames and rewrites it; and it finds the strings in them that the preflight
\* found (stable_file.rs: open_regular; anonymous_source; read_cstring).
ParserUsesApprovedBytes ==
    /\ part = "document" => Opened!ReadsTheCheckedFile /\ Opened!ParserUsesApprovedBytes
    /\ part = "bytes"    => Bytes!ParserReadsTheSame

\* What is shown is what the file says: the pixels and the colours of the image
\* to within rounding, the properties of the packet and no other text, whatever
\* the order of the blocks, and images that exist, of the pair a property states or,
\* only where none does, the primary one (pack_rgba, unpremultiply, parse_xmp,
\* Metadata::insert, Metadata::select, image_reference).
ContentIsKept ==
    /\ part = "pixels"   => /\ Decoded!ColourIsKept /\ Decoded!IdentityLosesNothing
                            /\ Decoded!FrameIsTheImage
    /\ part = "xml"      => Xml!PropertiesAreThePackets
    /\ part = "metadata" => /\ Merged!OrderDoesNotMatter /\ Merged!SelectedImagesExist
                            /\ Merged!SelectionIsStated

\* At every second the image in effect is the one whose boundary was passed last
\* on the circular clock, a boundary never comes early, a dissolve starts where
\* its boundary was, the sleep until the next wake misses no change, and a solar
\* position is mapped to the second at which the sun is nearest to it
\* (playback.rs: selected_point, boundary_start, next_wake; solar.rs:
\* nearest_second).
ScheduleIsCircular ==
    part = "schedule" =>
        /\ Schedule!BoundaryIsCeiling(v1) /\ Schedule!SelectedIsMostRecent(v1, v2)
        /\ Schedule!DissolveStartsAtBoundary(v1, v2) /\ Schedule!WakeIsNextBoundary(v1, v2)
        /\ Schedule!NearestSecondIsNearest(v3)
=============================================================================
