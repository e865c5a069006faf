------------------------------ MODULE IccProfile ------------------------------
(***************************************************************************)
(* The preflight of an embedded colour profile (preflight_icc_profile and  *)
(* charge_icc_text in src/dynamic_wallpaper/heic.rs): the extent, the tag  *)
(* table and the text that the profile parser will decode, all records of  *)
(* all tags together.                                                      *)
(*                                                                         *)
(* A tag is where it lies and what it declares; nothing stops two tags or  *)
(* two records from naming the same bytes.                                 *)
(***************************************************************************)
EXTENDS Naturals, SequencesExt

CONSTANTS Length,     \* lengths of profiles, beyond the header and the count
          Tag,        \* entries of the tag table: see MCIccProfile
          MaxTags,    \* bound of the model on the entries
          max_color_profile_tags, max_color_profile_text_bytes,
          max_color_profile_text_records

VARIABLES profile,       \* declared and real length, count and tags
          index,         \* the entry to read
          text_bytes, text_records,
          verdict        \* "header", "walking", "accepted" or "refused"

vars == <<profile, index, text_bytes, text_records, verdict>>

TAG_ENTRY_BYTES == 12

-----------------------------------------------------------------------------
(* Text *)

\* Three bytes for a unit of two, and for every byte that is not valid.
utf16_text_bound(bytes) == (bytes * 3) \div 2

lossy_text_bound(bytes) == bytes * 3

\* Records of the tag up to the first whose header or range is not in it; the
\* first record has its header in the first 28 bytes.
Readable(tag) ==
    LET fits(i) == /\ 28 + (i - 1) * TAG_ENTRY_BYTES <= tag.size
                   /\ tag.records[i].offset + tag.records[i].length <= tag.size
        stop == {i \in DOMAIN tag.records : ~fits(i)}
    IN  IF stop = {} THEN tag.records ELSE SubSeq(tag.records, 1, Min(stop) - 1)

\* What charge_icc_text adds for a tag: localized text, a description with an
\* ASCII and a Unicode part, or plain text.
Charge(tag) ==
    CASE tag.kind = "mluc" ->
           [records |-> Len(Readable(tag)),
            bytes   |-> FoldLeft(LAMBDA n, r : n + utf16_text_bound(r.length), 0, Readable(tag))]
      [] tag.kind = "desc" ->
           LET ascii_end == 12 + tag.ascii
               unicode   == ascii_end + 8 <= tag.size
           IN  IF ascii_end > tag.size THEN [records |-> 0, bytes |-> 0]
               ELSE [records |-> IF unicode THEN 1 ELSE 0,
                     bytes |-> lossy_text_bound(tag.ascii)
                               + (IF unicode /\ ascii_end + 8 + 2 * tag.units <= tag.size
                                  THEN utf16_text_bound(2 * tag.units) ELSE 0)]
      [] tag.kind = "text" -> [records |-> 0, bytes |-> lossy_text_bound(tag.size - 8)]
      [] OTHER -> [records |-> 0, bytes |-> 0]

-----------------------------------------------------------------------------
(* The walk *)

Verdict(ok, next) ==
    /\ verdict' = IF ok THEN next ELSE "refused"
    /\ UNCHANGED profile

\* The profile has the length it declares, and its table fits.
Header ==
    /\ verdict = "header"
    /\ Verdict(/\ profile.declared = profile.length
               /\ Len(profile.tags) <= max_color_profile_tags
               /\ Len(profile.tags) * TAG_ENTRY_BYTES <= profile.length, "walking")
    /\ UNCHANGED <<index, text_bytes, text_records>>

\* A size of zero reaches to the end.
EndOf(tag) == IF tag.size = 0 THEN profile.length ELSE tag.offset + tag.size

WalkTag ==
    /\ verdict = "walking" /\ index <= Len(profile.tags)
    /\ LET entry  == profile.tags[index]
           inside == entry.offset <= profile.length /\ EndOf(entry) <= profile.length
           charge == IF inside THEN Charge([entry EXCEPT !.size = EndOf(entry) - entry.offset])
                     ELSE [records |-> 0, bytes |-> 0]
       IN  /\ text_bytes' = text_bytes + charge.bytes
           /\ text_records' = text_records + charge.records
           /\ Verdict(/\ inside
                      /\ text_bytes' <= max_color_profile_text_bytes
                      /\ text_records' <= max_color_profile_text_records, "walking")
    /\ index' = index + 1

Finish ==
    /\ verdict = "walking" /\ index > Len(profile.tags)
    /\ Verdict(TRUE, "accepted")
    /\ UNCHANGED <<index, text_bytes, text_records>>

Init ==
    /\ profile \in [length : Length, declared : Length, tags : UNION {[1..n -> Tag] : n \in 0..MaxTags}]
    /\ index = 1 /\ text_bytes = 0 /\ text_records = 0 /\ verdict = "header"

Next == Header \/ WalkTag \/ Finish

Spec == Init /\ [][Next]_vars

-----------------------------------------------------------------------------
(* What the profile parser keeps *)

Sum(S, Value(_)) == FoldLeft(LAMBDA n, x : n + Value(x), 0, S)

\* Its strings, in bytes of UTF-8: a unit of UTF-16 takes up to three, and so
\* does the replacement of an invalid byte.
Strings(tag) ==
    LET size == EndOf(tag) - tag.offset IN
    CASE tag.kind = "mluc" ->
           [i \in DOMAIN Readable([tag EXCEPT !.size = size]) |->
               3 * (tag.records[i].length \div 2)]
      [] tag.kind = "desc" ->
           (IF 12 + tag.ascii <= size THEN <<3 * tag.ascii>> ELSE <<>>)
           \o (IF 20 + tag.ascii + 2 * tag.units <= size THEN <<3 * tag.units>> ELSE <<>>)
      [] tag.kind = "text" -> <<3 * (size - 8)>>
      [] OTHER -> <<>>

-----------------------------------------------------------------------------
(* Properties *)

\* The text the parser keeps for an accepted profile, all tags together, is
\* within the budget, though records share bytes and decode to more than they
\* take in the profile (charge_icc_text).
AcceptedTextFits ==
    verdict = "accepted" =>
        /\ Sum(profile.tags, LAMBDA t : Sum(Strings(t), LAMBDA n : n)) <= max_color_profile_text_bytes
        /\ Sum(profile.tags, LAMBDA t : IF t.kind = "mluc" THEN Len(Strings(t)) ELSE 0)
             <= max_color_profile_text_records
=============================================================================
