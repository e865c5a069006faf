----------------------------- MODULE PropertyList -----------------------------
(***************************************************************************)
(* The preflight of binary property lists (preflight_binary_plist in       *)
(* src/dynamic_wallpaper/heic.rs).  Objects refer to each other by number, *)
(* in any shape: the preflight walks the graph the way the plist crate     *)
(* will expand it, with a stack, and refuses one whose expansion is too    *)
(* large, too deep or does not end.                                        *)
(***************************************************************************)
EXTENDS Naturals, SequencesExt

CONSTANTS
    Object,       \* objects lists are made of: see MCPropertyList
    Count,        \* numbers of objects a trailer may declare
    MaxCount,     \* the largest of them
    max_plist_objects, max_expanded_plist_objects, max_expanded_plist_bytes,
    max_plist_depth

VARIABLES
    trailer,         \* the declared count and root, and whether the tables fit
    objects,         \* the objects, by number
    stack,           \* objects to visit and their depth; the top is the last
    expanded,        \* objects visited
    expanded_bytes,  \* memory charged for them
    verdict          \* "trailer", "walking", "accepted", "malformed" or a limit

vars == <<trailer, objects, stack, expanded, expanded_bytes, verdict>>

VALUE_BYTES     == 64
REFERENCE_BYTES == 16

-----------------------------------------------------------------------------

\* The widths and the offset table fit, the root is an object, and every
\* object starts before the table.
Trailer ==
    /\ verdict = "trailer"
    /\ verdict' = IF ~trailer.widths_fit THEN "malformed"
                  ELSE IF trailer.count = 0 \/ trailer.count > max_plist_objects THEN "count"
                  ELSE IF trailer.root >= trailer.count \/ ~trailer.table_fits THEN "malformed"
                  ELSE "walking"
    /\ stack' = IF verdict' = "walking" THEN <<[object |-> trailer.root, depth |-> 1]>> ELSE <<>>
    /\ UNCHANGED <<trailer, objects, expanded, expanded_bytes>>

\* Decoded UTF-16 takes up to three bytes for a unit of two.
Payload(o) ==
    CASE o.kind = "data"  -> o.length
      [] o.kind = "utf16" -> 3 * o.length
      [] OTHER -> 0

\* A dictionary has a reference for each key and for each value.
References(o) == IF o.kind = "collection" THEN o.children ELSE <<>>

Planned(n, o) == n + Len(Front(stack)) + Len(References(o))

Pushed(o, depth) == [i \in DOMAIN References(o) |-> [object |-> References(o)[i], depth |-> depth + 1]]

OverDepth(depth) == depth > max_plist_depth

\* object_length, checked_range: the object's bytes lie before the table.
Fits(o) == o.fits

\* One turn of the loop: an object is taken from the stack, counted and
\* charged, and its children go on the stack.
Visit ==
    /\ verdict = "walking" /\ stack # <<>>
    /\ LET top   == Last(stack)
           o     == objects[top.object]
           value == expanded_bytes + VALUE_BYTES
           all   == value + Payload(o) + REFERENCE_BYTES * Len(References(o))
       IN  /\ expanded' = expanded + 1
           /\ expanded_bytes' = IF value > max_expanded_plist_bytes THEN value ELSE all
           /\ verdict' =
                IF expanded' > max_expanded_plist_objects THEN "expanded"
                ELSE IF value > max_expanded_plist_bytes THEN "memory"
                ELSE IF OverDepth(top.depth) THEN "depth"
                ELSE IF ~Fits(o) THEN "malformed"
                ELSE IF all > max_expanded_plist_bytes THEN "memory"
                ELSE IF Planned(expanded', o) > max_expanded_plist_objects THEN "expanded"
                ELSE IF \E c \in Range(References(o)) : c >= trailer.count THEN "malformed"
                ELSE "walking"
           /\ stack' = IF verdict' = "walking" THEN Front(stack) \o Pushed(o, top.depth) ELSE stack
    /\ UNCHANGED <<trailer, objects>>

Finish ==
    /\ verdict = "walking" /\ stack = <<>>
    /\ verdict' = "accepted"
    /\ UNCHANGED <<trailer, objects, stack, expanded, expanded_bytes>>

Init ==
    /\ \E c \in Count :
         trailer \in [count : {c}, root : 0..c, widths_fit : BOOLEAN, table_fits : BOOLEAN]
                     \cup [count : {MaxCount + 1}, root : {0}, widths_fit : {TRUE}, table_fits : {TRUE}]
    /\ objects \in [0..(MaxCount - 1) -> Object]
    /\ stack = <<>> /\ expanded = 0 /\ expanded_bytes = 0
    /\ verdict = "trailer"

Next == Trailer \/ Visit \/ Finish

Spec == Init /\ [][Next]_vars

-----------------------------------------------------------------------------
(* What the plist crate makes of the list: a tree *)

\* The objects of the tree, and its memory, cut below a depth.  A reference to
\* no object is a leaf.
Tree == [d \in 0..(max_plist_depth + 1) |->
           LET Size[n \in 0..d] ==
                 [o \in 0..MaxCount |->
                    IF n = 0 THEN [count |-> 0, bytes |-> 0]
                    ELSE IF o >= trailer.count THEN [count |-> 1, bytes |-> 0]
                    ELSE FoldLeft(LAMBDA a, c : [count |-> a.count + Size[n - 1][c].count,
                                                 bytes |-> a.bytes + Size[n - 1][c].bytes],
                                  [count |-> 1,
                                   bytes |-> VALUE_BYTES + Payload(objects[o])
                                               + REFERENCE_BYTES * Len(References(objects[o]))],
                                  References(objects[o]))]
           IN  Size[d][trailer.root]]

-----------------------------------------------------------------------------
(* Properties *)

\* A list that passes expands to a finite tree within every limit: shared
\* objects count as often as they are reached, and a cycle never passes
\* (preflight_binary_plist).
AcceptedExpansionFits ==
    verdict = "accepted" =>
        LET tree == Tree IN
        /\ tree[max_plist_depth + 1] = tree[max_plist_depth]
        /\ tree[max_plist_depth].count <= max_expanded_plist_objects
        /\ tree[max_plist_depth].bytes <= max_expanded_plist_bytes
        /\ expanded = tree[max_plist_depth].count
        /\ expanded_bytes = tree[max_plist_depth].bytes

\* The walk itself stays small: what it has visited and what waits on its stack
\* never exceed the limit on the expansion (the planned count).
StackIsBounded == verdict = "walking" => expanded + Len(stack) <= max_expanded_plist_objects

\* A list is refused for a limit only when its tree is over that limit
\* (preflight_binary_plist).
LimitHasCause ==
    LET tree == Tree
        full == tree[max_plist_depth + 1]
    IN  /\ verdict = "expanded" => full.count > max_expanded_plist_objects
        /\ verdict = "memory" => full.bytes > max_expanded_plist_bytes
        /\ verdict = "depth" => full # tree[max_plist_depth]
=============================================================================
