----------------------------- MODULE HeicDocument -----------------------------
(***************************************************************************)
(* Opening a dynamic wallpaper (src/stable_file.rs, Document in            *)
(* src/dynamic_wallpaper/heic.rs) while the owner of the file renames over *)
(* its path and rewrites it.  The file is bound, checked and read once;    *)
(* the preflight approves the bytes that were read and the native parser   *)
(* reads a private copy of them, also when an image is decoded later.      *)
(*                                                                         *)
(* Bytes are good or bad: the preflight approves a file of good ones.      *)
(***************************************************************************)
EXTENDS Naturals, Sequences

CONSTANTS MaxLength,          \* bound of the model on the length of a file
          max_source_bytes,   \* Limits
          MaxChanges          \* bound of the model on the owner's changes

VARIABLES
    path,      \* the file the path names
    disk,      \* the files: their kind and bytes, the anonymous one included
    changes,   \* changes the owner made
    pc,        \* progress of the open, then "opened" or "failed"
    bound,     \* the file held by the path descriptor
    file,      \* the file open for reading
    measured,  \* source_bytes
    source,    \* the bytes read
    reader,    \* the file the native parser reads, and the length it is told
    limit,     \* the parser's limit on a memory block
    parsed,    \* bytes the parser has used
    outcome    \* why the open or a decode failed

vars == <<path, disk, changes, pc, bound, file, measured, source, reader, limit, parsed, outcome>>

OnDisk    == {"wallpaper", "other", "pipe"}
Anonymous == "memfd"
None      == "none"

Bytes == UNION {[1..n -> {"good", "bad"}] : n \in 0..MaxLength}

Init ==
    /\ path \in OnDisk
    /\ \E b \in Bytes :
         disk = [f \in OnDisk \cup {Anonymous} |->
                    [kind  |-> IF f = "pipe" THEN "pipe" ELSE "regular",
                     bytes |-> IF f = "wallpaper" THEN b ELSE <<>>]]
    /\ changes = 0
    /\ pc = "bind" /\ bound = None /\ file = None /\ measured = 0 /\ source = <<>>
    /\ reader = [file |-> None, length |-> 0]
    /\ limit = "default" /\ parsed = <<>> /\ outcome = "none"

-----------------------------------------------------------------------------
(* The owner of the file *)

\* Another file is renamed over the path.
Rename ==
    /\ changes < MaxChanges /\ changes' = changes + 1
    /\ path' \in OnDisk
    /\ UNCHANGED <<disk, pc, bound, file, measured, source, reader, limit, parsed, outcome>>

\* A regular file is written, shortened or extended in place.
Rewrite ==
    /\ changes < MaxChanges /\ changes' = changes + 1
    /\ \E f \in OnDisk \ {"pipe"}, b \in Bytes : disk' = [disk EXCEPT ![f].bytes = b]
    /\ UNCHANGED <<path, pc, bound, file, measured, source, reader, limit, parsed, outcome>>

-----------------------------------------------------------------------------
(* open_regular *)

Environment == <<path, changes>>
Parser      == <<reader, limit, parsed>>

Fail(why) ==
    /\ pc' = "failed" /\ outcome' = why
    /\ UNCHANGED <<disk, bound, file, measured, source, Parser>>

\* The path is bound without opening what it names, and may be unavailable.
Bind ==
    /\ pc = "bind"
    /\ \/ Fail("unavailable")
       \/ /\ bound' = path /\ pc' = "check"
          /\ UNCHANGED <<disk, file, measured, source, Parser, outcome>>
    /\ UNCHANGED Environment

CheckRegular ==
    /\ pc = "check"
    /\ IF disk[bound].kind # "regular" THEN Fail("not regular")
       ELSE pc' = "reopen" /\ UNCHANGED <<disk, bound, file, measured, source, Parser, outcome>>
    /\ UNCHANGED Environment

Reopened == bound

Reopen ==
    /\ pc = "reopen"
    /\ \/ Fail("reopen")
       \/ /\ file' = Reopened /\ pc' = "measure"
          /\ UNCHANGED <<disk, bound, measured, source, Parser, outcome>>
    /\ UNCHANGED Environment

-----------------------------------------------------------------------------
(* Document::open_with_limits *)

Measure ==
    /\ pc = "measure"
    /\ IF Len(disk[file].bytes) > max_source_bytes THEN Fail("too large")
       ELSE /\ measured' = Len(disk[file].bytes) /\ pc' = "read"
            /\ UNCHANGED <<disk, bound, file, source, Parser, outcome>>
    /\ UNCHANGED Environment

\* The measured length is read, or less if the file has shrunk.
AtEnd == Len(source) = measured \/ Len(source) >= Len(disk[file].bytes)

ReadByte ==
    /\ pc = "read" /\ ~AtEnd /\ Len(source) < Len(disk[file].bytes)
    /\ source' = Append(source, disk[file].bytes[Len(source) + 1])
    /\ UNCHANGED <<disk, pc, bound, file, measured, Parser, outcome, Environment>>

Approved(bytes) == bytes # <<>> /\ \A i \in DOMAIN bytes : bytes[i] = "good"

preflight ==
    /\ pc = "read" /\ AtEnd
    /\ IF ~Approved(source) THEN Fail("container")
       ELSE pc' = "snapshot" /\ UNCHANGED <<disk, bound, file, measured, source, Parser, outcome>>
    /\ UNCHANGED Environment

\* Bug: the parser is given the file.
anonymous_source_File ==
    /\ reader' = [file |-> file, length |-> Len(source)]
    /\ UNCHANGED disk

\* The parser is given a copy of the bytes, and the length of the copy.
anonymous_source ==
    /\ disk' = [disk EXCEPT ![Anonymous].bytes = source]
    /\ reader' = [file |-> Anonymous, length |-> Len(source)]

Snapshot ==
    /\ pc = "snapshot"
    /\ anonymous_source
    /\ limit' = "metadata" /\ pc' = "parse"
    /\ UNCHANGED <<bound, file, measured, source, parsed, outcome, Environment>>

\* The parser uses any of the bytes it is told of.
Use ==
    parsed' = SubSeq(disk[reader.file].bytes, 1, reader.length)

\* read_reader: the parser loads metadata while it parses, and refuses a block
\* over the limit in force.
read_reader ==
    /\ pc = "parse" /\ Use
    /\ \/ /\ pc' = "failed" /\ outcome' = "container"
       \/ pc' = "inspect" /\ UNCHANGED outcome
    /\ UNCHANGED <<disk, bound, file, measured, source, reader, limit, Environment>>

ImageLimit == "image"

\* The images and the metadata are read; then blocks may have the size that
\* the planes of an image need.
Inspect ==
    /\ pc = "inspect"
    /\ \/ Fail("metadata")
       \/ /\ pc' = "opened" /\ limit' = ImageLimit
          /\ UNCHANGED <<disk, bound, file, measured, source, reader, parsed, outcome>>
    /\ UNCHANGED Environment

\* Any other call of the open may fail: reading the metadata of the file, seeking,
\* allocating, reading, the copy, and setting up the parser.
OtherFailure ==
    /\ pc \in {"check", "measure", "read", "snapshot"}
    /\ Fail("error")
    /\ UNCHANGED Environment

\* Document::decode reads the item's bytes now, and may refuse the item; the
\* document stays open.
decode ==
    /\ pc = "opened" /\ Use
    /\ outcome' \in {IF limit = "image" THEN "frame" ELSE "no memory", "refused"}
    /\ UNCHANGED <<disk, pc, bound, file, measured, source, reader, limit, Environment>>

Open == Bind \/ CheckRegular \/ Reopen \/ Measure \/ ReadByte \/ preflight \/ Snapshot
            \/ read_reader \/ Inspect \/ OtherFailure

Next == Rename \/ Rewrite \/ Open \/ decode

Spec == Init /\ [][Next]_vars /\ WF_vars(Open)

-----------------------------------------------------------------------------
(* Properties *)

\* What is opened for reading is the regular file that was checked, whatever is
\* renamed over the path meanwhile; a pipe in its place would block the open
\* (open_regular).
ReadsTheCheckedFile == file # None => file = bound /\ disk[file].kind = "regular"

\* Every byte the parser uses, while it parses and at each later decode, was
\* approved by the preflight, and all the bytes it is told of are there, though
\* the owner rewrites the file (open_with_limits, anonymous_source).
ParserUsesApprovedBytes ==
    parsed # <<>> => Approved(parsed) /\ parsed = source /\ Len(parsed) = reader.length

\* No more is read than the source limit allows, also from a file that grows
\* after it was measured (open_with_limits).
ReadIsBounded == Len(source) <= max_source_bytes

\* An open document can allocate the planes of its images: the limit for
\* metadata does not outlive the parse (open_with_limits, decode).
PlanesFit == outcome # "no memory"

\* The open comes to an end, also of a file that is rewritten while it is read.
OpenEnds == <>(pc \in {"opened", "failed"})
=============================================================================
