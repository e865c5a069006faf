---------------------------- MODULE HeicFileProofs ----------------------------
(***************************************************************************)
(* Proofs about reading dynamic wallpapers: the opening of a file whose    *)
(* owner changes it, the strings in it, and the schedule it has, for any   *)
(* lengths, limits, days and points.                                       *)
(*                                                                         *)
(* The document that is opened is bound to one regular file, and what the  *)
(* parser reads is a copy nobody else can reach, made of bytes that were   *)
(* approved.  A loop over a text or over samples is a function defined by  *)
(* recursion; that there is one follows from a function that satisfies the *)
(* definition, and what it yields from the least step at which it would    *)
(* not.                                                                    *)
(***************************************************************************)
EXTENDS MCHeicFile, FiniteSetTheorems, SequenceTheorems, NaturalsInduction,
        WellFoundedInduction, TLAPS

-----------------------------------------------------------------------------
(* Least numbers, and functions defined by recursion on the subsets         *)

Below == {p \in Nat \X Nat : p[1] < p[2]}

\* A set of natural numbers has a least one.
LEMMA LeastNatural ==
    ASSUME NEW S \in SUBSET Nat, S # {}
    PROVE  \E x \in S : \A y \in S : x <= y
<1>1. OpToRel(<, Nat) = Below
  BY Zenon DEF Below, OpToRel
<1>2. IsWellFoundedOn(Below, Nat)
  BY <1>1, NatLessThanWellFounded, Zenon
<1>3. PICK x \in S : \A y \in S : ~(<<y, x>> \in Below)
  BY <1>2, WFMin
<1>4. ASSUME NEW y \in S
      PROVE  x <= y
  <2>1. x \in Nat /\ y \in Nat /\ ~(<<y, x>> \in Below)
    BY <1>3
  <2>2. ~(y < x)
    BY <2>1 DEF Below
  <2>3. QED
    BY <2>1, <2>2
<1>5. QED
  BY <1>4

Largest(S) == CHOOSE x \in S : \A y \in S : x >= y

\* A set of numbers up to m that has m in it.
LEMMA LargestOfTop ==
    ASSUME NEW m \in Nat, NEW t \in SUBSET (1 .. m), m \in t
    PROVE  Largest(t) = m
<1>1. \A y \in t : m >= y /\ y \in Nat
  OBVIOUS
<1>2. \A x \in t : (\A y \in t : x >= y) => x = m
  BY <1>1
<1>3. \E x \in t : \A y \in t : x >= y
  BY <1>1
<1>4. Largest(t) \in t /\ \A y \in t : Largest(t) >= y
  BY <1>3, Zenon DEF Largest
<1>5. QED
  BY <1>2, <1>4

LEMMA LargestIsThere ==
    ASSUME NEW m \in Nat, NEW t \in SUBSET (1 .. m), t # {}
    PROVE  Largest(t) \in t /\ \A y \in t : Largest(t) >= y
<1> DEFINE T == {m - x : x \in t}
<1>1. T \in SUBSET Nat /\ T # {}
  <2>1. \A x \in t : m - x \in Nat
    OBVIOUS
  <2>2. QED
    BY <2>1
<1>2. PICK z \in T : \A y \in T : z <= y
  BY <1>1, LeastNatural
<1>3. PICK x \in t : z = m - x
  BY <1>2
<1>4. \A y \in t : x >= y
  <2>1. \A y \in t : m - x <= m - y /\ x \in Nat /\ y \in Nat
    BY <1>2, <1>3
  <2>2. QED
    BY <2>1
<1>5. QED
  BY <1>4, Zenon DEF Largest

LEMMA PrefixGrows ==
    ASSUME NEW C, NEW s \in Seq(C), NEW k \in 1 .. Len(s)
    PROVE  Append(SubSeq(s, 1, k - 1), s[k]) = SubSeq(s, 1, k)
<1>1. SubSeq(s, 1, k) = SubSeq(s, 1, k - 1) \o << s[k] >>
  BY SubSeqRecursiveSecond
<1>2. SubSeq(s, 1, k - 1) \in Seq(C) /\ s[k] \in C
  BY SubSeqProperties
<1>3. QED
  BY <1>1, <1>2, AppendIsConcat

\* it folds F over the subsets of 1 .. m, each from its least number to its largest.
Folding(it, m, V, b, F) ==
    /\ it \in [SUBSET (1 .. m) -> V]
    /\ \A t \in SUBSET (1 .. m) :
           it[t] = IF t = {} THEN b ELSE F[<<it[t \ {Largest(t)}], Largest(t)>>]

LEMMA WithoutTop ==
    ASSUME NEW m \in Nat, NEW t \in SUBSET (1 .. m)
    PROVE  t \ {m} \in SUBSET (1 .. (m - 1)) /\ t \ {m} \in SUBSET (1 .. m)
OBVIOUS

LEMMA FoldingNothing ==
    ASSUME NEW V, NEW b \in V, NEW F
    PROVE  \E it : Folding(it, 0, V, b, F)
<1> DEFINE it == [t \in SUBSET (1 .. 0) |-> b]
<1>1. \A t \in SUBSET (1 .. 0) : t = {}
  OBVIOUS
<1>2. Folding(it, 0, V, b, F)
  BY <1>1 DEF Folding
<1>3. QED
  BY <1>2

LEMMA FoldingOneMore ==
    ASSUME NEW m \in Nat, m # 0, NEW V, NEW b \in V, NEW F,
           \A x \in V, i \in 1 .. m : F[<<x, i>>] \in V,
           NEW it, Folding(it, m - 1, V, b, F)
    PROVE  \E jt : Folding(jt, m, V, b, F)
<1> DEFINE one == [t \in SUBSET (1 .. m) |-> IF m \in t THEN F[<<it[t \ {m}], m>>] ELSE it[t]]
<1>1. ASSUME NEW t \in SUBSET (1 .. m)
      PROVE  /\ one[t] \in V
             /\ one[t] = IF t = {} THEN b ELSE F[<<one[t \ {Largest(t)}], Largest(t)>>]
  <2>1. t \ {m} \in SUBSET (1 .. (m - 1)) /\ t \ {m} \in SUBSET (1 .. m)
    BY WithoutTop
  <2>2. CASE m \in t
    <3>1. one[t] = F[<<it[t \ {m}], m>>] /\ one[t \ {m}] = it[t \ {m}] /\ Largest(t) = m
      BY <2>1, <2>2, LargestOfTop
    <3>2. it[t \ {m}] \in V /\ m \in 1 .. m
      BY <2>1 DEF Folding
    <3>3. QED
      BY <2>2, <3>1, <3>2
  <2>3. CASE m \notin t
    <3>1. t \in SUBSET (1 .. (m - 1)) /\ one[t] = it[t]
      BY <2>1, <2>3
    <3>2. t \ {Largest(t)} \in SUBSET (1 .. m) /\ m \notin t \ {Largest(t)}
      BY <2>3, <3>1
    <3>3. one[t \ {Largest(t)}] = it[t \ {Largest(t)}]
      BY <3>2
    <3>4. QED
      BY <3>1, <3>3 DEF Folding
  <2>4. QED
    BY <2>2, <2>3
<1>2. Folding(one, m, V, b, F)
  <2>1. one \in [SUBSET (1 .. m) -> V]
    BY <1>1
  <2>2. QED
    BY <1>1, <2>1 DEF Folding
<1>3. QED
  BY <1>2

\* There is a function on the subsets that folds.
LEMMA FoldExists ==
    ASSUME NEW n \in Nat, NEW V, NEW b \in V, NEW F \in [V \X (1 .. n) -> V]
    PROVE  \E it : Folding(it, n, V, b, F)
<1> DEFINE S == {m \in 0 .. n : ~\E it : Folding(it, m, V, b, F)}
<1>1. S = {} => \E it : Folding(it, n, V, b, F)
  <2>1. n \in 0 .. n
    OBVIOUS
  <2>2. QED
    BY <2>1
<1>2. SUFFICES ASSUME S # {}
               PROVE  FALSE
  BY <1>1
<1>3. PICK m \in S : \A y \in S : m <= y
  <2>1. S \in SUBSET Nat
    OBVIOUS
  <2>2. QED
    BY <1>2, <2>1, LeastNatural
<1>4. m \in 0 .. n /\ m \in Nat /\ ~\E it : Folding(it, m, V, b, F)
  BY <1>3
<1>5. m # 0
  BY <1>4, FoldingNothing
<1>6. PICK it : Folding(it, m - 1, V, b, F)
  <2>1. m - 1 \in 0 .. n /\ ~(m <= m - 1)
    BY <1>4, <1>5
  <2>2. m - 1 \notin S
    BY <1>3, <2>1
  <2>3. QED
    BY <2>1, <2>2
<1>7. \A x \in V, i \in 1 .. m : F[<<x, i>>] \in V
  BY <1>4
<1>8. QED
  BY <1>4, <1>5, <1>6, <1>7, FoldingOneMore

-----------------------------------------------------------------------------
(* The document: v1 is path, v2 disk, v3 changes, v4 pc, v5 bound, v6 file, *)
(* v7 measured, v8 source, v9 reader, v10 limit, v11 parsed, v12 outcome    *)

Byte == {"good", "bad"}

File == Opened!OnDisk \cup {Opened!Anonymous}

\* Files keep their kinds, whatever is written to them.
DiskInv ==
    /\ v1 \in Opened!OnDisk
    /\ v2 \in [File -> [kind : {"regular", "pipe"}, bytes : Seq(Byte)]]
    /\ \A f \in Opened!OnDisk : v2[f].kind = "pipe" <=> f = "pipe"

\* What is bound stays bound; past the check it is no pipe, and past the reopening it is
\* what is read.
BoundInv ==
    /\ v4 \in {"bind", "check", "reopen", "measure", "read", "snapshot", "parse", "inspect",
               "opened", "failed"}
    /\ v4 \notin {"bind", "failed"} => v5 \in Opened!OnDisk
    /\ v4 \notin {"bind", "check", "failed"} => v5 # "pipe"
    /\ v4 \in {"bind", "check", "reopen"} => v6 = Opened!None
    /\ v4 \notin {"bind", "check", "reopen", "failed"} => v6 # Opened!None
    /\ v6 # Opened!None => v6 = v5 /\ v5 \in Opened!OnDisk /\ v5 # "pipe"

\* What has been read was measured within the limit; the parser's copy has what was approved.
CopyInv ==
    /\ v7 \in Nat /\ v7 <= max_source_bytes /\ v8 \in Seq(Byte) /\ Len(v8) <= v7
    /\ v4 \in {"bind", "check", "reopen", "measure"} => v8 = <<>>
    /\ v4 \in {"snapshot", "parse", "inspect", "opened"} => Opened!Approved(v8)
    /\ v4 \in {"parse", "inspect", "opened"} =>
         v9 = [file |-> Opened!Anonymous, length |-> Len(v8)] /\ v2[Opened!Anonymous].bytes = v8
    /\ v4 \notin {"inspect", "opened", "failed"} => v11 = <<>>
    /\ v11 # <<>> => Opened!Approved(v8) /\ v11 = v8 /\ Len(v11) = v9.length
    /\ v4 = "opened" => v10 = "image"
    /\ v12 # "no memory"

DocumentInv == DiskInv /\ BoundInv /\ CopyInv

LEMMA BytesAreSequences ==
    ASSUME NEW b \in Opened!Bytes
    PROVE  b \in Seq(Byte)
<1>1. PICK n \in 0 .. MaxLength : b \in [1 .. n -> Byte]
  BY DEF Opened!Bytes, Byte
<1>2. n \in Nat
  BY <1>1, FileAssumption
<1>3. QED
  BY <1>1, <1>2

LEMMA DocumentStart == Opened!Init => DocumentInv
<1> SUFFICES ASSUME Opened!Init
             PROVE  DocumentInv
  OBVIOUS
<1>1. PICK b \in Opened!Bytes :
          v2 = [f \in File |->
                  [kind  |-> IF f = "pipe" THEN "pipe" ELSE "regular",
                   bytes |-> IF f = "wallpaper" THEN b ELSE <<>>]]
  BY DEF Opened!Init, File
<1>2. b \in Seq(Byte) /\ <<>> \in Seq(Byte)
  BY BytesAreSequences
<1>3. DiskInv
  BY <1>1, <1>2 DEF Opened!Init, DiskInv, File, Opened!OnDisk, Opened!Anonymous
<1>4. BoundInv
  BY DEF Opened!Init, BoundInv
<1>5. CopyInv
  BY <1>2, FileAssumption DEF Opened!Init, CopyInv
<1>6. QED
  BY <1>3, <1>4, <1>5 DEF DocumentInv

\* The owner's changes reach the files of the disk, never the copy (Rename, Rewrite).
LEMMA OwnerKeeps ==
    ASSUME DocumentInv, Opened!Rename \/ Opened!Rewrite
    PROVE  DocumentInv'
<1>1. CASE Opened!Rename
  BY <1>1 DEF Opened!Rename, DocumentInv, DiskInv, BoundInv, CopyInv, Opened!Approved
<1>2. CASE Opened!Rewrite
  <2>1. PICK f \in Opened!OnDisk \ {"pipe"}, b \in Opened!Bytes : v2' = [v2 EXCEPT ![f].bytes = b]
    BY <1>2 DEF Opened!Rewrite
  <2>2. UNCHANGED <<v1, v4, v5, v6, v7, v8, v9, v10, v11, v12>>
    BY <1>2 DEF Opened!Rewrite
  <2>3. b \in Seq(Byte)
    BY BytesAreSequences
  <2>4. DiskInv'
    BY <2>1, <2>2, <2>3 DEF DocumentInv, DiskInv, File
  <2>5. v2'[Opened!Anonymous] = v2[Opened!Anonymous]
    BY <2>1 DEF DocumentInv, DiskInv, File, Opened!OnDisk, Opened!Anonymous
  <2>6. BoundInv' /\ CopyInv'
    BY <2>2, <2>5 DEF DocumentInv, BoundInv, CopyInv, Opened!Approved
  <2>7. QED
    BY <2>4, <2>6 DEF DocumentInv
<1>3. QED
  BY <1>1, <1>2

\* The steps of the open up to the read (open_regular, open_with_limits).
LEMMA OpenKeeps ==
    ASSUME DocumentInv, Opened!Bind \/ Opened!CheckRegular \/ Opened!Reopen \/ Opened!Measure
    PROVE  DocumentInv'
<1>1. CASE Opened!Bind
  BY <1>1 DEF Opened!Fail, Opened!Bind, Opened!Environment, Opened!Parser, DocumentInv, DiskInv,
     BoundInv, CopyInv, Opened!Approved
<1>2. CASE Opened!CheckRegular
  BY <1>2 DEF Opened!Fail, Opened!CheckRegular, Opened!Environment, Opened!Parser, DocumentInv,
     DiskInv, BoundInv, CopyInv, Opened!Approved
<1>3. CASE Opened!Reopen
  BY <1>3 DEF Opened!Fail, Opened!Reopen, Opened!Reopened, Opened!Environment, Opened!Parser,
     DocumentInv, DiskInv, BoundInv, CopyInv, Opened!Approved, Opened!OnDisk, Opened!None
<1>4. CASE Opened!Measure
  <2>1. v6 \in File /\ v2[v6].bytes \in Seq(Byte)
    BY <1>4 DEF Opened!Measure, DocumentInv, DiskInv, BoundInv, File
  <2>2. Len(v2[v6].bytes) \in Nat
    BY <2>1
  <2>3. /\ v4 = "measure" /\ UNCHANGED <<v1, v2, v5, v6, v8, v9, v10, v11>>
        /\ \/ v4' = "failed" /\ v12' = "too large" /\ v7' = v7
           \/ /\ ~(Len(v2[v6].bytes) > max_source_bytes) /\ v7' = Len(v2[v6].bytes)
              /\ v4' = "read" /\ v12' = v12
    BY <1>4 DEF Opened!Measure, Opened!Fail, Opened!Environment, Opened!Parser
  <2>4. v7' \in Nat /\ v7' <= max_source_bytes
    <3>1. max_source_bytes \in Nat
      BY FileAssumption
    <3>2. v7 \in Nat /\ v7 <= max_source_bytes
      BY DEF DocumentInv, CopyInv
    <3>3. \A n \in Nat : ~(n > max_source_bytes) => n <= max_source_bytes
      BY <3>1
    <3>4. QED
      BY <2>2, <2>3, <3>2, <3>3
  <2>5. Len(v8) = 0
    <3>1. v8 = <<>>
      BY <2>3 DEF DocumentInv, CopyInv
    <3>2. QED
      BY <3>1
  <2>6. CopyInv'
    <3>1. Len(v8') <= v7'
      <4>1. v8' = v8
        BY <2>3
      <4>2. QED
        BY <2>4, <2>5, <4>1
    <3>2. v11' = <<>> /\ v8' = v8 /\ v8 \in Seq(Byte) /\ v12' # "no memory"
      BY <2>3 DEF DocumentInv, CopyInv
    <3>3. v4' \in {"failed", "read"}
      BY <2>3
    <3>4. QED
      BY <2>4, <3>1, <3>2, <3>3 DEF CopyInv
  <2>7. QED
    BY <2>3, <2>6 DEF DocumentInv, DiskInv, BoundInv
<1>5. QED
  BY <1>1, <1>2, <1>3, <1>4

\* A failure ends the open and leaves what was read.
LEMMA FailureKeeps == ASSUME DocumentInv, Opened!OtherFailure PROVE DocumentInv'
<1>1. /\ v4' = "failed" /\ v12' = "error"
      /\ UNCHANGED <<v1, v2, v5, v6, v7, v8, v9, v11>>
  BY DEF Opened!OtherFailure, Opened!Fail, Opened!Environment, Opened!Parser
<1>2. QED
  BY <1>1 DEF DocumentInv, DiskInv, BoundInv, CopyInv, Opened!Approved

\* Reading stops at the measured length, and only approved bytes are copied.
LEMMA ReadKeeps ==
    ASSUME DocumentInv, Opened!ReadByte \/ Opened!preflight \/ Opened!Snapshot
    PROVE  DocumentInv'
<1>1. CASE Opened!ReadByte
  <2>1. v6 \in File /\ v2[v6].bytes \in Seq(Byte)
    BY <1>1 DEF Opened!ReadByte, DocumentInv, DiskInv, BoundInv, File
  <2>2. /\ v4 = "read" /\ Len(v8) # v7 /\ Len(v8) < Len(v2[v6].bytes)
        /\ v8' = Append(v8, v2[v6].bytes[Len(v8) + 1])
        /\ UNCHANGED <<v1, v2, v4, v5, v6, v7, v9, v10, v11, v12>>
    BY <1>1 DEF Opened!ReadByte, Opened!AtEnd, Opened!Environment, Opened!Parser
  <2>3. v8 \in Seq(Byte) /\ v7 \in Nat /\ Len(v8) <= v7 /\ Len(v8) \in Nat
    <3>1. v8 \in Seq(Byte) /\ v7 \in Nat /\ Len(v8) <= v7
      BY DEF DocumentInv, CopyInv
    <3>2. QED
      BY <3>1
  <2>4. v2[v6].bytes[Len(v8) + 1] \in Byte
    BY <2>1, <2>2, <2>3
  <2>5. v8' \in Seq(Byte) /\ Len(v8') = Len(v8) + 1
    BY <2>2, <2>3, <2>4
  <2>6. Len(v8') <= v7
    BY <2>2, <2>3, <2>5
  <2>7. QED
    BY <2>2, <2>5, <2>6 DEF DocumentInv, DiskInv, BoundInv, CopyInv
<1>2. CASE Opened!preflight
  <2>1. /\ v4 = "read" /\ UNCHANGED <<v1, v2, v5, v6, v7, v8, v9, v10, v11>>
        /\ \/ v4' = "failed" /\ v12' = "container"
           \/ v4' = "snapshot" /\ v12' = v12 /\ Opened!Approved(v8)
    BY <1>2 DEF Opened!preflight, Opened!Fail, Opened!Environment, Opened!Parser
  <2>2. QED
    BY <2>1 DEF DocumentInv, DiskInv, BoundInv, CopyInv, Opened!Approved
<1>3. CASE Opened!Snapshot
  <2>1. /\ v4 = "snapshot" /\ v4' = "parse" /\ v2' = [v2 EXCEPT ![Opened!Anonymous].bytes = v8]
        /\ v9' = [file |-> Opened!Anonymous, length |-> Len(v8)]
        /\ UNCHANGED <<v1, v5, v6, v7, v8, v11, v12>>
    BY <1>3 DEF Opened!Snapshot, Opened!anonymous_source, Opened!Environment
  <2>2. v8 \in Seq(Byte)
    BY DEF DocumentInv, CopyInv
  <2>3. DiskInv'
    BY <2>1, <2>2 DEF DocumentInv, DiskInv, File, Opened!OnDisk, Opened!Anonymous
  <2>4. v2'[Opened!Anonymous].bytes = v8
    BY <2>1 DEF DocumentInv, DiskInv, File
  <2>5. BoundInv' /\ CopyInv'
    BY <2>1, <2>4 DEF DocumentInv, BoundInv, CopyInv, Opened!Approved
  <2>6. QED
    BY <2>3, <2>5 DEF DocumentInv
<1>4. QED
  BY <1>1, <1>2, <1>3

\* The parser uses the copy, while it parses and when an image is decoded.
LEMMA ParseKeeps ==
    ASSUME DocumentInv, Opened!read_reader \/ Opened!Inspect \/ Opened!decode
    PROVE  DocumentInv'
<1>1. ASSUME v4 \in {"parse", "opened"}, Opened!Use
      PROVE  v11' = v8 /\ Len(v8) = v9.length /\ Opened!Approved(v8)
  <2>1. /\ v8 \in Seq(Byte) /\ v2[Opened!Anonymous].bytes = v8
        /\ v9 = [file |-> Opened!Anonymous, length |-> Len(v8)]
    BY <1>1 DEF DocumentInv, CopyInv
  <2>2. SubSeq(v8, 1, Len(v8)) = v8
    BY <2>1, SubSeqFull
  <2>3. QED
    BY <1>1, <2>1, <2>2 DEF Opened!Use, DocumentInv, CopyInv
<1>2. CASE Opened!read_reader
  BY <1>1, <1>2 DEF Opened!read_reader, Opened!Environment, DocumentInv, DiskInv, BoundInv,
     CopyInv, Opened!Approved
<1>3. CASE Opened!Inspect
  <2>1. /\ v4 = "inspect" /\ UNCHANGED <<v1, v2, v5, v6, v7, v8, v9, v11>>
        /\ \/ v4' = "failed" /\ v12' = "metadata"
           \/ v4' = "opened" /\ v12' = v12 /\ v10' = "image"
    BY <1>3 DEF Opened!Inspect, Opened!ImageLimit, Opened!Fail, Opened!Environment, Opened!Parser
  <2>2. QED
    BY <2>1 DEF DocumentInv, DiskInv, BoundInv, CopyInv, Opened!Approved
<1>4. CASE Opened!decode
  BY <1>1, <1>4 DEF Opened!decode, Opened!Environment, DocumentInv, DiskInv, BoundInv,
     CopyInv, Opened!Approved
<1>5. QED
  BY <1>2, <1>3, <1>4

LEMMA DocumentStep ==
    ASSUME DocumentInv, [Opened!Next]_(Opened!vars)
    PROVE  DocumentInv'
<1>1. CASE UNCHANGED Opened!vars
  BY <1>1 DEF Opened!vars, DocumentInv, DiskInv, BoundInv, CopyInv, Opened!Approved
<1>2. QED
  BY <1>1, OwnerKeeps, OpenKeeps, FailureKeeps, ReadKeeps, ParseKeeps DEF Opened!Next, Opened!Open

LEMMA DocumentImplies ==
    ASSUME DocumentInv
    PROVE  /\ Opened!ReadsTheCheckedFile /\ Opened!ParserUsesApprovedBytes
           /\ Opened!ReadIsBounded /\ Opened!PlanesFit
<1>1. Opened!ReadsTheCheckedFile
  BY DEF DocumentInv, DiskInv, BoundInv, Opened!ReadsTheCheckedFile, File
<1>2. Opened!ParserUsesApprovedBytes /\ Opened!PlanesFit
  BY DEF DocumentInv, CopyInv, Opened!ParserUsesApprovedBytes, Opened!PlanesFit
<1>3. Opened!ReadIsBounded
  <2>1. v8 \in Seq(Byte) /\ Len(v8) <= v7 /\ v7 \in Nat /\ v7 <= max_source_bytes
    BY DEF DocumentInv, CopyInv
  <2>2. Len(v8) \in Nat
    BY <2>1
  <2>3. QED
    BY <2>1, <2>2, FileAssumption DEF Opened!ReadIsBounded
<1>4. QED
  BY <1>1, <1>2, <1>3

-----------------------------------------------------------------------------
(* Strings: v4 is the bytes of one, and a reading what was kept of it       *)

Char == {0, 7}

Reading == [value : Seq(Char), done : BOOLEAN]

Begin == [value |-> <<>>, done |-> FALSE]

Take(s, r, i) ==
    IF r.done \/ i = Len(s) \/ s[i] = 0 THEN [r EXCEPT !.done = TRUE]
    ELSE [r EXCEPT !.value = Append(@, s[i])]

LEMMA TakeType ==
    ASSUME NEW s \in Seq(Char), NEW r \in Reading, NEW i \in 1 .. Len(s)
    PROVE  Take(s, r, i) \in Reading
<1>1. s[i] \in Char
  OBVIOUS
<1>2. Append(r.value, s[i]) \in Seq(Char)
  BY <1>1 DEF Reading
<1>3. QED
  BY <1>2 DEF Reading, Take

LEMMA TakeCases ==
    ASSUME NEW s, NEW i, NEW r \in Reading
    PROVE  /\ ~r.done /\ i # Len(s) /\ s[i] # 0 =>
                ~Take(s, r, i).done /\ Take(s, r, i).value = Append(r.value, s[i])
           /\ r.done \/ i = Len(s) \/ s[i] = 0 =>
                Take(s, r, i).done /\ Take(s, r, i).value = r.value
<1>1. CASE r.done \/ i = Len(s) \/ s[i] = 0
  <2>1. Take(s, r, i) = [r EXCEPT !.done = TRUE]
    BY <1>1, Zenon DEF Take
  <2>2. QED
    BY <1>1, <2>1 DEF Reading
<1>2. CASE ~(r.done \/ i = Len(s) \/ s[i] = 0)
  <2>1. Take(s, r, i) = [r EXCEPT !.value = Append(r.value, s[i])]
    BY <1>2, Zenon DEF Take
  <2>2. QED
    BY <1>2, <2>1 DEF Reading
<1>3. QED
  BY <1>1, <1>2, Zenon

\* What the definition of the reader folds.
IsFold(it, s) ==
    it = [t \in SUBSET (DOMAIN [i \in DOMAIN s |-> i]) |->
            IF t = {} THEN Begin
            ELSE LET x == Bytes!Max(t) IN Take(s, it[t \ {x}], [i \in DOMAIN s |-> i][x])]

LEMMA ReaderIs ==
    Bytes!Reader = (CHOOSE it : IsFold(it, v4))[DOMAIN [i \in DOMAIN v4 |-> i]].value
BY Zenon DEF Bytes!Reader, Bytes!FoldLeft, Bytes!MapThenFoldSet, IsFold, Take, Begin
LEMMA FoldIsThere ==
    ASSUME NEW s \in Seq(Char)
    PROVE  \E it : IsFold(it, s)
<1> DEFINE n == Len(s)
           F == [p \in Reading \X (1 .. n) |-> Take(s, p[1], p[2])]
<1>1. n \in Nat /\ DOMAIN s = 1 .. n /\ DOMAIN [i \in DOMAIN s |-> i] = 1 .. n
  OBVIOUS
<1>2. Begin \in Reading
  BY DEF Begin, Reading
<1>3. F \in [Reading \X (1 .. n) -> Reading]
  BY TakeType
<1>4. PICK it : Folding(it, n, Reading, Begin, F)
  BY <1>1, <1>2, <1>3, FoldExists
<1>5. ASSUME NEW t \in SUBSET (1 .. n), t # {}
      PROVE  it[t] = Take(s, it[t \ {Bytes!Max(t)}], [i \in DOMAIN s |-> i][Bytes!Max(t)])
  <2>1. Bytes!Max(t) = Largest(t)
    BY Zenon DEF Bytes!Max, Largest
  <2>2. Largest(t) \in t /\ Largest(t) \in 1 .. n
    BY <1>1, <1>5, LargestIsThere
  <2>3. t \ {Largest(t)} \in SUBSET (1 .. n)
    OBVIOUS
  <2>4. it[t \ {Largest(t)}] \in Reading
    BY <1>4, <2>3 DEF Folding
  <2>5. it[t] = F[<<it[t \ {Largest(t)}], Largest(t)>>]
    BY <1>4, <1>5 DEF Folding
  <2>6. F[<<it[t \ {Largest(t)}], Largest(t)>>] = Take(s, it[t \ {Largest(t)}], Largest(t))
    BY <2>2, <2>4
  <2>7. [i \in DOMAIN s |-> i][Largest(t)] = Largest(t)
    BY <1>1, <2>2
  <2>8. QED
    BY <2>1, <2>5, <2>6, <2>7
<1>6. it = [t \in SUBSET (1 .. n) |->
              IF t = {} THEN Begin
              ELSE Take(s, it[t \ {Bytes!Max(t)}], [i \in DOMAIN s |-> i][Bytes!Max(t)])]
  <2>1. it \in [SUBSET (1 .. n) -> Reading] /\ it[{}] = Begin
    BY <1>4 DEF Folding
  <2> HIDE DEF F
  <2>2. QED
    BY <1>5, <2>1
<1>7. IsFold(it, s)
  BY <1>1, <1>6 DEF IsFold
<1>8. QED
  BY <1>7

LEMMA Prefixes ==
    ASSUME NEW n \in Nat, NEW k \in 1 .. n
    PROVE  /\ (1 .. k) \in SUBSET (1 .. n) /\ k \in 1 .. k /\ k \in Nat /\ k # 0
           /\ (1 .. k) \ {k} = 1 .. (k - 1) /\ 1 .. k # {} /\ k - 1 \in Nat /\ k - 1 \in 0 .. n
OBVIOUS

LEMMA FoldStep ==
    ASSUME NEW s \in Seq(Char), NEW it, IsFold(it, s), NEW k \in 1 .. Len(s)
    PROVE  it[1 .. k] = Take(s, it[1 .. (k - 1)], k)
<1>1. Len(s) \in Nat /\ DOMAIN s = 1 .. Len(s)
  OBVIOUS
<1>2. /\ (1 .. k) \in SUBSET (1 .. Len(s)) /\ k \in 1 .. k /\ k \in Nat
      /\ (1 .. k) \ {k} = 1 .. (k - 1) /\ 1 .. k # {}
  BY <1>1, Prefixes
<1>3. Bytes!Max(1 .. k) = k
  <2>1. Largest(1 .. k) = k
    BY <1>2, LargestOfTop
  <2>2. QED
    BY <2>1, Zenon DEF Bytes!Max, Largest
<1>4. [i \in DOMAIN s |-> i][k] = k /\ DOMAIN [i \in DOMAIN s |-> i] = 1 .. Len(s)
  BY <1>1
<1>5. it[1 .. k] = Take(s, it[(1 .. k) \ {Bytes!Max(1 .. k)}], [i \in DOMAIN s |-> i][Bytes!Max(1 .. k)])
  BY <1>2, <1>4, Zenon DEF IsFold
<1>6. QED
  BY <1>2, <1>3, <1>4, <1>5, Zenon

\* A step of the reader, before the end of the string and past it.
LEMMA ReadsOne ==
    ASSUME NEW s \in Seq(Char), NEW k \in 1 .. Len(s), NEW r \in Reading,
           NEW e \in Nat, e = Len(s) \/ s[e] = 0, k < e => k # Len(s) /\ s[k] # 0,
           k - 1 < e => ~r.done /\ r.value = SubSeq(s, 1, k - 1),
           ~(k - 1 < e) => r.done /\ r.value = SubSeq(s, 1, e - 1)
    PROVE  /\ k < e => ~Take(s, r, k).done /\ Take(s, r, k).value = SubSeq(s, 1, k)
           /\ ~(k < e) => Take(s, r, k).done /\ Take(s, r, k).value = SubSeq(s, 1, e - 1)
<1>1. k \in Nat /\ (k < e \/ k = e \/ e < k)
  OBVIOUS
<1>2. /\ ~r.done /\ k # Len(s) /\ s[k] # 0 =>
           ~Take(s, r, k).done /\ Take(s, r, k).value = Append(r.value, s[k])
      /\ r.done \/ k = Len(s) \/ s[k] = 0 =>
           Take(s, r, k).done /\ Take(s, r, k).value = r.value
  BY TakeCases
<1>3. CASE k < e
  <2>1. k - 1 < e
    BY <1>1, <1>3
  <2>2. Append(SubSeq(s, 1, k - 1), s[k]) = SubSeq(s, 1, k)
    BY PrefixGrows, Zenon
  <2>3. QED
    BY <1>2, <1>3, <2>1, <2>2, Zenon
<1>4. CASE k = e
  <2>1. k - 1 < e /\ ~(k < e)
    BY <1>1, <1>4
  <2>2. k = Len(s) \/ s[k] = 0
    BY <1>4, Zenon
  <2>3. SubSeq(s, 1, k - 1) = SubSeq(s, 1, e - 1)
    BY <1>4, Zenon
  <2>4. QED
    BY <1>2, <2>1, <2>2, <2>3, Zenon
<1>5. CASE e < k
  <2>1. ~(k - 1 < e) /\ ~(k < e)
    BY <1>1, <1>5
  <2>2. QED
    BY <1>2, <2>1, Zenon
<1>6. QED
  BY <1>1, <1>3, <1>4, <1>5, Zenon

\* Byte by byte: before the end the reader has what it read, past it what was before the end.
LEMMA ReadsUpToEnd ==
    ASSUME NEW s \in Seq(Char), NEW n \in Nat, n = Len(s), NEW it, IsFold(it, s),
           NEW e \in Nat, e # 0, e <= n, e = n \/ s[e] = 0,
           \A i \in Nat : i # 0 /\ i < e => i # n /\ s[i] # 0
    PROVE  it[1 .. n].value = SubSeq(s, 1, e - 1)
<1> DEFINE Right(k) == /\ it[1 .. k] \in Reading
                       /\ k < e => ~it[1 .. k].done /\ it[1 .. k].value = SubSeq(s, 1, k)
                       /\ ~(k < e) => it[1 .. k].done /\ it[1 .. k].value = SubSeq(s, 1, e - 1)
           Wrong == {k \in 0 .. n : ~Right(k)}
<1>1. Right(0)
  <2>1. it[{}] = Begin
    BY Zenon DEF IsFold
  <2>2. 1 .. 0 = {} /\ SubSeq(s, 1, 0) = <<>> /\ 0 < e
    OBVIOUS
  <2>3. Begin \in Reading /\ ~Begin.done /\ Begin.value = <<>>
    BY DEF Begin, Reading
  <2>4. QED
    BY <2>1, <2>2, <2>3, Zenon
<1>2. ASSUME NEW k \in Nat, k # 0, k <= n, Right(k - 1)
      PROVE  Right(k)
  <2>1. k \in 1 .. Len(s) /\ (k < e => k # Len(s) /\ s[k] # 0)
    BY <1>2
  <2>2. it[1 .. k] = Take(s, it[1 .. (k - 1)], k) /\ it[1 .. k] \in Reading
    BY <1>2, <2>1, FoldStep, TakeType, Zenon
  <2>3. PICK r \in Reading : /\ r = it[1 .. (k - 1)]
                             /\ k - 1 < e => ~r.done /\ r.value = SubSeq(s, 1, k - 1)
                             /\ ~(k - 1 < e) => r.done /\ r.value = SubSeq(s, 1, e - 1)
    BY <1>2, Zenon
  <2>4. /\ k < e => ~Take(s, r, k).done /\ Take(s, r, k).value = SubSeq(s, 1, k)
        /\ ~(k < e) => Take(s, r, k).done /\ Take(s, r, k).value = SubSeq(s, 1, e - 1)
    <3>1. e \in Nat /\ (e = Len(s) \/ s[e] = 0)
      OBVIOUS
    <3>2. \A c \in Reading :
             /\ k - 1 < e => ~c.done /\ c.value = SubSeq(s, 1, k - 1)
             /\ ~(k - 1 < e) => c.done /\ c.value = SubSeq(s, 1, e - 1)
             =>
             /\ k < e => ~Take(s, c, k).done /\ Take(s, c, k).value = SubSeq(s, 1, k)
             /\ ~(k < e) => Take(s, c, k).done /\ Take(s, c, k).value = SubSeq(s, 1, e - 1)
      <4> HIDE DEF Right
      <4>1. QED
        BY <2>1, <3>1, ReadsOne
    <3>3. QED
      BY <2>3, <3>2, Zenon
  <2>5. Take(s, r, k) = it[1 .. k]
    BY <2>2, <2>3, Zenon
  <2>6. QED
    BY <2>2, <2>4, <2>5, Zenon
<1>3. Wrong = {}
  <2>1. SUFFICES ASSUME Wrong # {}
                 PROVE  FALSE
    OBVIOUS
  <2>2. Wrong \in SUBSET Nat
    OBVIOUS
  <2> HIDE DEF Right
  <2>3. PICK k \in Wrong : \A y \in Wrong : k <= y
    BY <2>1, <2>2, LeastNatural
  <2>4. k \in 0 .. n /\ ~Right(k)
    BY <2>3
  <2>5. k # 0 /\ k \in Nat /\ k <= n
    BY <1>1, <2>4
  <2>6. Right(k - 1)
    <3>1. k - 1 \in 0 .. n /\ ~(k <= k - 1)
      BY <2>5
    <3>2. QED
      BY <2>3, <3>1
  <2>7. QED
    BY <1>2, <2>4, <2>5, <2>6
<1>4. Right(n)
  <2>1. n \in 0 .. n
    OBVIOUS
  <2> HIDE DEF Right
  <2>2. QED
    BY <1>3, <2>1
<1>5. ~(n < e)
  OBVIOUS
<1>6. QED
  BY <1>4, <1>5, Zenon

\* The bytes of a string are some zeros and some sevens.
StringInv == v4 \in Seq(Char)

LEMMA Between ==
    ASSUME NEW n \in Nat, NEW e \in Nat, e <= n, NEW i \in Nat, i # 0, i < e
    PROVE  i \in 1 .. n /\ i # n /\ ~(e <= i)
OBVIOUS

\* The preflight's string is the reader's (read_cstring).
LEMMA SameString ==
    ASSUME StringInv
    PROVE  Bytes!ParserReadsTheSame
<1> DEFINE n == Len(v4)
           zeros == {i \in DOMAIN v4 : v4[i] = 0}
           least == CHOOSE i \in zeros : \A j \in zeros : i <= j
<1>1. n \in Nat /\ DOMAIN v4 = 1 .. n /\ v4 \in Seq(Char)
  BY DEF StringInv
<1>2. PICK it : it = (CHOOSE jt : IsFold(jt, v4)) /\ IsFold(it, v4)
  BY <1>1, FoldIsThere, Zenon
<1>3. Bytes!Reader = it[1 .. n].value
  <2>1. DOMAIN [i \in DOMAIN v4 |-> i] = 1 .. n
    BY <1>1
  <2>2. QED
    BY <1>2, <2>1, ReaderIs, Zenon
<1>4. CASE zeros # {}
  <2>1. zeros \in SUBSET Nat
    BY <1>1
  <2>2. \E i \in zeros : \A j \in zeros : i <= j
    BY <1>4, <2>1, LeastNatural, Zenon
  <2>3. PICK e : e = least /\ e \in zeros /\ \A j \in zeros : e <= j
    BY <2>2, Zenon
  <2>4. e \in Nat /\ e # 0 /\ e <= n /\ v4[e] = 0
    BY <1>1, <2>3
  <2>5. \A i \in Nat : i # 0 /\ i < e => i # n /\ v4[i] # 0
    <3>1. SUFFICES ASSUME NEW i \in Nat, i # 0, i < e
                   PROVE  i # n /\ v4[i] # 0
      OBVIOUS
    <3>2. i \in 1 .. n /\ i # n /\ ~(e <= i)
      BY <1>1, <2>4, <3>1, Between
    <3>3. i \notin zeros
      BY <2>3, <3>2, Zenon
    <3>4. QED
      BY <1>1, <3>2, <3>3
  <2>6. it[1 .. n].value = SubSeq(v4, 1, e - 1)
    BY <1>1, <1>2, <2>4, <2>5, ReadsUpToEnd
  <2>7. Bytes!read_cstring(v4) = SubSeq(v4, 1, e - 1)
    BY <1>4, <2>3, Zenon DEF Bytes!read_cstring
  <2>8. QED
    BY <1>3, <2>6, <2>7, Zenon DEF Bytes!ParserReadsTheSame
<1>5. CASE zeros = {} /\ v4 # <<>>
  <2>1. n # 0
    BY <1>1, <1>5
  <2>2. \A i \in Nat : i # 0 /\ i < n => i # n /\ v4[i] # 0
    <3>1. SUFFICES ASSUME NEW i \in Nat, i # 0, i < n
                   PROVE  i # n /\ v4[i] # 0
      OBVIOUS
    <3>2. i \in 1 .. n /\ i # n
      <4>1. n <= n
        BY <1>1
      <4>2. QED
        BY <1>1, <3>1, <4>1, Between
    <3>3. i \notin zeros
      BY <1>5
    <3>4. QED
      BY <1>1, <3>2, <3>3
  <2>3. it[1 .. n].value = SubSeq(v4, 1, n - 1)
    <3>1. n <= n
      BY <1>1
    <3>2. QED
      BY <1>1, <1>2, <2>1, <2>2, <3>1, ReadsUpToEnd
  <2>4. Bytes!read_cstring(v4) = SubSeq(v4, 1, n - 1)
    BY <1>5, Zenon DEF Bytes!read_cstring, Bytes!Front
  <2>5. QED
    BY <1>3, <2>3, <2>4, Zenon DEF Bytes!ParserReadsTheSame
<1>6. CASE zeros = {} /\ v4 = <<>>
  <2>1. 1 .. n = {}
    BY <1>1, <1>6
  <2>2. it[{}] = Begin
    BY <1>2, Zenon DEF IsFold
  <2>3. it[1 .. n].value = <<>>
    BY <2>1, <2>2 DEF Begin
  <2>4. Bytes!read_cstring(v4) = <<>>
    BY <1>6, Zenon DEF Bytes!read_cstring
  <2>5. QED
    BY <1>3, <2>3, <2>4, Zenon DEF Bytes!ParserReadsTheSame
<1>7. QED
  BY <1>4, <1>5, <1>6, Zenon

LEMMA StringStart == Bytes!Init => StringInv
<1> SUFFICES ASSUME Bytes!Init
             PROVE  StringInv
  OBVIOUS
<1>1. PICK n \in 0 .. MaxString : v4 \in [1 .. n -> {0, 7}]
  BY DEF Bytes!Init
<1>2. n \in Nat
  BY <1>1, FileAssumption
<1>3. QED
  BY <1>1, <1>2 DEF StringInv, Char

-----------------------------------------------------------------------------
(* The schedule: v1 is the points in metadata order, v2 the time of day, v3 *)
(* an authored position of the sun                                          *)

LEMMA Day ==
    /\ SecondsPerDay \in Nat /\ SecondsPerDay > 0 /\ Grain \in Nat /\ Grain > 0
    /\ SampleSeconds \in Nat /\ SampleSeconds > 0
BY DayAssumption DEF Schedule!ScheduleAssumption

\* A time is reached by a second at or after it.
Reaches(time, s) == time * SecondsPerDay <= s * Grain

LEMMA ReachesOn ==
    ASSUME NEW time \in Nat, NEW s \in Nat, NEW t \in Nat, s <= t, Reaches(time, s)
    PROVE  Reaches(time, t)
<1>1. s * Grain \in Int /\ t * Grain \in Int /\ time * SecondsPerDay \in Int
  BY Day
<1>2. s * Grain <= t * Grain
  <2>1. \A g \in Nat : s * g <= t * g
    OBVIOUS
  <2>2. QED
    BY <2>1, Day
<1>3. QED
  BY <1>1, <1>2 DEF Reaches

\* A second that reaches the time, the first from low to high or else high.
First(x, low, high, time) ==
    /\ x \in low .. high
    /\ x = high \/ Reaches(time, x)
    /\ \A s \in low .. high : s < x => ~Reaches(time, s)

LEMMA FirstIsThere ==
    ASSUME NEW time \in Nat, NEW low \in Nat, NEW high \in Nat, low <= high
    PROVE  \E x : First(x, low, high, time)
<1> DEFINE S == {s \in low .. high : s = high \/ Reaches(time, s)}
<1>1. S \in SUBSET Nat /\ high \in S
  OBVIOUS
<1>2. PICK x \in S : \A y \in S : x <= y
  BY <1>1, LeastNatural
<1>3. ASSUME NEW s \in low .. high, s < x
      PROVE  ~Reaches(time, s)
  <2>1. s \in Nat /\ x \in Nat /\ ~(x <= s)
    BY <1>1, <1>2, <1>3
  <2>2. s \notin S
    BY <1>2, <2>1
  <2>3. QED
    BY <2>2
<1>4. First(x, low, high, time)
  BY <1>2, <1>3 DEF First
<1>5. QED
  BY <1>4

LEMMA OnlyFirst ==
    ASSUME NEW time \in Nat, NEW low \in Nat, NEW high \in Nat, NEW x, NEW y,
           First(x, low, high, time), First(y, low, high, time)
    PROVE  x = y
BY DEF First

Middle(low, high) == low + (high - low) \div 2

LEMMA MiddleIsBetween ==
    ASSUME NEW low \in Nat, NEW high \in Nat, low < high
    PROVE  Middle(low, high) \in Nat /\ low <= Middle(low, high) /\ Middle(low, high) < high
BY DEF Middle

\* A half of the range has the first second of the whole.
LEMMA FirstInHalf ==
    ASSUME NEW time \in Nat, NEW low \in Nat, NEW high \in Nat, low < high, NEW x
    PROVE  /\ Reaches(time, Middle(low, high)) /\ First(x, low, Middle(low, high), time) =>
                First(x, low, high, time)
           /\ ~Reaches(time, Middle(low, high)) /\ First(x, Middle(low, high) + 1, high, time) =>
                First(x, low, high, time)
<1> DEFINE m == Middle(low, high)
<1>1. m \in Nat /\ low <= m /\ m < high
  BY MiddleIsBetween
<1> HIDE DEF m
<1>2. ASSUME Reaches(time, m), First(x, low, m, time)
      PROVE  First(x, low, high, time)
  BY <1>1, <1>2 DEF First
<1>3. ASSUME ~Reaches(time, m), First(x, m + 1, high, time)
      PROVE  First(x, low, high, time)
  <2>1. \A s \in Nat : s <= m => ~Reaches(time, s)
    BY <1>1, <1>3, ReachesOn
  <2>2. x \in low .. high /\ (x = high \/ Reaches(time, x))
    BY <1>1, <1>3 DEF First
  <2>3. ASSUME NEW s \in low .. high, s < x
        PROVE  ~Reaches(time, s)
    <3>1. s \in Nat /\ (s <= m \/ s \in (m + 1) .. high)
      BY <1>1
    <3>2. QED
      BY <1>3, <2>1, <2>3, <3>1 DEF First
  <2>4. QED
    BY <2>2, <2>3 DEF First
<1>4. QED
  BY <1>2, <1>3 DEF m

Ranges == (0 .. SecondsPerDay) \X (0 .. SecondsPerDay)

\* What the definition of the search says of it.
IsSearch(f, time) ==
    f = [range \in Ranges |->
           IF range[1] >= range[2] THEN range[1]
           ELSE IF time * SecondsPerDay <= (range[1] + (range[2] - range[1]) \div 2) * Grain
                THEN f[<<range[1], range[1] + (range[2] - range[1]) \div 2>>]
           ELSE f[<<(range[1] + (range[2] - range[1]) \div 2) + 1, range[2]>>]]

LEMMA BoundaryIs ==
    ASSUME NEW time
    PROVE  Schedule!effective_boundary_second(time)
             = (CHOOSE f : IsSearch(f, time))[<<0, SecondsPerDay>>]
BY Zenon DEF Schedule!effective_boundary_second, IsSearch, Ranges

LEMMA SearchIs ==
    ASSUME NEW time, NEW f
    PROVE  IsSearch(f, time) <=>
             f = [range \in Ranges |->
                    IF range[1] >= range[2] THEN range[1]
                    ELSE IF Reaches(time, Middle(range[1], range[2]))
                         THEN f[<<range[1], Middle(range[1], range[2])>>]
                    ELSE f[<<Middle(range[1], range[2]) + 1, range[2]>>]]
BY Zenon DEF IsSearch, Reaches, Middle

LEMMA SearchIsThere ==
    ASSUME NEW time \in Nat
    PROVE  \E f : IsSearch(f, time)
<1> DEFINE f == [range \in Ranges |->
                   IF range[1] >= range[2] THEN range[1]
                   ELSE CHOOSE x : First(x, range[1], range[2], time)]
<1>1. ASSUME NEW low \in 0 .. SecondsPerDay, NEW high \in 0 .. SecondsPerDay, low <= high
      PROVE  First(f[<<low, high>>], low, high, time)
  <2>1. low \in Nat /\ high \in Nat
    BY Day
  <2>2. CASE low < high
    <3>1. f[<<low, high>>] = CHOOSE x : First(x, low, high, time)
      BY <2>1, <2>2 DEF Ranges
    <3>2. \E x : First(x, low, high, time)
      BY <1>1, <2>1, FirstIsThere
    <3>3. QED
      BY <3>1, <3>2
  <2>3. CASE low = high
    <3>1. f[<<low, high>>] = low
      BY <2>1, <2>3 DEF Ranges
    <3>2. QED
      BY <2>1, <2>3, <3>1 DEF First
  <2>4. QED
    BY <1>1, <2>1, <2>2, <2>3
<1>2. ASSUME NEW low \in 0 .. SecondsPerDay, NEW high \in 0 .. SecondsPerDay
      PROVE  f[<<low, high>>] =
               IF low >= high THEN low
               ELSE IF Reaches(time, Middle(low, high)) THEN f[<<low, Middle(low, high)>>]
               ELSE f[<<Middle(low, high) + 1, high>>]
  <2>1. low \in Nat /\ high \in Nat
    BY Day
  <2>2. CASE low >= high
    BY <2>2 DEF Ranges
  <2>3. CASE low < high
    <3>1. First(f[<<low, high>>], low, high, time)
      BY <1>1, <2>1, <2>3
    <3>2. /\ Middle(low, high) \in 0 .. SecondsPerDay
          /\ Middle(low, high) + 1 \in 0 .. SecondsPerDay
          /\ low <= Middle(low, high) /\ Middle(low, high) + 1 <= high
      BY <2>1, <2>3, MiddleIsBetween, Day
    <3>3. /\ First(f[<<low, Middle(low, high)>>], low, Middle(low, high), time)
          /\ First(f[<<Middle(low, high) + 1, high>>], Middle(low, high) + 1, high, time)
      BY <1>1, <3>2
    <3> HIDE DEF f
    <3>4. CASE Reaches(time, Middle(low, high))
      <4>1. First(f[<<low, Middle(low, high)>>], low, high, time)
        BY <2>1, <2>3, <3>3, <3>4, FirstInHalf
      <4>2. f[<<low, high>>] = f[<<low, Middle(low, high)>>]
        BY <2>1, <3>1, <4>1, OnlyFirst
      <4>3. QED
        BY <2>1, <2>3, <3>4, <4>2
    <3>5. CASE ~Reaches(time, Middle(low, high))
      <4>1. First(f[<<Middle(low, high) + 1, high>>], low, high, time)
        BY <2>1, <2>3, <3>3, <3>5, FirstInHalf
      <4>2. f[<<low, high>>] = f[<<Middle(low, high) + 1, high>>]
        BY <2>1, <3>1, <4>1, OnlyFirst
      <4>3. QED
        BY <2>1, <2>3, <3>5, <4>2
    <3>6. QED
      BY <3>4, <3>5
  <2>4. QED
    BY <2>1, <2>2, <2>3
<1>3. f = [range \in Ranges |->
             IF range[1] >= range[2] THEN range[1]
             ELSE IF Reaches(time, Middle(range[1], range[2]))
                  THEN f[<<range[1], Middle(range[1], range[2])>>]
             ELSE f[<<Middle(range[1], range[2]) + 1, range[2]>>]]
  <2>1. f = [range \in Ranges |-> f[range]]
    OBVIOUS
  <2>2. \A range \in Ranges : \E low, high \in 0 .. SecondsPerDay :
            range = <<low, high>> /\ range[1] = low /\ range[2] = high
    BY DEF Ranges
  <2> HIDE DEF f
  <2>3. \A range \in Ranges :
            f[range] = IF range[1] >= range[2] THEN range[1]
                       ELSE IF Reaches(time, Middle(range[1], range[2]))
                            THEN f[<<range[1], Middle(range[1], range[2])>>]
                       ELSE f[<<Middle(range[1], range[2]) + 1, range[2]>>]
    BY <1>2, <2>2
  <2>4. QED
    BY <2>1, <2>3
<1>4. IsSearch(f, time)
  BY <1>3, SearchIs, Zenon
<1>5. QED
  BY <1>4

\* Halving a range finds its first second.
LEMMA SearchFinds ==
    ASSUME NEW time \in Nat, NEW f, IsSearch(f, time),
           NEW low \in 0 .. SecondsPerDay, NEW high \in 0 .. SecondsPerDay, low <= high
    PROVE  First(f[<<low, high>>], low, high, time)
<1> DEFINE Found(l, h) == First(f[<<l, h>>], l, h, time)
           Wrong == {d \in Nat : \E l, h \in 0 .. SecondsPerDay : l <= h /\ h - l = d /\ ~Found(l, h)}
<1>1. ASSUME NEW l \in 0 .. SecondsPerDay, NEW h \in 0 .. SecondsPerDay
      PROVE  f[<<l, h>>] = IF l >= h THEN l
                           ELSE IF Reaches(time, Middle(l, h)) THEN f[<<l, Middle(l, h)>>]
                           ELSE f[<<Middle(l, h) + 1, h>>]
  <2>1. <<l, h>> \in Ranges /\ <<l, h>>[1] = l /\ <<l, h>>[2] = h
    BY DEF Ranges
  <2>2. f = [range \in Ranges |->
               IF range[1] >= range[2] THEN range[1]
               ELSE IF Reaches(time, Middle(range[1], range[2]))
                    THEN f[<<range[1], Middle(range[1], range[2])>>]
               ELSE f[<<Middle(range[1], range[2]) + 1, range[2]>>]]
    BY SearchIs, Zenon
  <2>3. QED
    BY <2>1, <2>2
<1>2. SUFFICES ASSUME Wrong # {}
               PROVE  FALSE
  <2>1. low \in Nat /\ high \in Nat /\ high - low \in Nat
    BY Day
  <2>2. Wrong = {} => Found(low, high)
    BY <2>1
  <2>3. QED
    BY <2>2
<1>3. Wrong \in SUBSET Nat
  OBVIOUS
<1>4. PICK d \in Wrong : \A y \in Wrong : d <= y
  BY <1>2, <1>3, LeastNatural
<1>5. PICK l \in 0 .. SecondsPerDay, h \in 0 .. SecondsPerDay : l <= h /\ h - l = d /\ ~Found(l, h)
  BY <1>4
<1>6. l \in Nat /\ h \in Nat /\ d \in Nat
  BY <1>4, Day
<1>7. ASSUME NEW i \in 0 .. SecondsPerDay, NEW j \in 0 .. SecondsPerDay, i <= j, j - i < d
      PROVE  Found(i, j)
  <2>1. i \in Nat /\ j \in Nat /\ j - i \in Nat /\ ~(d <= j - i)
    BY <1>6, <1>7, Day
  <2>2. j - i \notin Wrong
    BY <1>4, <2>1
  <2>3. QED
    BY <1>7, <2>1, <2>2
<1> HIDE DEF Wrong
<1>8. CASE l = h
  <2>1. f[<<l, h>>] = l
    BY <1>1, <1>5, <1>6, <1>8
  <2>2. QED
    BY <1>5, <1>6, <1>8, <2>1 DEF First
<1>9. CASE l < h
  <2>0. ~(l >= h)
    BY <1>6, <1>9
  <2>1. /\ Middle(l, h) \in 0 .. SecondsPerDay /\ Middle(l, h) + 1 \in 0 .. SecondsPerDay
        /\ l <= Middle(l, h) /\ Middle(l, h) + 1 <= h
        /\ Middle(l, h) - l < d /\ h - (Middle(l, h) + 1) < d
    BY <1>5, <1>6, <1>9, MiddleIsBetween, Day
  <2>2. Found(l, Middle(l, h)) /\ Found(Middle(l, h) + 1, h)
    BY <1>7, <2>1
  <2>3. CASE Reaches(time, Middle(l, h))
    <3>1. f[<<l, h>>] = f[<<l, Middle(l, h)>>]
      BY <1>1, <1>5, <2>0, <2>3, Zenon
    <3>2. First(f[<<l, Middle(l, h)>>], l, h, time)
      BY <1>6, <1>9, <2>2, <2>3, FirstInHalf
    <3>3. QED
      BY <1>5, <3>1, <3>2
  <2>4. CASE ~Reaches(time, Middle(l, h))
    <3>1. f[<<l, h>>] = f[<<Middle(l, h) + 1, h>>]
      BY <1>1, <1>5, <2>0, <2>4, Zenon
    <3>2. First(f[<<Middle(l, h) + 1, h>>], l, h, time)
      BY <1>6, <1>9, <2>2, <2>4, FirstInHalf
    <3>3. QED
      BY <1>5, <3>1, <3>2
  <2>5. QED
    BY <2>3, <2>4
<1>10. QED
  BY <1>5, <1>6, <1>8, <1>9

Ceiling(time) == Schedule!effective_boundary_second(time)

\* A boundary is the first second of the day at or after its time, or the end of the day.
LEMMA CeilingIsFirst ==
    ASSUME NEW time \in 0 .. Grain - 1
    PROVE  /\ Ceiling(time) \in 0 .. SecondsPerDay /\ Reaches(time, Ceiling(time))
           /\ \A s \in 0 .. SecondsPerDay : Reaches(time, s) => Ceiling(time) <= s
<1>1. time \in Nat /\ 0 \in 0 .. SecondsPerDay /\ SecondsPerDay \in 0 .. SecondsPerDay
      /\ 0 <= SecondsPerDay
  BY Day
<1>2. PICK f : f = (CHOOSE g : IsSearch(g, time)) /\ IsSearch(f, time)
  BY <1>1, SearchIsThere, Zenon
<1>3. First(f[<<0, SecondsPerDay>>], 0, SecondsPerDay, time)
  BY <1>1, <1>2, SearchFinds
<1>4. Ceiling(time) = f[<<0, SecondsPerDay>>]
  BY <1>2, BoundaryIs, Zenon DEF Ceiling
<1>5. First(Ceiling(time), 0, SecondsPerDay, time)
  BY <1>3, <1>4, Zenon
<1>6. Reaches(time, SecondsPerDay)
  <2>1. \A t, g, n \in Nat : t <= g => t * n <= n * g
    <3>1. SUFFICES ASSUME NEW t \in Nat, NEW g \in Nat, NEW n \in Nat, t <= g
                   PROVE  t * n <= n * g
      OBVIOUS
    <3>2. PICK r \in Nat : g = t + r
      <4>1. g - t \in Nat /\ g = t + (g - t)
        BY <3>1
      <4>2. QED
        BY <4>1
    <3>3. n * g = t * n + n * r /\ n * r \in Nat /\ t * n \in Nat
      BY <3>2
    <3>4. QED
      BY <3>3
  <2>2. time <= Grain
    BY <1>1, Day
  <2>3. QED
    BY <1>1, <2>1, <2>2, Day DEF Reaches
<1>7. Reaches(time, Ceiling(time))
  BY <1>5, <1>6 DEF First
<1>8. ASSUME NEW s \in 0 .. SecondsPerDay, Reaches(time, s)
      PROVE  Ceiling(time) <= s
  <2>1. Ceiling(time) \in Nat /\ s \in Nat
    BY <1>5, Day DEF First
  <2>2. ~(s < Ceiling(time))
    BY <1>5, <1>8 DEF First
  <2>3. QED
    BY <2>1, <2>2
<1>9. QED
  BY <1>5, <1>7, <1>8 DEF First

\* A later time has no earlier boundary.
LEMMA CeilingGrows ==
    ASSUME NEW t \in 0 .. Grain - 1, NEW u \in 0 .. Grain - 1, t <= u
    PROVE  Ceiling(t) <= Ceiling(u)
<1>1. Ceiling(u) \in 0 .. SecondsPerDay /\ Reaches(u, Ceiling(u))
  BY CeilingIsFirst
<1>2. Reaches(t, Ceiling(u))
  <2>1. \A n \in Nat : t * n <= u * n
    OBVIOUS
  <2>2. t * SecondsPerDay <= u * SecondsPerDay
    BY <2>1, Day
  <2>3. /\ t * SecondsPerDay \in Int /\ u * SecondsPerDay \in Int
        /\ Ceiling(u) * Grain \in Int
    BY <1>1, Day
  <2>4. QED
    BY <1>1, <2>2, <2>3 DEF Reaches
<1>3. QED
  BY <1>1, <1>2, CeilingIsFirst

-----------------------------------------------------------------------------
(* The clock goes around                                                    *)

LEMMA Around ==
    ASSUME NEW a \in Int
    PROVE  /\ 0 <= a /\ a < SecondsPerDay => a % SecondsPerDay = a
           /\ a < 0 /\ a + SecondsPerDay > 0 => a % SecondsPerDay = a + SecondsPerDay
           /\ a + SecondsPerDay = 0 => a % SecondsPerDay = 0
           /\ a = SecondsPerDay => a % SecondsPerDay = 0
           /\ SecondsPerDay <= a /\ a < 2 * SecondsPerDay => a % SecondsPerDay = a - SecondsPerDay
BY Day

-----------------------------------------------------------------------------
(* Points in order                                                          *)

Moment == [image : Nat, time : 0 .. Grain - 1, boundary : 0 .. SecondsPerDay]

\* n points in metadata order, as a file has them.
Points(p, n) ==
    /\ n \in Nat /\ n > 0
    /\ p \in [1 .. n -> Moment]
    /\ \A i \in 1 .. n : p[i].image = i /\ p[i].boundary = Ceiling(p[i].time)

\* n points in the order of their times, those at one time in metadata order.
Ordered(q, n) ==
    /\ n \in Nat /\ n > 0
    /\ q \in [1 .. n -> Moment]
    /\ \A k, l \in 1 .. n : k < l =>
          /\ q[k].time < q[l].time \/ (q[k].time = q[l].time /\ q[k].image < q[l].image)
          /\ q[k].boundary <= q[l].boundary
          /\ q[k].time = q[l].time => q[k].boundary = q[l].boundary

\* The points up to i in that order.
Upto(p, i) ==
    {j \in DOMAIN p : \/ p[j].time < p[i].time
                      \/ p[j].time = p[i].time /\ j <= i}

LEMMA UptoIs ==
    ASSUME NEW p, NEW i, NEW j, j \in Upto(p, i)
    PROVE  p[j].time < p[i].time \/ (p[j].time = p[i].time /\ j <= i)
BY Zenon DEF Upto

Rank(p, i) == Schedule!Cardinality(Upto(p, i))

LEMMA SameCardinality ==
    ASSUME NEW S
    PROVE  Schedule!Cardinality(S) = Cardinality(S)
BY Zenon DEF Schedule!Cardinality, Cardinality

LEMMA Interval ==
    ASSUME NEW n \in Nat
    PROVE  IsFiniteSet(1 .. n) /\ Cardinality(1 .. n) = n
<1>1. IsFiniteSet(1 .. n) /\ Cardinality(1 .. n) = IF 1 > n THEN 0 ELSE n - 1 + 1
  BY FS_Interval
<1>2. QED
  BY <1>1

LEMMA SortedIs ==
    ASSUME NEW p
    PROVE  Schedule!sorted_time_points(p)
             = [k \in DOMAIN p |-> p[CHOOSE i \in DOMAIN p : Rank(p, i) = k]]
BY Zenon DEF Schedule!sorted_time_points, Rank, Upto

LEMMA RankIsPlace ==
    ASSUME NEW p, NEW n, Points(p, n), NEW i \in 1 .. n
    PROVE  IsFiniteSet(Upto(p, i)) /\ Rank(p, i) \in 1 .. n
<1>1. n \in Nat /\ DOMAIN p = 1 .. n /\ p[i].time \in Int /\ i \in Nat
  BY DEF Points, Moment
<1>2. IsFiniteSet(1 .. n) /\ Cardinality(1 .. n) = n
  BY <1>1, Interval
<1>3. Upto(p, i) \in SUBSET (1 .. n) /\ i \in Upto(p, i)
  BY <1>1 DEF Upto
<1>4. IsFiniteSet(Upto(p, i)) /\ Rank(p, i) <= n
  BY <1>2, <1>3, FS_Subset, SameCardinality DEF Rank
<1>5. Rank(p, i) \in Nat /\ Rank(p, i) # 0
  BY <1>3, <1>4, FS_CardinalityType, FS_EmptySet, SameCardinality DEF Rank
<1>6. QED
  BY <1>1, <1>4, <1>5

\* A point before another has a smaller place.
LEMMA RankGrows ==
    ASSUME NEW p, NEW n, Points(p, n), NEW i \in 1 .. n, NEW j \in 1 .. n,
           j \in Upto(p, i), i # j
    PROVE  Rank(p, j) < Rank(p, i)
<1>1. n \in Nat /\ DOMAIN p = 1 .. n /\ i \in Nat /\ j \in Nat
      /\ \A k \in 1 .. n : p[k].time \in Int
  BY DEF Points, Moment
<1>2. Upto(p, j) \in SUBSET Upto(p, i)
  <2>1. ASSUME NEW k \in Upto(p, j)
        PROVE  k \in Upto(p, i)
    <3>1. k \in 1 .. n /\ k \in Nat
      BY <1>1 DEF Upto
    <3>2. QED
      BY <1>1, <3>1 DEF Upto
  <2>2. QED
    BY <2>1
<1>3. i \in Upto(p, i) /\ i \notin Upto(p, j)
  BY <1>1 DEF Upto
<1>4. IsFiniteSet(Upto(p, i)) /\ Rank(p, i) \in Nat /\ Rank(p, j) \in Nat
  BY RankIsPlace
<1>5. Rank(p, j) <= Rank(p, i) /\ (Rank(p, i) = Rank(p, j) => Upto(p, i) = Upto(p, j))
  BY <1>2, <1>4, FS_Subset, SameCardinality DEF Rank
<1>6. QED
  BY <1>3, <1>4, <1>5

LEMMA RankOrders ==
    ASSUME NEW p, NEW n, Points(p, n), NEW i \in 1 .. n, NEW j \in 1 .. n, i # j
    PROVE  \/ j \in Upto(p, i) /\ Rank(p, j) < Rank(p, i)
           \/ i \in Upto(p, j) /\ Rank(p, i) < Rank(p, j)
<1>1. n \in Nat /\ DOMAIN p = 1 .. n /\ i \in Nat /\ j \in Nat
      /\ p[i].time \in Int /\ p[j].time \in Int
  BY DEF Points, Moment
<1>2. j \in Upto(p, i) \/ i \in Upto(p, j)
  BY <1>1 DEF Upto
<1>3. QED
  BY <1>2, RankGrows

\* Every place is somebody's.
LEMMA PlaceIsTaken ==
    ASSUME NEW p, NEW n, Points(p, n), NEW k \in 1 .. n
    PROVE  \E i \in 1 .. n : Rank(p, i) = k
<1> DEFINE f == [i \in 1 .. n |-> Rank(p, i)]
           T == (1 .. n) \ {k}
<1>1. SUFFICES ASSUME \A i \in 1 .. n : Rank(p, i) # k
               PROVE  FALSE
  OBVIOUS
<1>2. n \in Nat /\ n > 0
  BY DEF Points
<1>3. IsFiniteSet(1 .. n) /\ Cardinality(1 .. n) = n
  BY <1>2, Interval
<1>4. IsFiniteSet(T) /\ Cardinality(T) < Cardinality(1 .. n)
  <2>1. IsFiniteSet(T) /\ Cardinality(T) = Cardinality(1 .. n) - 1
    <3>1. k \in 1 .. n
      OBVIOUS
    <3>2. QED
      BY <1>3, <3>1, FS_RemoveElement
  <2>2. QED
    BY <1>2, <1>3, <2>1
<1>5. f \in [1 .. n -> T]
  BY <1>1, RankIsPlace
<1>6. \E i, j \in 1 .. n : i # j /\ f[i] = f[j]
  <2> HIDE DEF f, T
  <2>1. QED
    BY <1>3, <1>4, <1>5, FS_PigeonHole
<1>7. PICK i \in 1 .. n, j \in 1 .. n : i # j /\ Rank(p, i) = Rank(p, j) /\ Rank(p, i) \in Nat
  BY <1>2, <1>6, RankIsPlace
<1>8. QED
  BY <1>7, RankOrders

\* Sorting keeps the points and puts them in order.
LEMMA Sorting ==
    ASSUME NEW p, NEW n, Points(p, n)
    PROVE  /\ Ordered(Schedule!sorted_time_points(p), n)
           /\ DOMAIN p = 1 .. n /\ Len(Schedule!sorted_time_points(p)) = n
           /\ \A i \in 1 .. n : \E k \in 1 .. n : Schedule!sorted_time_points(p)[k] = p[i]
           /\ \A k \in 1 .. n : \E i \in 1 .. n : Schedule!sorted_time_points(p)[k] = p[i]
<1> DEFINE at == [k \in 1 .. n |-> CHOOSE i \in DOMAIN p : Rank(p, i) = k]
           q == [k \in DOMAIN p |-> p[CHOOSE i \in DOMAIN p : Rank(p, i) = k]]
<1>1. n \in Nat /\ n > 0 /\ DOMAIN p = 1 .. n /\ p \in [1 .. n -> Moment]
  BY DEF Points
<1>2. Schedule!sorted_time_points(p) = q
  BY SortedIs, Zenon
<1>3. ASSUME NEW k \in 1 .. n
      PROVE  at[k] \in 1 .. n /\ Rank(p, at[k]) = k
  <2>1. \E i \in 1 .. n : Rank(p, i) = k
    BY PlaceIsTaken
  <2>2. QED
    BY <1>1, <2>1
<1>4. ASSUME NEW i \in 1 .. n
      PROVE  Rank(p, i) \in 1 .. n /\ at[Rank(p, i)] = i
  <2>1. Rank(p, i) \in 1 .. n /\ Rank(p, i) \in Nat
    BY RankIsPlace
  <2>2. at[Rank(p, i)] \in 1 .. n /\ Rank(p, at[Rank(p, i)]) = Rank(p, i)
    BY <1>3, <2>1
  <2> HIDE DEF at
  <2>3. QED
    BY <2>1, <2>2, RankOrders
<1>5. q \in [1 .. n -> Moment] /\ Len(q) = n
  <2>1. q \in [1 .. n -> Moment]
    BY <1>1, <1>3
  <2>2. q \in Seq(Moment)
    BY <1>1, <2>1
  <2>3. DOMAIN q = 1 .. n
    BY <2>1
  <2> HIDE DEF q
  <2>4. QED
    BY <1>1, <2>2, <2>3, LenProperties
<1>6. \A k \in 1 .. n : q[k] = p[at[k]]
  BY <1>1
<1> HIDE DEF at, q
<1>7. ASSUME NEW k \in 1 .. n, NEW l \in 1 .. n, k < l
      PROVE  /\ q[k].time < q[l].time \/ (q[k].time = q[l].time /\ q[k].image < q[l].image)
             /\ q[k].boundary <= q[l].boundary
             /\ q[k].time = q[l].time => q[k].boundary = q[l].boundary
  <2>1. at[k] \in 1 .. n /\ Rank(p, at[k]) = k /\ at[l] \in 1 .. n /\ Rank(p, at[l]) = l
    BY <1>3
  <2>2. k \in Nat /\ l \in Nat /\ at[k] # at[l]
    BY <1>7, <2>1
  <2>3. at[k] \in Upto(p, at[l])
    BY <1>7, <2>1, <2>2, RankOrders
  <2>4. /\ \A i \in 1 .. n : p[i].image = i /\ p[i].boundary = Ceiling(p[i].time)
        /\ \A i \in 1 .. n : p[i].time \in 0 .. Grain - 1
    BY DEF Points, Moment
  <2>5. at[k] \in Nat /\ at[l] \in Nat /\ q[k].time \in 0 .. Grain - 1 /\ q[l].time \in 0 .. Grain - 1
    BY <1>6, <2>1, <2>4
  <2>6. /\ q[k].image = at[k] /\ q[l].image = at[l]
        /\ q[k].boundary = Ceiling(q[k].time) /\ q[l].boundary = Ceiling(q[l].time)
    BY <1>6, <2>1, <2>4
  <2>7. q[k].time < q[l].time \/ (q[k].time = q[l].time /\ at[k] <= at[l])
    <3>1. p[at[k]].time < p[at[l]].time \/ (p[at[k]].time = p[at[l]].time /\ at[k] <= at[l])
      BY <2>3, UptoIs, Zenon
    <3>2. q[k] = p[at[k]] /\ q[l] = p[at[l]]
      BY <1>6
    <3>3. QED
      BY <3>1, <3>2, Zenon
  <2>8. q[k].time <= q[l].time
    BY <2>5, <2>7, Day
  <2>9. QED
    BY <2>2, <2>5, <2>6, <2>7, <2>8, CeilingGrows
<1>8. Ordered(q, n)
  BY <1>1, <1>5, <1>7 DEF Ordered
<1>9. \A i \in 1 .. n : \E k \in 1 .. n : q[k] = p[i]
  BY <1>4, <1>6
<1>10. \A k \in 1 .. n : \E i \in 1 .. n : q[k] = p[i]
  BY <1>3, <1>6
<1>11. QED
  BY <1>1, <1>2, <1>5, <1>8, <1>9, <1>10

-----------------------------------------------------------------------------
(* The point in effect, its dissolve and the next wake                      *)

\* The place of the last point reached, or the last of all.
Current(q, n, now, m) ==
    /\ m \in 1 .. n
    /\ \/ q[m].boundary <= now /\ \A k \in 1 .. n : k > m => q[k].boundary > now
       \/ m = n /\ \A k \in 1 .. n : q[k].boundary > now

LEMMA SelectedIs ==
    ASSUME NEW q, NEW n, Ordered(q, n), Len(q) = n, NEW now \in 0 .. SecondsPerDay - 1, NEW m,
           Current(q, n, now, m)
    PROVE  Schedule!selected_point(q, now) = q[m]
<1> DEFINE reached == {k \in 1 .. n : q[k].boundary <= now}
<1>1. n \in Nat /\ n > 0 /\ DOMAIN q = 1 .. n /\ now \in Nat /\ m \in 1 .. n
      /\ \A k \in 1 .. n : q[k].boundary \in Int
  BY Day DEF Ordered, Moment, Current
<1>2. Schedule!selected_point(q, now)
        = IF reached = {} THEN q[n] ELSE q[CHOOSE x \in reached : \A y \in reached : x >= y]
  <2>1. Schedule!selected_point(q, now)
          = IF {k \in DOMAIN q : q[k].boundary <= now} = {} THEN q[Len(q)]
            ELSE q[Schedule!Max({k \in DOMAIN q : q[k].boundary <= now})]
    BY Zenon DEF Schedule!selected_point, Schedule!Boundary
  <2>2. {k \in DOMAIN q : q[k].boundary <= now} = reached
    BY <1>1
  <2>3. Schedule!Max(reached) = CHOOSE x \in reached : \A y \in reached : x >= y
    BY Zenon DEF Schedule!Max
  <2> HIDE DEF reached
  <2>4. QED
    BY <2>1, <2>2, <2>3
<1>3. CASE q[m].boundary <= now /\ \A k \in 1 .. n : k > m => q[k].boundary > now
  <2>1. m \in reached /\ \A k \in reached : m >= k
    BY <1>1, <1>3
  <2>2. \A x \in reached : (\A y \in reached : x >= y) => x = m
    BY <1>1, <2>1
  <2> HIDE DEF reached
  <2>3. (CHOOSE x \in reached : \A y \in reached : x >= y) = m
    BY <2>1, <2>2
  <2>4. QED
    BY <1>2, <2>1, <2>3
<1>4. CASE m = n /\ \A k \in 1 .. n : q[k].boundary > now
  <2>1. reached = {}
    BY <1>1, <1>4
  <2> HIDE DEF reached
  <2>2. QED
    BY <1>2, <1>4, <2>1
<1>5. QED
  BY <1>3, <1>4 DEF Current

LEMMA CurrentIsThere ==
    ASSUME NEW q, NEW n, Ordered(q, n), NEW now \in 0 .. SecondsPerDay - 1
    PROVE  \E m : Current(q, n, now, m)
<1> DEFINE reached == {k \in 1 .. n : q[k].boundary <= now}
<1>1. n \in Nat /\ n > 0 /\ now \in Nat /\ \A k \in 1 .. n : q[k].boundary \in Int
  BY Day DEF Ordered, Moment
<1>2. CASE reached = {}
  <2>1. \A k \in 1 .. n : q[k].boundary > now
    BY <1>1, <1>2
  <2>2. Current(q, n, now, n)
    BY <1>1, <2>1 DEF Current
  <2>3. QED
    BY <2>2
<1>3. CASE reached # {}
  <2>1. Largest(reached) \in reached /\ \A y \in reached : Largest(reached) >= y
    <3>1. reached \in SUBSET (1 .. n)
      OBVIOUS
    <3> HIDE DEF reached
    <3>2. QED
      BY <1>1, <1>3, <3>1, LargestIsThere
  <2>2. PICK m \in reached : \A y \in reached : m >= y
    BY <2>1
  <2>3. \A k \in 1 .. n : k > m => q[k].boundary > now
    <3>1. SUFFICES ASSUME NEW k \in 1 .. n, k > m
                   PROVE  q[k].boundary > now
      OBVIOUS
    <3>2. ~(m >= k) /\ m \in Nat /\ k \in Nat
      BY <1>1, <2>2, <3>1
    <3>3. k \notin reached
      BY <2>2, <3>2
    <3>4. QED
      BY <1>1, <3>3
  <2>4. Current(q, n, now, m)
    BY <2>2, <2>3 DEF Current
  <2>5. QED
    BY <2>4
<1>4. QED
  BY <1>2, <1>3

\* How long ago a boundary was, on the clock.
Ago(b, now) == (now - b) % SecondsPerDay

LEMMA AgoIs ==
    ASSUME NEW b \in 0 .. SecondsPerDay, NEW now \in 0 .. SecondsPerDay - 1
    PROVE  /\ b <= now => Ago(b, now) = now - b
           /\ b > now /\ b - now < SecondsPerDay => Ago(b, now) = SecondsPerDay - b + now
           /\ b - now = SecondsPerDay => Ago(b, now) = 0
           /\ b % SecondsPerDay = IF b = SecondsPerDay THEN 0 ELSE b
<1>1. b \in Int /\ now \in Int /\ 0 <= b /\ b <= SecondsPerDay /\ 0 <= now /\ now < SecondsPerDay
      /\ now - b \in Int
  BY Day
<1>2. /\ b <= now => Ago(b, now) = now - b
      /\ b > now /\ b - now < SecondsPerDay => Ago(b, now) = now - b + SecondsPerDay
      /\ b - now = SecondsPerDay => Ago(b, now) = 0
  BY <1>1, Around, Day DEF Ago
<1>3. b % SecondsPerDay = IF b = SecondsPerDay THEN 0 ELSE b
  BY <1>1, Around, Day
<1>4. QED
  BY <1>1, <1>2, <1>3, Day

\* Two points of which the first is the one in effect.
LEMMA MostRecent ==
    ASSUME NEW q, NEW n, Ordered(q, n), NEW now \in 0 .. SecondsPerDay - 1, NEW m,
           Current(q, n, now, m), NEW k \in 1 .. n, k # m
    PROVE  \/ Schedule!Since(q[k], now) > Schedule!Since(q[m], now)
           \/ Schedule!Since(q[k], now) = Schedule!Since(q[m], now) /\ Schedule!Later(q[m], q[k])
<1> DEFINE B == q[m].boundary
           C == q[k].boundary
<1>1. /\ n \in Nat /\ m \in 1 .. n /\ now \in 0 .. SecondsPerDay - 1 /\ now \in Nat
      /\ q[m] \in Moment /\ q[k] \in Moment /\ k \in Nat /\ m \in Nat
  BY Day DEF Ordered, Current
<1>2. /\ B \in 0 .. SecondsPerDay /\ C \in 0 .. SecondsPerDay /\ B \in Nat /\ C \in Nat
      /\ q[m].time \in Int /\ q[k].time \in Int /\ q[m].image \in Int /\ q[k].image \in Int
  BY <1>1, Day DEF Moment
<1>3. Schedule!Since(q[k], now) = Ago(C, now) /\ Schedule!Since(q[m], now) = Ago(B, now)
  BY Zenon DEF Schedule!Since, Schedule!Boundary, Ago
<1>4. Schedule!Later(q[m], q[k]) <=>
         \/ B % SecondsPerDay = 0 /\ C % SecondsPerDay = 0 /\ B < C
         \/ B = C /\ q[m].time > q[k].time
         \/ q[m].time = q[k].time /\ q[m].image > q[k].image
  BY Zenon DEF Schedule!Later, Schedule!Boundary
<1>5. /\ m < k => /\ B <= C
                  /\ q[m].time < q[k].time \/ (q[m].time = q[k].time /\ B = C)
      /\ k < m => /\ C <= B
                  /\ \/ q[k].time < q[m].time
                     \/ q[k].time = q[m].time /\ q[k].image < q[m].image /\ B = C
  <2>1. \A i, j \in 1 .. n : i < j =>
          /\ q[i].time < q[j].time \/ (q[i].time = q[j].time /\ q[i].image < q[j].image)
          /\ q[i].boundary <= q[j].boundary
          /\ q[i].time = q[j].time => q[i].boundary = q[j].boundary
    BY Zenon DEF Ordered
  <2>2. m < k => /\ q[m].time < q[k].time \/ q[m].time = q[k].time
                 /\ B <= C /\ (q[m].time = q[k].time => B = C)
    BY <1>1, <2>1, Zenon
  <2>3. k < m => /\ q[k].time < q[m].time \/ (q[k].time = q[m].time /\ q[k].image < q[m].image)
                 /\ C <= B /\ (q[k].time = q[m].time => B = C)
    BY <1>1, <2>1, Zenon
  <2>4. QED
    BY <2>2, <2>3
<1>6. \/ B <= now /\ (k > m => C > now)
      \/ B > now /\ C > now /\ m = n
  <2>1. CASE B <= now /\ \A i \in 1 .. n : i > m => q[i].boundary > now
    <3>1. k > m => C > now
      BY <2>1
    <3>2. QED
      BY <2>1, <3>1, Zenon
  <2>2. CASE m = n /\ \A i \in 1 .. n : q[i].boundary > now
    BY <1>1, <2>2, Zenon
  <2>3. QED
    BY <2>1, <2>2, Zenon DEF Current
<1> HIDE DEF B, C
<1>7. /\ C <= now => Ago(C, now) = now - C
      /\ C > now /\ C - now < SecondsPerDay => Ago(C, now) = SecondsPerDay - C + now
      /\ C - now = SecondsPerDay => Ago(C, now) = 0
      /\ C % SecondsPerDay = IF C = SecondsPerDay THEN 0 ELSE C
  BY <1>1, <1>2, AgoIs
<1>8. /\ B <= now => Ago(B, now) = now - B
      /\ B > now /\ B - now < SecondsPerDay => Ago(B, now) = SecondsPerDay - B + now
      /\ B - now = SecondsPerDay => Ago(B, now) = 0
      /\ B % SecondsPerDay = IF B = SecondsPerDay THEN 0 ELSE B
  BY <1>1, <1>2, AgoIs
<1>9. /\ 0 <= B /\ B <= SecondsPerDay /\ 0 <= C /\ C <= SecondsPerDay
      /\ 0 <= now /\ now < SecondsPerDay /\ (k < m \/ m < k) /\ k <= n
  BY <1>1, <1>2, Day
<1>10. CASE B <= now /\ k < m
  BY <1>1, <1>2, <1>3, <1>4, <1>5, <1>7, <1>8, <1>9, <1>10, Day
<1>11. CASE B <= now /\ m < k
  BY <1>1, <1>2, <1>3, <1>4, <1>5, <1>6, <1>7, <1>8, <1>9, <1>11, Day
<1>12. CASE B > now
  BY <1>1, <1>2, <1>3, <1>4, <1>5, <1>6, <1>7, <1>8, <1>9, <1>12, Day
<1>13. QED
  BY <1>2, <1>9, <1>10, <1>11, <1>12

\* The four facts about a schedule, p, and a second of the day.
LEMMA BoundaryHolds ==
    ASSUME NEW p, NEW n, Points(p, n)
    PROVE  Schedule!BoundaryIsCeiling(p)
<1> SUFFICES ASSUME NEW i \in DOMAIN p
             PROVE  p[i].boundary =
                      Schedule!Min({s \in 0 .. SecondsPerDay : p[i].time * SecondsPerDay <= s * Grain})
  BY Zenon DEF Schedule!BoundaryIsCeiling, Schedule!Boundary
<1> DEFINE S == {s \in 0 .. SecondsPerDay : p[i].time * SecondsPerDay <= s * Grain}
           c == Ceiling(p[i].time)
<1>1. p[i].boundary = c /\ p[i].time \in 0 .. Grain - 1
  BY DEF Points, Moment
<1>2. c \in S /\ \A s \in S : c <= s
  <2>1. /\ c \in 0 .. SecondsPerDay /\ Reaches(p[i].time, c)
        /\ \A s \in 0 .. SecondsPerDay : Reaches(p[i].time, s) => c <= s
    BY <1>1, CeilingIsFirst
  <2> HIDE DEF c
  <2>2. QED
    BY <2>1 DEF Reaches
<1>3. \A x \in S : (\A y \in S : x <= y) => x = c
  <2>1. S \in SUBSET Nat
    BY Day
  <2> HIDE DEF c, S
  <2>2. QED
    BY <1>2, <2>1
<1>4. Schedule!Min(S) = CHOOSE x \in S : \A y \in S : x <= y
  BY Zenon DEF Schedule!Min
<1> HIDE DEF c, S
<1>5. Schedule!Min(S) = c
  BY <1>2, <1>3, <1>4
<1>6. QED
  BY <1>1, <1>5 DEF S

LEMMA SelectedHolds ==
    ASSUME NEW p, NEW n, Points(p, n), NEW now \in 0 .. SecondsPerDay - 1
    PROVE  Schedule!SelectedIsMostRecent(p, now)
<1> DEFINE q == Schedule!sorted_time_points(p)
<1>1. /\ Ordered(q, n) /\ DOMAIN p = 1 .. n /\ Len(q) = n
      /\ \A i \in 1 .. n : \E k \in 1 .. n : q[k] = p[i]
  BY Sorting, Zenon
<1>2. PICK m : Current(q, n, now, m)
  BY <1>1, CurrentIsThere
<1> DEFINE s == Schedule!selected_point(q, now)
<1> HIDE DEF q
<1>3. s = q[m]
  BY <1>1, <1>2, SelectedIs
<1> HIDE DEF s
<1>4. ASSUME NEW i \in DOMAIN p, p[i] # s
      PROVE  \/ Schedule!Since(p[i], now) > Schedule!Since(s, now)
             \/ Schedule!Since(p[i], now) = Schedule!Since(s, now) /\ Schedule!Later(s, p[i])
  <2>1. PICK k \in 1 .. n : q[k] = p[i]
    BY <1>1
  <2>2. k # m
    BY <1>3, <1>4, <2>1
  <2>3. \/ Schedule!Since(q[k], now) > Schedule!Since(q[m], now)
        \/ Schedule!Since(q[k], now) = Schedule!Since(q[m], now) /\ Schedule!Later(q[m], q[k])
    BY <1>1, <1>2, <2>2, MostRecent, Zenon
  <2>4. QED
    BY <1>3, <2>1, <2>3, Zenon
<1>5. QED
  BY <1>4, Zenon DEF Schedule!SelectedIsMostRecent, s, q

LEMMA DissolveHolds ==
    ASSUME NEW p, NEW n, Points(p, n), NEW now \in 0 .. SecondsPerDay - 1
    PROVE  Schedule!DissolveStartsAtBoundary(p, now)
<1> DEFINE q == Schedule!sorted_time_points(p)
           b == Schedule!selected_point(q, now).boundary
<1>1. Ordered(q, n) /\ Len(q) = n
  BY Sorting
<1>2. b \in 0 .. SecondsPerDay
  <2>1. PICK m : Current(q, n, now, m)
    BY <1>1, CurrentIsThere
  <2> HIDE DEF q
  <2>2. Schedule!selected_point(q, now) = q[m] /\ m \in 1 .. n
    BY <1>1, <2>1, SelectedIs DEF Current
  <2>3. q[m] \in Moment
    BY <1>1, <2>2 DEF Ordered
  <2>4. QED
    BY <2>2, <2>3 DEF Moment
<1>3. Schedule!boundary_start(q, now) =
        IF b <= now THEN now - b ELSE IF b = SecondsPerDay THEN now ELSE SecondsPerDay - b + now
  BY Zenon DEF Schedule!boundary_start, Schedule!Boundary
<1>4. Schedule!Since(Schedule!selected_point(q, now), now) = Ago(b, now)
  BY Zenon DEF Schedule!Since, Schedule!Boundary, Ago
<1> HIDE DEF b
<1>5. now \in Int /\ b \in Int /\ 0 <= now /\ now < SecondsPerDay /\ 0 <= b /\ b <= SecondsPerDay
  BY <1>2, Day
<1>6. /\ b <= now => Ago(b, now) = now - b
      /\ b > now /\ b - now < SecondsPerDay => Ago(b, now) = SecondsPerDay - b + now
      /\ b - now = SecondsPerDay => Ago(b, now) = 0
  BY <1>2, AgoIs
<1>7. Ago(b, now) =
        IF b <= now THEN now - b ELSE IF b = SecondsPerDay THEN now ELSE SecondsPerDay - b + now
  BY <1>5, <1>6, Day
<1>8. Schedule!boundary_start(q, now) = Schedule!Since(Schedule!selected_point(q, now), now)
  BY <1>3, <1>4, <1>7, Zenon
<1>9. QED
  BY <1>8, Zenon DEF Schedule!DissolveStartsAtBoundary, q

\* How long until a boundary, tomorrow if it was reached.
Until(b, now) == IF b > now THEN b - now ELSE SecondsPerDay - now + b

LEMMA SleepIs ==
    ASSUME NEW q, NEW n, Ordered(q, n), NEW now \in 0 .. SecondsPerDay - 1
    PROVE  /\ Schedule!next_boundary(q, now) \in Nat
           /\ \A k \in 1 .. n : Schedule!next_boundary(q, now) <= Until(q[k].boundary, now)
           /\ \E k \in 1 .. n : Schedule!next_boundary(q, now) = Until(q[k].boundary, now)
<1> DEFINE S == {Until(q[k].boundary, now) : k \in 1 .. n}
<1>1. n \in Nat /\ n > 0 /\ DOMAIN q = 1 .. n /\ now \in Nat /\ now < SecondsPerDay
      /\ \A k \in 1 .. n : q[k].boundary \in Nat
  BY Day DEF Ordered, Moment
<1>2. S \in SUBSET Nat /\ S # {}
  <2>1. \A b \in Nat : Until(b, now) \in Nat
    BY <1>1, Day DEF Until
  <2>2. \A k \in 1 .. n : Until(q[k].boundary, now) \in Nat
    BY <1>1, <2>1
  <2>3. 1 \in 1 .. n
    BY <1>1
  <2>4. QED
    BY <2>2, <2>3
<1>3. Schedule!next_boundary(q, now) = Schedule!Min({Until(q[k].boundary, now) : k \in DOMAIN q})
  BY Zenon DEF Schedule!next_boundary, Schedule!Boundary, Until
<1>4. {Until(q[k].boundary, now) : k \in DOMAIN q} = S
  BY <1>1
<1>5. Schedule!Min(S) \in S /\ \A y \in S : Schedule!Min(S) <= y
  <2>1. \E x \in S : \A y \in S : x <= y
    BY <1>2, LeastNatural
  <2> HIDE DEF S
  <2>2. QED
    BY <2>1, Zenon DEF Schedule!Min
<1>6. Schedule!next_boundary(q, now) = Schedule!Min(S)
  BY <1>3, <1>4, Zenon
<1>7. QED
  BY <1>2, <1>5, <1>6

\* Before any boundary comes, the same point stays in effect.
LEMMA SameWhileAsleep ==
    ASSUME NEW q, NEW n, Ordered(q, n), NEW now \in 0 .. SecondsPerDay - 1, NEW m,
           Current(q, n, now, m), NEW k \in Nat,
           \A i \in 1 .. n : k < Until(q[i].boundary, now)
    PROVE  /\ (now + k) % SecondsPerDay \in 0 .. SecondsPerDay - 1
           /\ Current(q, n, (now + k) % SecondsPerDay, m)
<1>1. n \in Nat /\ n > 0 /\ m \in 1 .. n /\ now \in Nat /\ now < SecondsPerDay
      /\ \A i \in 1 .. n : q[i].boundary \in 0 .. SecondsPerDay /\ q[i].boundary \in Nat
  BY Day DEF Ordered, Moment, Current
<1>2. \A i \in 1 .. n : IF q[i].boundary > now THEN k < q[i].boundary - now
                        ELSE k < SecondsPerDay - now + q[i].boundary
  BY DEF Until
<1>3. CASE now + k < SecondsPerDay
  <2>1. (now + k) % SecondsPerDay = now + k /\ now + k \in 0 .. SecondsPerDay - 1
    BY <1>1, <1>3, Around, Day
  <2>2. \A i \in 1 .. n : q[i].boundary > now <=> q[i].boundary > now + k
    BY <1>1, <1>2
  <2>3. \A i \in 1 .. n : q[i].boundary <= now <=> q[i].boundary <= now + k
    BY <1>1, <2>2
  <2>4. Current(q, n, now + k, m)
    BY <1>1, <2>2, <2>3 DEF Current
  <2>5. QED
    BY <2>1, <2>4
<1>4. CASE ~(now + k < SecondsPerDay)
  <2>1. \A i \in 1 .. n : q[i].boundary <= now
    <3>1. SUFFICES ASSUME NEW i \in 1 .. n, q[i].boundary > now
                   PROVE  FALSE
      BY <1>1
    <3>2. k < q[i].boundary - now /\ q[i].boundary \in Nat /\ q[i].boundary <= SecondsPerDay
      BY <1>1, <1>2, <3>1, Day
    <3>3. QED
      BY <1>1, <1>4, <3>2, Day
  <2>2. m = n
    <3>1. ~\A i \in 1 .. n : q[i].boundary > now
      BY <1>1, <2>1
    <3>2. \A i \in 1 .. n : i > m => q[i].boundary > now
      BY <3>1, Zenon DEF Current
    <3>3. n > m => q[n].boundary > now
      BY <1>1, <3>2
    <3>4. ~(q[n].boundary > now)
      BY <1>1, <2>1
    <3>5. QED
      BY <1>1, <3>3, <3>4
  <2>3. /\ now + k < 2 * SecondsPerDay
        /\ \A i \in 1 .. n : q[i].boundary > now + k - SecondsPerDay
    <3>1. \A i \in 1 .. n : k < SecondsPerDay - now + q[i].boundary
      BY <1>1, <1>2, <2>1
    <3>2. \A i \in 1 .. n : q[i].boundary > now + k - SecondsPerDay
      BY <1>1, <3>1, Day
    <3>3. k < SecondsPerDay - now + q[n].boundary /\ q[n].boundary <= now /\ q[n].boundary \in Nat
      BY <1>1, <2>1, <3>1
    <3>4. QED
      BY <1>1, <3>2, <3>3, Day
  <2>4. /\ (now + k) % SecondsPerDay = now + k - SecondsPerDay
        /\ now + k - SecondsPerDay \in 0 .. SecondsPerDay - 1
    BY <1>1, <1>4, <2>3, Around, Day
  <2>5. Current(q, n, now + k - SecondsPerDay, m)
    BY <1>1, <2>2, <2>3 DEF Current
  <2>6. QED
    BY <2>4, <2>5
<1>5. QED
  BY <1>3, <1>4

LEMMA WakeHolds ==
    ASSUME NEW p, NEW n, Points(p, n), NEW now \in 0 .. SecondsPerDay - 1
    PROVE  Schedule!WakeIsNextBoundary(p, now)
<1> DEFINE q == Schedule!sorted_time_points(p)
           sleep == Schedule!next_boundary(q, now)
<1>1. /\ Ordered(q, n) /\ DOMAIN p = 1 .. n /\ Len(q) = n
      /\ \A k \in 1 .. n : \E i \in 1 .. n : q[k] = p[i]
  <2>1. Ordered(q, n) /\ DOMAIN p = 1 .. n /\ Len(q) = n
    BY Sorting
  <2>2. \A k \in 1 .. n : \E i \in 1 .. n : q[k] = p[i]
    BY Sorting
  <2>3. QED
    BY <2>1, <2>2
<1> HIDE DEF q
<1>2. /\ sleep \in Nat
      /\ \A k \in 1 .. n : sleep <= Until(q[k].boundary, now)
      /\ \E k \in 1 .. n : sleep = Until(q[k].boundary, now)
  BY <1>1, SleepIs
<1> HIDE DEF sleep
<1>3. n \in Nat /\ now \in Nat /\ now < SecondsPerDay
      /\ \A k \in 1 .. n : q[k].boundary \in Nat
  BY <1>1, Day DEF Ordered, Moment
<1>4. ASSUME NEW k \in 0 .. sleep - 1
      PROVE  Schedule!selected_point(q, (now + k) % SecondsPerDay) = Schedule!selected_point(q, now)
  <2>1. k \in Nat /\ \A i \in 1 .. n : k < Until(q[i].boundary, now)
    <3>1. \A b \in Nat : Until(b, now) \in Int
      BY <1>3, Day DEF Until
    <3>2. \A i \in 1 .. n : Until(q[i].boundary, now) \in Int
      BY <1>3, <3>1
    <3>3. QED
      BY <1>2, <3>2
  <2>2. PICK m : Current(q, n, now, m)
    BY <1>1, CurrentIsThere
  <2>3. /\ (now + k) % SecondsPerDay \in 0 .. SecondsPerDay - 1
        /\ Current(q, n, (now + k) % SecondsPerDay, m)
    BY <1>1, <2>1, <2>2, SameWhileAsleep
  <2>4. Schedule!selected_point(q, now) = q[m]
    BY <1>1, <2>2, SelectedIs
  <2>5. Schedule!selected_point(q, (now + k) % SecondsPerDay) = q[m]
    BY <1>1, <2>3, SelectedIs
  <2>6. QED
    BY <2>4, <2>5
<1>5. \E i \in DOMAIN p : (now + sleep - p[i].boundary) % SecondsPerDay = 0
  <2>1. PICK k \in 1 .. n : sleep = Until(q[k].boundary, now)
    BY <1>2
  <2>2. PICK i \in 1 .. n : q[k] = p[i]
    BY <1>1
  <2>3. PICK b \in Nat : b = p[i].boundary /\ sleep = Until(b, now)
    BY <1>3, <2>1, <2>2
  <2>4. now + sleep - b = 0 \/ now + sleep - b = SecondsPerDay
    BY <1>3, <2>3, Day DEF Until
  <2>5. (now + sleep - b) % SecondsPerDay = 0
    <3>1. 0 \in Int /\ SecondsPerDay \in Int /\ 0 < SecondsPerDay
      BY Day
    <3>2. 0 % SecondsPerDay = 0 /\ SecondsPerDay % SecondsPerDay = 0
      BY <3>1, Around
    <3>3. QED
      BY <2>4, <3>2
  <2>6. QED
    BY <1>1, <2>2, <2>3, <2>5
<1>6. QED
  BY <1>4, <1>5, Zenon DEF Schedule!WakeIsNextBoundary, Schedule!Boundary, q, sleep

-----------------------------------------------------------------------------
(* The nearest second                                                       *)

\* What the definition of the fold says of it.
IsNearest(f, d, s) ==
    f = [k \in 0 .. Len(s) |->
           IF k = 0 THEN -1
           ELSE IF f[k - 1] = -1 \/ d[s[k]] < d[f[k - 1]] THEN s[k] ELSE f[k - 1]]

LEMMA NearestIs ==
    ASSUME NEW d, NEW s
    PROVE  Schedule!nearest(d, s) = (CHOOSE f : IsNearest(f, d, s))[Len(s)]
BY Zenon DEF Schedule!nearest, Schedule!nearer, IsNearest

\* f folds the first m of the seconds s.
Folds(f, m, d, s) ==
    /\ f \in [0 .. m -> Schedule!Second \cup {-1}]
    /\ f[0] = -1
    /\ \A k \in 1 .. m : f[k] = IF f[k - 1] = -1 \/ d[s[k]] < d[f[k - 1]] THEN s[k] ELSE f[k - 1]

LEMMA FoldsMore ==
    ASSUME NEW d, NEW n \in Nat, NEW s \in [1 .. n -> Schedule!Second],
           NEW m \in Nat, m # 0, m <= n, NEW f, Folds(f, m - 1, d, s)
    PROVE  \E g : Folds(g, m, d, s)
<1> DEFINE x == IF f[m - 1] = -1 \/ d[s[m]] < d[f[m - 1]] THEN s[m] ELSE f[m - 1]
           g == [k \in 0 .. m |-> IF k = m THEN x ELSE f[k]]
<1>1. f \in [0 .. m - 1 -> Schedule!Second \cup {-1}] /\ f[0] = -1
      /\ \A k \in 1 .. m - 1 :
            f[k] = IF f[k - 1] = -1 \/ d[s[k]] < d[f[k - 1]] THEN s[k] ELSE f[k - 1]
  BY Zenon DEF Folds
<1>2. m \in 1 .. n /\ m - 1 \in 0 .. m - 1 /\ 0 # m /\ 0 \in 0 .. m
  OBVIOUS
<1>3. x \in Schedule!Second \cup {-1}
  BY <1>1, <1>2
<1>4. g \in [0 .. m -> Schedule!Second \cup {-1}]
  <2>1. ASSUME NEW k \in 0 .. m, k # m
        PROVE  f[k] \in Schedule!Second \cup {-1}
    <3>1. k \in 0 .. m - 1
      BY <2>1
    <3>2. QED
      BY <1>1, <3>1
  <2> HIDE DEF x
  <2>2. QED
    BY <1>3, <2>1
<1>5. g[0] = -1 /\ g[m] = x /\ \A k \in 0 .. m - 1 : g[k] = f[k]
  BY <1>1, <1>2
<1> HIDE DEF g
<1>6. ASSUME NEW k \in 1 .. m
      PROVE  g[k] = IF g[k - 1] = -1 \/ d[s[k]] < d[g[k - 1]] THEN s[k] ELSE g[k - 1]
  <2>1. k - 1 \in 0 .. m - 1 /\ g[k - 1] = f[k - 1]
    BY <1>5
  <2>2. CASE k = m
    BY <1>5, <2>1, <2>2
  <2>3. CASE k # m
    <3>1. k \in 1 .. m - 1 /\ k \in 0 .. m - 1
      BY <2>3
    <3>2. g[k] = f[k]
      BY <1>5, <3>1
    <3>3. QED
      BY <1>1, <2>1, <3>1, <3>2, Zenon
  <2>4. QED
    BY <2>2, <2>3
<1>7. Folds(g, m, d, s)
  BY <1>4, <1>5, <1>6, Zenon DEF Folds
<1>8. QED
  BY <1>7

LEMMA FoldsAll ==
    ASSUME NEW d, NEW n \in Nat, NEW s \in [1 .. n -> Schedule!Second]
    PROVE  \E f : Folds(f, n, d, s)
<1> DEFINE S == {m \in 0 .. n : ~\E f : Folds(f, m, d, s)}
<1>1. SUFFICES ASSUME S # {}
               PROVE  FALSE
  <2>1. n \in 0 .. n
    OBVIOUS
  <2>2. QED
    BY <2>1
<1>2. S \in SUBSET Nat
  OBVIOUS
<1>3. PICK m \in S : \A y \in S : m <= y
  BY <1>1, <1>2, LeastNatural
<1>4. m \in Nat /\ m <= n /\ ~\E f : Folds(f, m, d, s)
  BY <1>3
<1>5. m # 0
  <2>1. Folds([k \in 0 .. 0 |-> -1], 0, d, s)
    BY DEF Folds
  <2>2. QED
    BY <1>4, <2>1
<1>6. PICK f : Folds(f, m - 1, d, s)
  <2>1. m - 1 \in 0 .. n /\ ~(m <= m - 1)
    BY <1>4, <1>5
  <2>2. m - 1 \notin S
    BY <1>3, <2>1
  <2>3. QED
    BY <2>1, <2>2
<1>7. QED
  BY <1>4, <1>5, <1>6, FoldsMore

\* The fold yields one of the seconds, and none of them is at a smaller distance.
LEMMA NearestOf ==
    ASSUME NEW d \in [Schedule!Second -> Nat], NEW n \in Nat, n > 0,
           NEW s \in [1 .. n -> Schedule!Second], Len(s) = n
    PROVE  /\ \E k \in 1 .. n : Schedule!nearest(d, s) = s[k]
           /\ \A k \in 1 .. n : d[Schedule!nearest(d, s)] <= d[s[k]]
<1>1. \E f : IsNearest(f, d, s)
  <2>1. PICK f : Folds(f, n, d, s)
    BY FoldsAll
  <2>2. f = [k \in 0 .. n |-> f[k]]
    BY <2>1 DEF Folds
  <2>3. \A k \in 0 .. n : f[k] = IF k = 0 THEN -1
                                 ELSE IF f[k - 1] = -1 \/ d[s[k]] < d[f[k - 1]] THEN s[k]
                                 ELSE f[k - 1]
    <3>1. \A k \in 0 .. n : k = 0 \/ (k # 0 /\ k \in 1 .. n)
      OBVIOUS
    <3>2. QED
      BY <2>1, <3>1, Zenon DEF Folds
  <2>4. IsNearest(f, d, s)
    BY <2>2, <2>3 DEF IsNearest
  <2>5. QED
    BY <2>4
<1>2. PICK f : f = (CHOOSE g : IsNearest(g, d, s)) /\ IsNearest(f, d, s)
  BY <1>1, Zenon
<1>3. Schedule!nearest(d, s) = f[n]
  BY <1>2, NearestIs, Zenon
<1>4. f[0] = -1 /\ \A k \in 1 .. n : f[k] = IF f[k - 1] = -1 \/ d[s[k]] < d[f[k - 1]] THEN s[k]
                                            ELSE f[k - 1]
  <2>1. f = [k \in 0 .. n |-> IF k = 0 THEN -1
                              ELSE IF f[k - 1] = -1 \/ d[s[k]] < d[f[k - 1]] THEN s[k]
                              ELSE f[k - 1]]
    BY <1>2, Zenon DEF IsNearest
  <2>2. 0 \in 0 .. n /\ \A k \in 1 .. n : k \in 0 .. n /\ k # 0
    OBVIOUS
  <2>3. QED
    BY <2>1, <2>2
<1> DEFINE Right(k) == /\ \E i \in 1 .. k : f[k] = s[i]
                       /\ \A i \in 1 .. k : d[f[k]] <= d[s[i]]
           S == {k \in 1 .. n : ~Right(k)}
<1>5. -1 \notin Schedule!Second
  BY DEF Schedule!Second
<1>6. Right(1)
  <2>1. f[1] = s[1]
    <3>1. 1 \in 1 .. n /\ 1 - 1 = 0
      OBVIOUS
    <3>2. QED
      BY <1>4, <3>1
  <2>2. d[s[1]] \in Nat /\ \A i \in 1 .. 1 : i = 1
    OBVIOUS
  <2>3. QED
    BY <2>1, <2>2
<1>7. ASSUME NEW k \in Nat, k > 1, k <= n, Right(k - 1)
      PROVE  Right(k)
  <2>1. PICK j \in 1 .. k - 1 : f[k - 1] = s[j]
    BY <1>7
  <2>2. k \in 1 .. n /\ j \in 1 .. k /\ j \in 1 .. n
    BY <1>7
  <2>3. f[k - 1] # -1 /\ s[j] \in Schedule!Second /\ s[k] \in Schedule!Second
    BY <1>5, <2>1, <2>2
  <2>4. f[k] = IF d[s[k]] < d[s[j]] THEN s[k] ELSE s[j]
    BY <1>4, <2>1, <2>2, <2>3
  <2>5. d[s[k]] \in Nat /\ d[s[j]] \in Nat /\ \A i \in 1 .. k : s[i] \in Schedule!Second /\ d[s[i]] \in Nat
    BY <1>7, <2>3
  <2>6. \A i \in 1 .. k - 1 : d[s[j]] <= d[s[i]]
    BY <1>7, <2>1
  <2>7. \A i \in 1 .. k : i = k \/ i \in 1 .. k - 1
    BY <1>7
  <2>8. \A i \in 1 .. k : d[f[k]] <= d[s[i]]
    <3>1. CASE d[s[k]] < d[s[j]]
      BY <2>4, <2>5, <2>6, <2>7, <3>1
    <3>2. CASE ~(d[s[k]] < d[s[j]])
      BY <2>4, <2>5, <2>6, <2>7, <3>2
    <3>3. QED
      BY <3>1, <3>2
  <2>9. \E i \in 1 .. k : f[k] = s[i]
    <3>1. k \in 1 .. k
      BY <1>7
    <3>2. QED
      BY <2>2, <2>4, <3>1
  <2>10. QED
    BY <2>8, <2>9
<1>8. Right(n)
  <2>1. SUFFICES ASSUME S # {}
                 PROVE  FALSE
    <3>1. n \in 1 .. n
      OBVIOUS
    <3>2. QED
      BY <3>1
  <2>2. S \in SUBSET Nat
    OBVIOUS
  <2> HIDE DEF Right
  <2>3. PICK k \in S : \A y \in S : k <= y
    BY <2>1, <2>2, LeastNatural
  <2>4. k \in Nat /\ k > 1 /\ k <= n /\ ~Right(k)
    <3>1. k \in 1 .. n /\ ~Right(k)
      BY <2>3
    <3>2. QED
      BY <1>6, <3>1
  <2>5. Right(k - 1)
    <3>1. k - 1 \in 1 .. n /\ ~(k <= k - 1)
      BY <2>4
    <3>2. k - 1 \notin S
      BY <2>3, <3>1
    <3>3. QED
      BY <3>1, <3>2
  <2>6. QED
    BY <1>7, <2>4, <2>5
<1>9. QED
  BY <1>3, <1>8

\* An authored position: the second at which the sun is nearest, and how fast it comes
\* and goes.
Position ==
    [nearest : 0 .. SecondsPerDay - 1, before : Nat \ {0}, after : Nat \ {0}]

\* The distance to the position grows on both sides of the nearest second.
LEMMA DistanceGrows ==
    ASSUME NEW t \in Position
    PROVE  /\ Schedule!Distance(t) \in [Schedule!Second -> Nat]
           /\ Schedule!Distance(t)[t.nearest] = 0
           /\ \A r, s \in Schedule!Second :
                 r < s /\ (s <= t.nearest) => Schedule!Distance(t)[s] < Schedule!Distance(t)[r]
           /\ \A r, s \in Schedule!Second :
                 r < s /\ (t.nearest <= r) => Schedule!Distance(t)[r] < Schedule!Distance(t)[s]
<1> DEFINE c == t.nearest
           a == t.before
           b == t.after
           d == Schedule!Distance(t)
<1>1. a \in Nat /\ a > 0 /\ b \in Nat /\ b > 0 /\ c \in 0 .. SecondsPerDay - 1 /\ c \in Nat
  BY Day DEF Position
<1>2. d = [s \in 0 .. SecondsPerDay - 1 |-> IF s <= c THEN (c - s) * a ELSE (s - c) * b]
  BY Zenon DEF Schedule!Distance, Schedule!Second
<1>3. Schedule!Second = 0 .. SecondsPerDay - 1
  BY DEF Schedule!Second
<1>4. \A x, y \in Nat : x * y \in Nat
  OBVIOUS
<1>5. \A x, y, z \in Nat : x < y /\ z > 0 => x * z < y * z
  <2>1. SUFFICES ASSUME NEW x \in Nat, NEW y \in Nat, NEW z \in Nat, x < y, z > 0
                 PROVE  x * z < y * z
    OBVIOUS
  <2>2. PICK e \in Nat : y = x + e + 1
    <3>1. y - x - 1 \in Nat /\ y = x + (y - x - 1) + 1
      BY <2>1
    <3>2. QED
      BY <3>1
  <2>3. y * z = x * z + e * z + z /\ e * z \in Nat /\ x * z \in Nat
    BY <2>2
  <2>4. QED
    BY <2>1, <2>3
<1> HIDE DEF a, b, c, d
<1>6. ASSUME NEW s \in 0 .. SecondsPerDay - 1
      PROVE  /\ d[s] \in Nat
             /\ s <= c => d[s] = (c - s) * a /\ c - s \in Nat
             /\ c < s => d[s] = (s - c) * b /\ s - c \in Nat
  <2>1. s \in Nat
    BY Day
  <2>2. CASE s <= c
    <3>1. d[s] = (c - s) * a /\ c - s \in Nat
      BY <1>1, <1>2, <2>1, <2>2
    <3>2. QED
      BY <1>1, <1>4, <2>1, <2>2, <3>1
  <2>3. CASE c < s
    <3>1. d[s] = (s - c) * b /\ s - c \in Nat
      BY <1>1, <1>2, <2>1, <2>3
    <3>2. QED
      BY <1>1, <1>4, <2>1, <2>3, <3>1
  <2>4. QED
    BY <1>1, <2>1, <2>2, <2>3
<1>7. d \in [0 .. SecondsPerDay - 1 -> Nat]
  <2>1. d = [s \in 0 .. SecondsPerDay - 1 |-> d[s]]
    BY <1>2
  <2>2. QED
    BY <1>6, <2>1
<1>8. d[c] = 0
  <2>1. d[c] = (c - c) * a
    BY <1>1, <1>6
  <2>2. QED
    BY <1>1, <2>1
<1>9. ASSUME NEW r \in 0 .. SecondsPerDay - 1, NEW s \in 0 .. SecondsPerDay - 1, r < s, s <= c
      PROVE  d[s] < d[r]
  <2>1. r \in Nat /\ s \in Nat /\ r <= c
    BY <1>1, <1>9, Day
  <2>2. d[s] = (c - s) * a /\ d[r] = (c - r) * a /\ c - s \in Nat /\ c - r \in Nat
    BY <1>6, <1>9, <2>1
  <2>3. c - s < c - r
    BY <1>1, <1>9, <2>1
  <2>4. QED
    BY <1>1, <1>5, <2>2, <2>3
<1>10. ASSUME NEW r \in 0 .. SecondsPerDay - 1, NEW s \in 0 .. SecondsPerDay - 1, r < s, c <= r
       PROVE  d[r] < d[s]
  <2>1. r \in Nat /\ s \in Nat /\ c < s
    BY <1>1, <1>10, Day
  <2>2. d[s] = (s - c) * b /\ s - c \in Nat /\ r - c \in Nat /\ r - c < s - c
    BY <1>1, <1>6, <1>10, <2>1
  <2>3. d[r] = (r - c) * b
    <3>1. CASE c < r
      BY <1>6, <3>1
    <3>2. CASE r = c
      <4>1. (r - c) * b = 0
        BY <1>1, <3>2
      <4>2. QED
        BY <1>8, <3>2, <4>1
    <3>3. QED
      BY <1>1, <1>10, <2>1, <3>1, <3>2
  <2>4. QED
    BY <1>1, <1>5, <2>2, <2>3
<1>11. QED
  BY <1>3, <1>7, <1>8, <1>9, <1>10 DEF c, d

Samples == SecondsPerDay \div SampleSeconds

LEMMA Division ==
    ASSUME NEW a \in Int, NEW b \in Nat, b > 0
    PROVE  a \div b \in Int /\ a = b * (a \div b) + (a % b)
OBVIOUS

LEMMA SamplesFillTheDay ==
    Samples \in Nat /\ Samples > 0 /\ Samples * SampleSeconds = SecondsPerDay
<1>1. SecondsPerDay % SampleSeconds = 0
  BY DayAssumption DEF Schedule!ScheduleAssumption
<1>2. /\ Samples \in Int
      /\ SecondsPerDay = SampleSeconds * Samples + (SecondsPerDay % SampleSeconds)
  BY Day, Division DEF Samples
<1>3. SampleSeconds * Samples = SecondsPerDay
  BY <1>1, <1>2, Day
<1>4. Samples > 0
  <2>1. \A x \in Nat, y \in Int : ~(y > 0) => x * y <= 0
    OBVIOUS
  <2>2. QED
    BY <1>2, <1>3, <2>1, Day
<1>5. Samples * SampleSeconds = SampleSeconds * Samples
  BY <1>2, Day
<1>6. QED
  BY <1>2, <1>3, <1>4, <1>5

\* The nearest sample is less than one spacing before the nearest second, or at most one past it.
LEMMA NearestSample ==
    ASSUME NEW t \in Position, NEW r, r = Schedule!nearest(Schedule!Distance(t), Schedule!trajectory)
    PROVE  /\ r \in Schedule!Second
           /\ r <= t.nearest + SampleSeconds /\ t.nearest < r + SampleSeconds
<1> DEFINE c == t.nearest
           d == Schedule!Distance(t)
           s == Schedule!trajectory
           n == Samples
           w == SampleSeconds
<1>1. /\ n \in Nat /\ n > 0 /\ n * w = SecondsPerDay /\ w \in Nat /\ w > 0
      /\ c \in 0 .. SecondsPerDay - 1 /\ c \in Nat /\ c < SecondsPerDay
  BY SamplesFillTheDay, Day DEF Position
<1>2. s = [k \in 1 .. n |-> (k - 1) * w]
  BY Zenon DEF Schedule!trajectory, Samples
<1>3. d \in [Schedule!Second -> Nat] /\ Schedule!Second = 0 .. SecondsPerDay - 1
  BY DistanceGrows DEF Schedule!Second
<1> HIDE DEF n, s, d, c
<1>4. \A j \in Nat : j < n => j * w \in Nat /\ j * w + w <= SecondsPerDay
  <2>1. SUFFICES ASSUME NEW j \in Nat, j < n
                 PROVE  j * w \in Nat /\ j * w + w <= SecondsPerDay
    OBVIOUS
  <2>2. PICK e \in Nat : n = j + 1 + e
    <3>1. n - j - 1 \in Nat /\ n = j + 1 + (n - j - 1)
      BY <1>1, <2>1
    <3>2. QED
      BY <3>1
  <2>3. n * w = j * w + w + e * w /\ j * w \in Nat /\ e * w \in Nat
    BY <1>1, <2>2
  <2>4. QED
    BY <1>1, <2>3
<1>5. \A j \in Nat : j < n => j * w \in 0 .. SecondsPerDay - 1
  BY <1>1, <1>4, Day
<1>6. s \in [1 .. n -> Schedule!Second] /\ Len(s) = n
  <2>1. \A k \in 1 .. n : (k - 1) * w \in 0 .. SecondsPerDay - 1
    <3>1. \A k \in 1 .. n : k - 1 \in Nat /\ k - 1 < n
      BY <1>1
    <3>2. QED
      BY <1>5, <3>1
  <2>2. s \in [1 .. n -> Schedule!Second]
    BY <1>2, <1>3, <2>1
  <2>3. s \in Seq(Schedule!Second) /\ DOMAIN s = 1 .. n
    BY <1>1, <2>2
  <2>4. QED
    BY <1>1, <2>2, <2>3, LenProperties
<1>7. /\ \E k \in 1 .. n : r = s[k]
      /\ \A k \in 1 .. n : d[r] <= d[s[k]]
  <2>1. r = Schedule!nearest(d, s)
    BY DEF d, s
  <2>2. n \in Nat /\ n > 0 /\ d \in [Schedule!Second -> Nat] /\ s \in [1 .. n -> Schedule!Second]
        /\ Len(s) = n
    BY <1>1, <1>3, <1>6
  <2>3. /\ \E k \in 1 .. n : Schedule!nearest(d, s) = s[k]
        /\ \A k \in 1 .. n : d[Schedule!nearest(d, s)] <= d[s[k]]
    BY <2>2, NearestOf, Zenon
  <2>4. QED
    BY <2>1, <2>3
<1>8. PICK i \in Nat : i < n /\ r = i * w
  <2>1. PICK k \in 1 .. n : r = s[k]
    BY <1>7
  <2>2. k - 1 \in Nat /\ k - 1 < n /\ r = (k - 1) * w
    BY <1>1, <1>2, <2>1
  <2>3. QED
    BY <2>2
<1>9. \A j \in Nat : j < n => d[r] <= d[j * w]
  <2>1. SUFFICES ASSUME NEW j \in Nat, j < n
                 PROVE  d[r] <= d[j * w]
    OBVIOUS
  <2>2. j + 1 \in 1 .. n /\ (j + 1) - 1 = j
    BY <1>1, <2>1
  <2>3. s[j + 1] = j * w
    BY <1>2, <2>2
  <2>4. QED
    BY <1>7, <2>2, <2>3
<1>10. r \in Schedule!Second /\ r \in Nat /\ r + w <= SecondsPerDay /\ d[r] \in Nat
  BY <1>1, <1>3, <1>4, <1>5, <1>8
<1>11. c < r + w
  <2>1. SUFFICES ASSUME r + w <= c
                 PROVE  FALSE
    BY <1>1, <1>10
  <2>2. (i + 1) * w = r + w
    BY <1>1, <1>8
  <2>3. i + 1 < n
    <3>1. \A x, y \in Nat : y <= x => y * w <= x * w
      <4>1. SUFFICES ASSUME NEW x \in Nat, NEW y \in Nat, y <= x
                     PROVE  y * w <= x * w
        OBVIOUS
      <4>2. PICK e \in Nat : x = y + e
        <5>1. x - y \in Nat /\ x = y + (x - y)
          BY <4>1
        <5>2. QED
          BY <5>1
      <4>3. x * w = y * w + e * w /\ e * w \in Nat /\ y * w \in Nat
        BY <1>1, <4>2
      <4>4. QED
        BY <4>3
    <3>2. (i + 1) * w < n * w
      BY <1>1, <1>10, <2>1, <2>2
    <3>3. QED
      BY <1>1, <1>8, <1>10, <2>2, <3>1, <3>2
  <2>4. r + w \in Schedule!Second /\ r < r + w /\ r + w <= c /\ d[r + w] \in Nat
    BY <1>1, <1>3, <1>5, <1>8, <1>10, <2>1, <2>2, <2>3
  <2>5. d[r] <= d[r + w]
    BY <1>9, <1>8, <2>2, <2>3
  <2>6. d[r + w] < d[r]
    BY <1>10, <2>4, DistanceGrows DEF c, d
  <2>7. QED
    BY <1>10, <2>4, <2>5, <2>6
<1>12. r <= c + w
  <2>1. SUFFICES ASSUME c + w < r
                 PROVE  FALSE
    BY <1>1, <1>10
  <2>2. i # 0
    BY <1>1, <1>8, <2>1
  <2>3. (i - 1) * w = r - w /\ i - 1 \in Nat /\ i - 1 < n
    BY <1>1, <1>8, <2>2
  <2>4. r - w \in Schedule!Second /\ r - w < r /\ c <= r - w /\ d[r - w] \in Nat
    BY <1>1, <1>3, <1>5, <1>10, <2>1, <2>3
  <2>5. d[r] <= d[r - w]
    BY <1>9, <2>3
  <2>6. d[r - w] < d[r]
    BY <1>10, <2>4, DistanceGrows DEF c, d
  <2>7. QED
    BY <1>10, <2>4, <2>5, <2>6
<1>13. QED
  BY <1>10, <1>11, <1>12 DEF c

LEMMA NearestHolds ==
    ASSUME NEW t \in Position
    PROVE  Schedule!NearestSecondIsNearest(t)
<1> DEFINE c == t.nearest
           d == Schedule!Distance(t)
           r == Schedule!nearest(d, Schedule!trajectory)
           start == IF r > SampleSeconds THEN r - SampleSeconds ELSE 0
           last == Schedule!Min({r + SampleSeconds, SecondsPerDay - 1})
           s == [k \in 1 .. (last - start + 1) |-> start + k - 1]
<1>1. Schedule!nearest_second(d) = Schedule!nearest(d, s)
  BY Zenon DEF Schedule!nearest_second
<1>2. /\ c \in Nat /\ c < SecondsPerDay /\ c \in Schedule!Second
      /\ d \in [Schedule!Second -> Nat] /\ d[c] = 0
      /\ Schedule!Second = 0 .. SecondsPerDay - 1
  BY DistanceGrows, Day DEF Position, Schedule!Second
<1>3. r \in Nat /\ r < SecondsPerDay /\ r <= c + SampleSeconds /\ c < r + SampleSeconds
  BY <1>2, NearestSample, Day
<1> HIDE DEF r
<1>4. start \in Nat /\ start <= c
  BY <1>2, <1>3, Day
<1>5. last \in Nat /\ c <= last /\ last < SecondsPerDay
  <2>1. \A x, y \in Int : Schedule!Min({x, y}) = IF x <= y THEN x ELSE y
    <3>1. SUFFICES ASSUME NEW x \in Int, NEW y \in Int
                   PROVE  Schedule!Min({x, y}) = IF x <= y THEN x ELSE y
      OBVIOUS
    <3>2. Schedule!Min({x, y}) = CHOOSE z \in {x, y} : \A u \in {x, y} : z <= u
      BY Zenon DEF Schedule!Min
    <3>3. QED
      BY <3>2
  <2>2. r + SampleSeconds \in Int /\ SecondsPerDay - 1 \in Int
    BY <1>3, Day
  <2>3. last = IF r + SampleSeconds <= SecondsPerDay - 1 THEN r + SampleSeconds ELSE SecondsPerDay - 1
    BY <2>1, <2>2, Zenon
  <2> HIDE DEF last
  <2>4. QED
    BY <1>2, <1>3, <2>3, Day
<1> HIDE DEF start, last
<1> DEFINE n == last - start + 1
<1>6. n \in Nat /\ n > 0 /\ s = [k \in 1 .. n |-> start + k - 1]
  BY <1>2, <1>4, <1>5
<1>7. \A k \in 1 .. n : start + k - 1 \in 0 .. SecondsPerDay - 1
  BY <1>4, <1>5, Day
<1> HIDE DEF n, s
<1>8. s \in [1 .. n -> Schedule!Second] /\ Len(s) = n
  <2>1. s \in [1 .. n -> Schedule!Second]
    BY <1>2, <1>6, <1>7
  <2>2. s \in Seq(Schedule!Second) /\ DOMAIN s = 1 .. n
    BY <1>6, <2>1
  <2>3. QED
    BY <1>6, <2>1, <2>2, LenProperties
<1>9. \E k \in 1 .. n : s[k] = c
  <2>1. c - start + 1 \in 1 .. n /\ start + (c - start + 1) - 1 = c
    BY <1>2, <1>4, <1>5 DEF n
  <2>2. s[c - start + 1] = c
    BY <1>6, <2>1
  <2>3. QED
    BY <2>1, <2>2
<1> DEFINE x == Schedule!nearest(d, s)
<1>10. x \in Schedule!Second /\ d[x] <= d[c]
  <2>1. /\ \E k \in 1 .. n : x = s[k]
        /\ \A k \in 1 .. n : d[x] <= d[s[k]]
    <3> HIDE DEF d
    <3>1. QED
      <4>1. n \in Nat /\ n > 0 /\ d \in [Schedule!Second -> Nat]
            /\ s \in [1 .. n -> Schedule!Second] /\ Len(s) = n
        BY <1>2, <1>6, <1>8
      <4>2. QED
        BY <4>1, NearestOf, Zenon DEF x
  <2> HIDE DEF x, d, c
  <2>2. QED
    BY <1>8, <1>9, <2>1
<1> HIDE DEF x
<1>11. x = c
  <2>1. x \in Nat /\ d[x] \in Nat /\ d[x] = 0
    BY <1>2, <1>10, Day
  <2>2. /\ \A y, z \in Schedule!Second : y < z /\ z <= c => d[z] < d[y]
        /\ \A y, z \in Schedule!Second : y < z /\ c <= y => d[y] < d[z]
    BY DistanceGrows
  <2> HIDE DEF c, d
  <2>3. ~(x < c)
    BY <1>2, <1>10, <2>1, <2>2
  <2>4. ~(c < x)
    BY <1>2, <1>10, <2>1, <2>2
  <2>5. QED
    BY <1>2, <2>1, <2>3, <2>4
<1>12. QED
  BY <1>1, <1>11, Zenon DEF Schedule!NearestSecondIsNearest, x

-----------------------------------------------------------------------------
(* A schedule and a day of it                                               *)

ScheduleInv ==
    /\ \E n \in Nat : Points(v1, n)
    /\ v2 \in 0 .. SecondsPerDay - 1
    /\ v3 \in Position

LEMMA ScheduleStart == ScheduleInit => ScheduleInv
<1> SUFFICES ASSUME ScheduleInit
             PROVE  ScheduleInv
  OBVIOUS
<1>1. PICK times \in Times : v1 = [i \in DOMAIN times |-> Schedule!Point(i, times[i])]
  BY DEF ScheduleInit
<1>2. PICK n \in 1 .. MaxPoints : times \in [1 .. n -> 0 .. Grain - 1]
  BY <1>1 DEF Times
<1>3. n \in Nat /\ n > 0 /\ DOMAIN times = 1 .. n
  BY <1>2, FileAssumption
<1>4. ASSUME NEW i \in 1 .. n
      PROVE  /\ Schedule!Point(i, times[i]) \in Moment
             /\ Schedule!Point(i, times[i]).image = i
             /\ Schedule!Point(i, times[i]).boundary = Ceiling(Schedule!Point(i, times[i]).time)
  <2>1. i \in Nat /\ times[i] \in 0 .. Grain - 1
    BY <1>2, <1>3
  <2>2. Ceiling(times[i]) \in 0 .. SecondsPerDay
    BY <2>1, CeilingIsFirst
  <2>3. Schedule!Point(i, times[i]) = [image |-> i, time |-> times[i], boundary |-> Ceiling(times[i])]
    BY Zenon DEF Schedule!Point, Ceiling
  <2>4. QED
    BY <2>1, <2>2, <2>3 DEF Moment
<1>5. Points(v1, n)
  <2>1. v1 = [i \in 1 .. n |-> Schedule!Point(i, times[i])]
    BY <1>1, <1>3
  <2>2. QED
    BY <1>3, <1>4, <2>1 DEF Points
<1>6. v2 \in 0 .. SecondsPerDay - 1
  BY Day DEF ScheduleInit
<1>7. v3 \in Position
  BY FileAssumption DEF ScheduleInit, Position, Schedule!Second
<1>8. QED
  BY <1>3, <1>5, <1>6, <1>7 DEF ScheduleInv

LEMMA ScheduleStep ==
    ASSUME ScheduleInv, ScheduleNext
    PROVE  ScheduleInv'
<1>1. v1' = v1 /\ v3' = v3 /\ v2' = (v2 + 1) % SecondsPerDay
  BY DEF ScheduleNext
<1>2. v2 \in Nat /\ v2 < SecondsPerDay
  BY Day DEF ScheduleInv
<1>3. (v2 + 1) % SecondsPerDay \in 0 .. SecondsPerDay - 1
  BY <1>2, Around, Day
<1>4. QED
  BY <1>1, <1>3 DEF ScheduleInv, Points, Position

LEMMA ScheduleImplies ==
    ASSUME ScheduleInv
    PROVE  /\ Schedule!BoundaryIsCeiling(v1) /\ Schedule!SelectedIsMostRecent(v1, v2)
           /\ Schedule!DissolveStartsAtBoundary(v1, v2) /\ Schedule!WakeIsNextBoundary(v1, v2)
           /\ Schedule!NearestSecondIsNearest(v3)
<1>1. PICK n \in Nat : Points(v1, n)
  BY DEF ScheduleInv
<1>2. v2 \in 0 .. SecondsPerDay - 1 /\ v3 \in Position
  BY DEF ScheduleInv
<1>3. QED
  BY <1>1, <1>2, BoundaryHolds, SelectedHolds, DissolveHolds, WakeHolds, NearestHolds

-----------------------------------------------------------------------------
(* The parts                                                                *)

PartInv ==
    /\ part = "document" => DocumentInv
    /\ part = "bytes"    => StringInv
    /\ part = "schedule" => ScheduleInv

LEMMA PartStart == Init => PartInv
<1>1. SUFFICES ASSUME Init
               PROVE  PartInv
  OBVIOUS
<1>2. part = "document" => Opened!Init
  BY <1>1 DEF Init
<1>3. part = "bytes" => Bytes!Init
  BY <1>1 DEF Init
<1>4. part = "schedule" => ScheduleInit
  BY <1>1 DEF Init
<1>5. QED
  BY <1>2, <1>3, <1>4, DocumentStart, StringStart, ScheduleStart DEF PartInv

LEMMA PartStep == PartInv /\ [Next]_pool => PartInv'
<1>1. SUFFICES ASSUME PartInv, [Next]_pool
               PROVE  PartInv'
  OBVIOUS
<1>2. part' = part
  BY <1>1 DEF Next, pool
<1>3. part = "document" => [Opened!Next]_(Opened!vars)
  <2>1. UNCHANGED pool => UNCHANGED Opened!vars
    BY DEF pool, Opened!vars
  <2>2. QED
    BY <1>1, <2>1 DEF Next
<1>4. part = "bytes" => v4' = v4
  BY <1>1 DEF Next, pool, Bytes!walk
<1>5. part = "schedule" => ScheduleNext \/ UNCHANGED <<v1, v2, v3>>
  BY <1>1 DEF Next, pool
<1>6. part = "document" => DocumentInv'
  BY <1>1, <1>3, DocumentStep DEF PartInv
<1>7. part = "bytes" => StringInv'
  BY <1>1, <1>4 DEF PartInv, StringInv
<1>8. part = "schedule" => ScheduleInv'
  <2>1. ScheduleInv /\ UNCHANGED <<v1, v2, v3>> => ScheduleInv'
    BY DEF ScheduleInv, Points, Position
  <2>2. QED
    BY <1>1, <1>5, <2>1, ScheduleStep DEF PartInv
<1>9. QED
  BY <1>2, <1>6, <1>7, <1>8 DEF PartInv

\* What holds of each part at every step.
THEOREM Invariance == Spec => []PartInv
BY PartStart, PartStep, PTL DEF Spec

\* The file is opened once and its bytes are read by one who may trust them: the parser
\* reads, at the parse and at each later decode, the regular file that was checked and
\* only bytes that were approved, though the owner renames and rewrites it meanwhile, and
\* the strings it finds in them are the preflight's, whatever their length
\* (stable_file.rs: open_regular; heic.rs: anonymous_source; container.rs: read_cstring).
THEOREM ApprovedBytes == Spec => []ParserUsesApprovedBytes
<1>1. PartInv => ParserUsesApprovedBytes
  BY DocumentImplies, SameString DEF PartInv, ParserUsesApprovedBytes
<1>2. QED
  BY <1>1, Invariance, PTL

\* At every second of a day of any length, and for any number of points at whatever times,
\* the image in effect is the one whose boundary was passed last on the circular clock, no
\* boundary comes early, a dissolve starts where its boundary was, no change is slept
\* through, and the search over samples finds the second at which the sun is nearest
\* (playback.rs: selected_point, boundary_start, next_wake; solar.rs: nearest_second).
THEOREM CircularSchedule == Spec => []ScheduleIsCircular
<1>1. PartInv => ScheduleIsCircular
  BY ScheduleImplies DEF PartInv, ScheduleIsCircular
<1>2. QED
  BY <1>1, Invariance, PTL
=============================================================================
