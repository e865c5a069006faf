---------------------------- MODULE WorkerChannel ----------------------------
(***************************************************************************)
(* The byte stream between the authentication worker and the locker        *)
(* (crates/lock-auth/src/lib.rs): messages framed by a header, written and *)
(* read in pieces, and the deadline under which Client::start_with_worker  *)
(* awaits Ready on a socket the reader thread then goes on to read         *)
(* (src/locker/auth.rs).  LockAuth takes messages as units that arrive as  *)
(* sent; this module is about why it may.                                  *)
(*                                                                         *)
(* A message is its kind, the number of bytes of its text or secret and    *)
(* whether one of them is NUL.  A byte is where it stands in the stream;   *)
(* MAGIC and VERSION are what a message begins with, but one of kind OTHER *)
(* (a worker of another build).                                            *)
(***************************************************************************)
EXTENDS Naturals, Sequences, SequencesExt, FiniteSetsExt

CONSTANTS
    Messages,            \* messages the worker may send: [kind, size, nul]
    Identity,            \* the one that says Ready for the locker's user
    HEADER_BYTES,        \* magic, version, kind and length
    UID_BYTES, ID_BYTES, \* of an encoded user id and prompt id
    MAX_PAYLOAD_BYTES, MAX_RESPONSE_BYTES, MAX_MESSAGE_BYTES,
    READY_TIMEOUT,
    MaxSent, MaxTime     \* bounds of the model

WorkerChannelAssumption ==
    /\ {HEADER_BYTES, READY_TIMEOUT} \subseteq Nat \ {0}
    /\ {UID_BYTES, ID_BYTES, MAX_RESPONSE_BYTES, MAX_MESSAGE_BYTES, MaxSent, MaxTime} \subseteq Nat
    /\ \A m \in Messages : m.size \in Nat /\ m.nul \in BOOLEAN
    /\ MAX_PAYLOAD_BYTES \in Nat
    /\ MAX_PAYLOAD_BYTES >= ID_BYTES + 1 + MAX_MESSAGE_BYTES
    /\ MAX_PAYLOAD_BYTES >= ID_BYTES + MAX_RESPONSE_BYTES

VARIABLES
    sent,      \* frames: [message, start, length], start their place in the stream
    written,   \* bytes the worker has written
    open,      \* the worker's end is open
    phase,     \* "start" (start_with_worker), "reader" (read_worker) or "failed"
    pc,        \* of read_exact_or_closed: "loop" or "read"
    header,    \* bytes of the header read; then
    length,    \* of the payload as the header has it, or None
    payload,   \* bytes of the payload read
    read,      \* bytes taken from the stream
    received,  \* messages decoded
    error,     \* that ended the connection, or "none"
    timeout,   \* the socket's read timeout, 0 for none
    since,     \* time the current read began
    now

sender   == <<sent, written, open>>
receiver == <<phase, pc, header, length, payload, read, received, error>>
vars == <<sender, receiver, timeout, since, now>>

None == MAX_PAYLOAD_BYTES + 1

\* Bytes of a payload before its text or secret.
Fixed(kind) ==
    CASE kind = "READY" -> UID_BYTES [] kind = "PROMPT" -> ID_BYTES + 1
      [] kind = "RESPONSE" -> ID_BYTES [] OTHER -> 0

Texts == {"READY", "PROMPT", "INFO", "ERROR"}

-----------------------------------------------------------------------------
(* Connection::send *)

\* encode accepts a message: its text is short enough; a Secret was checked when made.
encode(m) ==
    /\ m.kind \in Texts => m.size <= MAX_MESSAGE_BYTES
    /\ m.kind = "RESPONSE" => m.size <= MAX_RESPONSE_BYTES /\ ~m.nul
    /\ m.kind \notin Texts \cup {"RESPONSE"} => m.size = 0

Total == IF sent = << >> THEN 0 ELSE Last(sent).start + HEADER_BYTES + Last(sent).length

send(m) ==
    /\ open /\ Len(sent) < MaxSent /\ written = Total
    /\ encode(m) /\ Fixed(m.kind) + m.size <= MAX_PAYLOAD_BYTES
    /\ sent' = Append(sent, [message |-> m, start |-> Total, length |-> Fixed(m.kind) + m.size])
    /\ UNCHANGED <<written, open, receiver, timeout, since, now>>

\* write_all: the kernel takes some of what is left.
Write ==
    /\ open /\ written < Total
    /\ written' \in written + 1 .. Total
    /\ UNCHANGED <<sent, open, receiver, timeout, since, now>>

\* The worker exits or is killed, in the middle of a message too.
Close ==
    /\ open /\ open' = FALSE
    /\ UNCHANGED <<sent, written, receiver, timeout, since, now>>

-----------------------------------------------------------------------------
(* Connection::receive_before *)

InHeader == length = None
Missing  == IF InHeader THEN HEADER_BYTES - header ELSE length - payload
Deadline == READY_TIMEOUT

Fail(e) ==
    /\ error' = e /\ phase' = "failed"
    /\ UNCHANGED <<sender, pc, header, length, payload, read, received, timeout, since, now>>

\* The head of read_exact_or_closed's loop: the time left becomes the socket's timeout.
Arm ==
    /\ phase # "failed" /\ pc = "loop" /\ Missing > 0
    /\ phase = "start" => now < Deadline
    /\ IF phase = "start" THEN timeout' = Deadline - now ELSE UNCHANGED timeout
    /\ pc' = "read" /\ since' = now
    /\ UNCHANGED <<sender, phase, header, length, payload, read, received, error, now>>

Elapsed ==
    /\ phase = "start" /\ pc = "loop" /\ Missing > 0 /\ now >= Deadline
    /\ Fail("timed out")

\* stream.read returns some of the bytes that are there, at most what is missing.
Wanted == Min({written - read, Missing})

Read ==
    /\ phase # "failed" /\ pc = "read" /\ read < written
    /\ \E count \in 1 .. Wanted :
         /\ read' = read + count
         /\ IF InHeader THEN header' = header + count /\ UNCHANGED payload
                        ELSE payload' = payload + count /\ UNCHANGED header
    /\ pc' = "loop"
    /\ UNCHANGED <<sender, phase, length, received, error, timeout, since, now>>

Interrupted ==
    /\ phase # "failed" /\ pc = "read" /\ pc' = "loop"
    /\ UNCHANGED <<sender, phase, header, length, payload, read, received, error, timeout, since, now>>

ReadsNothing ==
    /\ phase # "failed" /\ pc = "read" /\ read = written /\ ~open
    /\ Fail("closed")

ReadTimesOut ==
    /\ phase # "failed" /\ pc = "read" /\ read = written
    /\ timeout # 0 /\ now >= since + timeout
    /\ Fail("timed out")

\* The frame whose header is the last HEADER_BYTES read, if they are one.
Headers == {i \in DOMAIN sent :
              sent[i].start + HEADER_BYTES = read /\ sent[i].message.kind # "OTHER"}

\* The header gives a length no message may have.
Refused(i) == sent[i].length > MAX_PAYLOAD_BYTES

HeaderRead ==
    /\ phase # "failed" /\ pc = "loop" /\ InHeader /\ Missing = 0
    /\ \/ /\ \A i \in Headers : Refused(i)
          /\ Fail("invalid")
       \/ \E i \in Headers :
            /\ ~Refused(i)
            /\ length' = sent[i].length /\ payload' = 0
            /\ UNCHANGED <<sender, phase, pc, header, read, received, error, timeout, since, now>>

\* decode, of a payload that follows the header.
decode(m, n) ==
    /\ n >= Fixed(m.kind)
    /\ m.kind \in Texts => n - Fixed(m.kind) <= MAX_MESSAGE_BYTES /\ ~m.nul
    /\ m.kind = "RESPONSE" => n - Fixed(m.kind) <= MAX_RESPONSE_BYTES /\ ~m.nul
    /\ m.kind \notin Texts \cup {"RESPONSE"} => n = 0

Frame == CHOOSE i \in DOMAIN sent : sent[i].start + HEADER_BYTES + length = read

\* start_with_worker goes on if the message is its Ready: it clears the socket's timeout and
\* hands the socket to the reader.
Started(m) == m = Identity /\ phase' = "reader" /\ timeout' = 0

PayloadRead ==
    /\ phase # "failed" /\ pc = "loop" /\ ~InHeader /\ Missing = 0
    /\ LET m == sent[Frame].message IN
       \/ /\ ~decode(m, length) /\ Fail("invalid")
       \/ /\ decode(m, length) /\ phase = "start" /\ m # Identity
          /\ Fail("unexpected worker")
       \/ /\ decode(m, length)
          /\ IF phase = "start" THEN Started(m) ELSE UNCHANGED <<phase, timeout>>
          /\ received' = Append(received, m)
          /\ header' = 0 /\ length' = None /\ payload' = 0
          /\ UNCHANGED <<sender, pc, read, error, since, now>>

-----------------------------------------------------------------------------
\* Time passes while the receiver is blocked; its own steps take none, and the kernel ends
\* a read when its timeout is up.
Tick ==
    /\ now < MaxTime /\ now' = now + 1
    /\ phase # "failed" /\ pc = "read" /\ read = written /\ open
    /\ timeout = 0 \/ now < since + timeout
    /\ UNCHANGED <<sender, receiver, timeout, since>>

Init ==
    /\ sent = << >> /\ written = 0 /\ open = TRUE
    /\ phase = "start" /\ pc = "loop" /\ header = 0 /\ length = None /\ payload = 0
    /\ read = 0 /\ received = << >> /\ error = "none"
    /\ timeout = 0 /\ since = 0 /\ now = 0

Next == \/ \E m \in Messages : send(m)
        \/ Write \/ Close \/ Tick
        \/ Arm \/ Elapsed \/ Read \/ Interrupted \/ ReadsNothing \/ ReadTimesOut
        \/ HeaderRead \/ PayloadRead

Spec == Init /\ [][Next]_vars

-----------------------------------------------------------------------------
(* Properties *)

TypeOK ==
    /\ written \in 0 .. Total /\ read \in 0 .. written
    /\ phase \in {"start", "reader", "failed"} /\ pc \in {"loop", "read"}
    /\ error \in {"none", "timed out", "closed", "invalid", "unexpected worker"}
    /\ header \in 0 .. HEADER_BYTES /\ length \in 0 .. None /\ payload \in 0 .. length
    /\ timeout \in 0 .. READY_TIMEOUT /\ now \in 0 .. MaxTime /\ since \in 0 .. now

\* However the stream is cut into pieces, and across the hand-over of the socket from start
\* to the reader, the messages received are those sent; what the sender's limits let pass the
\* receiver's do too; only a text that has a NUL or a worker of another build is refused.
ReceivedAsSent ==
    /\ \A i \in DOMAIN received : received[i] = sent[i].message
    /\ error = "invalid" => LET m == sent[Len(received) + 1].message IN m.nul \/ m.kind = "OTHER"

\* A worker that has nothing to say, while a user reads the prompt, is not taken for one
\* that hangs: only the wait for Ready times out, and not before its time.
SilentWorkerIsKept == error = "timed out" => received = << >> /\ now >= Deadline

\* A worker that sends Ready byte by byte does not extend the wait for it.
StartEndsByDeadline == phase = "start" => now <= Deadline
=============================================================================
