------------------------- MODULE WorkerChannelProofs -------------------------
(***************************************************************************)
(* Proofs about WorkerChannel, for any messages, limits and deadline, and  *)
(* however the stream is cut into pieces.                                  *)
(*                                                                         *)
(* The frames lie in the stream without gaps, and the receiver has taken   *)
(* exactly the frames of the messages it received and the part of the next *)
(* that it counts in header and payload.  So the bytes it takes for a      *)
(* header are one, and the limits of the sender, by which the frame was    *)
(* made, decide what the receiver finds in it.                             *)
(***************************************************************************)
EXTENDS WorkerChannel, SequenceTheorems, TLAPS

-----------------------------------------------------------------------------
(* The inductive invariant *)

Frames == [message : Messages, start : Nat, length : Nat]

\* Where the i-th frame ends.
End(i) == sent[i].start + HEADER_BYTES + sent[i].length

\* Where the frame that is being received begins.
Begin == IF received = << >> THEN 0 ELSE End(Len(received))

FrameInv ==
    /\ sent \in Seq(Frames)
    /\ \A i \in 1 .. Len(sent) :
           /\ sent[i].length = Fixed(sent[i].message.kind) + sent[i].message.size
           /\ sent[i].length <= MAX_PAYLOAD_BYTES /\ encode(sent[i].message)
           /\ i = 1 => sent[i].start = 0
           /\ i + 1 <= Len(sent) => sent[i + 1].start = End(i)
           /\ \A j \in 1 .. Len(sent) : i < j => End(i) <= sent[j].start

PlaceInv ==
    /\ received \in Seq(Messages) /\ Len(received) <= Len(sent)
    /\ \A i \in 1 .. Len(received) : received[i] = sent[i].message
    /\ read = Begin + header + payload
    /\ length = None => payload = 0
    /\ length # None => /\ header = HEADER_BYTES /\ Len(received) + 1 <= Len(sent)
                        /\ length = sent[Len(received) + 1].length

\* Why the connection ended.
Unfit(i) == sent[i].message.nul \/ sent[i].message.kind = "OTHER"

ErrorInv ==
    /\ phase = "failed" <=> error # "none"
    /\ error = "invalid" => Len(received) + 1 <= Len(sent) /\ Unfit(Len(received) + 1)

TimeInv ==
    /\ phase = "start" => /\ received = << >> /\ now <= Deadline
                          /\ pc = "read" => timeout # 0 /\ since + timeout = Deadline
    /\ phase = "reader" => timeout = 0
    /\ error = "timed out" => received = << >> /\ now >= Deadline

Inv == TypeOK /\ FrameInv /\ PlaceInv /\ ErrorInv /\ TimeInv

-----------------------------------------------------------------------------
(* Constants and frames *)

\* The constants as numbers.
LEMMA Numbers ==
    ASSUME WorkerChannelAssumption
    PROVE  /\ HEADER_BYTES \in Nat /\ HEADER_BYTES > 0 /\ READY_TIMEOUT \in Nat /\ READY_TIMEOUT > 0
           /\ UID_BYTES \in Nat /\ ID_BYTES \in Nat /\ MAX_RESPONSE_BYTES \in Nat
           /\ MAX_MESSAGE_BYTES \in Nat /\ MaxTime \in Nat /\ MAX_PAYLOAD_BYTES \in Nat
           /\ None \in Nat /\ None = MAX_PAYLOAD_BYTES + 1 /\ Deadline = READY_TIMEOUT
  BY DEF WorkerChannelAssumption, None, Deadline

\* Fixed is a number of bytes.
LEMMA FixedIsNat ==
    ASSUME WorkerChannelAssumption, NEW kind
    PROVE  Fixed(kind) \in Nat
  BY Numbers DEF Fixed

\* What the receiver refuses of a frame that the sender made is text with a NUL
\* (encode, decode).
LEMMA EncodedIsDecoded ==
    ASSUME WorkerChannelAssumption, NEW m \in Messages, encode(m), ~m.nul
    PROVE  decode(m, Fixed(m.kind) + m.size)
<1>1. m.size \in Nat /\ Fixed(m.kind) \in Nat
  BY FixedIsNat DEF WorkerChannelAssumption
<1>2. Fixed(m.kind) + m.size - Fixed(m.kind) = m.size /\ Fixed(m.kind) + m.size >= Fixed(m.kind)
  BY <1>1
<1>3. m.kind \notin Texts \cup {"RESPONSE"} => Fixed(m.kind) + m.size = 0
  <2>1. m.kind \notin Texts \cup {"RESPONSE"} => Fixed(m.kind) = 0 /\ m.size = 0
    BY DEF Fixed, Texts, encode
  <2>2. QED
    BY <2>1
<1> DEFINE n == Fixed(m.kind) + m.size
<1>4. n >= Fixed(m.kind) /\ n - Fixed(m.kind) = m.size
  BY <1>1, <1>2
<1> HIDE DEF n
<1>5. decode(m, n)
  BY <1>3, <1>4 DEF decode, encode, n
<1>6. QED
  BY <1>5 DEF n

\* The bytes sent, and the frame that is being received.
LEMMA TotalIsEnd ==
    ASSUME WorkerChannelAssumption, Inv
    PROVE  /\ Len(sent) \in Nat /\ Len(received) \in Nat
           /\ \A i \in 1 .. Len(sent) : End(i) \in Nat /\ sent[i] \in Frames
           /\ Total = IF sent = << >> THEN 0 ELSE End(Len(sent))
           /\ Total \in Nat /\ Begin \in Nat
           /\ Len(received) + 1 <= Len(sent) => sent[Len(received) + 1].start = Begin
<1>1. Len(sent) \in Nat /\ Len(received) \in Nat /\ Len(received) <= Len(sent)
  BY DEF Inv, FrameInv, PlaceInv
<1>2. \A i \in 1 .. Len(sent) : sent[i] \in Frames
  BY DEF Inv, FrameInv
<1>3. \A i \in 1 .. Len(sent) : End(i) \in Nat
  BY <1>2, Numbers DEF End, Frames
<1>4. Total = IF sent = << >> THEN 0 ELSE End(Len(sent))
  BY DEF Total, Last, End
<1>5. sent # << >> => Len(sent) \in 1 .. Len(sent)
  BY <1>1 DEF Inv, FrameInv
<1>6. received # << >> => Len(received) \in 1 .. Len(sent)
  BY <1>1 DEF Inv, PlaceInv
<1>7. Total \in Nat /\ Begin \in Nat
  BY <1>3, <1>4, <1>5, <1>6 DEF Begin
<1>8. Len(received) + 1 <= Len(sent) => sent[Len(received) + 1].start = Begin
  <2>1. CASE received = << >>
    BY <1>1, <2>1 DEF Begin, Inv, FrameInv
  <2>2. CASE received # << >>
    BY <1>1, <1>6, <2>2 DEF Begin, Inv, FrameInv
  <2>3. QED
    BY <2>1, <2>2
<1>9. QED
  BY <1>1, <1>2, <1>3, <1>4, <1>7, <1>8

\* Two frames do not begin at the same place.
LEMMA StartsDiffer ==
    ASSUME WorkerChannelAssumption, Inv, NEW i \in 1 .. Len(sent), NEW j \in 1 .. Len(sent),
           sent[i].start = sent[j].start
    PROVE  i = j
<1>1. /\ Len(sent) \in Nat /\ sent[i].start \in Nat /\ sent[j].start \in Nat
      /\ sent[i].length \in Nat /\ sent[j].length \in Nat
  BY TotalIsEnd DEF Frames
<1>2. End(i) > sent[i].start /\ End(j) > sent[j].start
  <2>1. HEADER_BYTES \in Nat /\ HEADER_BYTES > 0
    BY Numbers
  <2>2. \A a, l \in Nat : a + HEADER_BYTES + l > a
    BY <2>1
  <2>3. QED
    BY <1>1, <2>2 DEF End
<1>3. (i < j => End(i) <= sent[j].start) /\ (j < i => End(j) <= sent[i].start)
  BY DEF Inv, FrameInv
<1>4. i \in Nat /\ j \in Nat /\ End(i) \in Nat /\ End(j) \in Nat
  BY TotalIsEnd
<1>5. ~(i < j) /\ ~(j < i)
  BY <1>1, <1>2, <1>3, <1>4
<1>6. QED
  BY <1>4, <1>5

\* A receiver that has taken bytes of another frame has a frame to take them from.
LEMMA FrameIsThere ==
    ASSUME WorkerChannelAssumption, Inv, header + payload > 0
    PROVE  Len(received) + 1 \in 1 .. Len(sent)
<1>1. /\ Len(sent) \in Nat /\ Len(received) \in Nat /\ Len(received) <= Len(sent)
      /\ Total \in Nat /\ Begin \in Nat /\ read <= Total /\ read = Begin + header + payload
      /\ header \in Nat /\ payload \in Nat
  <2>1. Len(sent) \in Nat /\ Len(received) \in Nat /\ Total \in Nat /\ Begin \in Nat
    BY TotalIsEnd
  <2>2. written \in 0 .. Total /\ read \in 0 .. written /\ header \in 0 .. HEADER_BYTES
        /\ length \in 0 .. None /\ payload \in 0 .. length
    BY DEF Inv, TypeOK
  <2>3. Len(received) <= Len(sent) /\ read = Begin + header + payload
    BY DEF Inv, PlaceInv
  <2>4. QED
    BY <2>1, <2>2, <2>3
<1>2. Len(received) # Len(sent)
  <2>1. SUFFICES ASSUME Len(received) = Len(sent)
                 PROVE  FALSE
    OBVIOUS
  <2>2. (received = << >>) <=> (sent = << >>)
    BY <2>1 DEF Inv, PlaceInv, FrameInv
  <2>3. Begin = Total
    BY <2>1, <2>2, TotalIsEnd DEF Begin
  <2>4. QED
    BY <1>1, <2>3
<1>3. QED
  BY <1>1, <1>2

\* What a step that sends nothing keeps.
LEMMA SameFrames ==
    ASSUME Inv, sent' = sent
    PROVE  FrameInv' /\ Total' = Total /\ \A i : End(i)' = End(i)
<1>1. \A i : End(i)' = End(i)
  BY DEF End
<1>2. FrameInv'
  BY <1>1 DEF Inv, FrameInv
<1>3. QED
  BY <1>1, <1>2 DEF Total

-----------------------------------------------------------------------------
(* The worker's end *)

\* A message that is encoded makes the next frame (Connection::send).
LEMMA SendKeeps ==
    ASSUME WorkerChannelAssumption, Inv, NEW m \in Messages, send(m)
    PROVE  Inv'
<1> DEFINE n == Len(sent)
           fr == [message |-> m, start |-> Total, length |-> Fixed(m.kind) + m.size]
<1>1. /\ written = Total /\ encode(m) /\ Fixed(m.kind) + m.size <= MAX_PAYLOAD_BYTES
      /\ sent' = Append(sent, fr)
      /\ UNCHANGED <<written, open, phase, pc, header, length, payload, read, received, error,
                     timeout, since, now>>
  BY DEF send, receiver
<1>2. m.size \in Nat /\ Fixed(m.kind) \in Nat /\ Fixed(m.kind) + m.size \in Nat
  BY FixedIsNat DEF WorkerChannelAssumption
<1>3. /\ n \in Nat /\ Len(received) \in Nat /\ Total \in Nat
      /\ \A i \in 1 .. n : End(i) \in Nat /\ sent[i] \in Frames
      /\ Total = IF sent = << >> THEN 0 ELSE End(n)
  BY TotalIsEnd
<1>4. /\ fr \in Frames /\ fr.message = m /\ fr.start = Total
      /\ fr.length = Fixed(m.kind) + m.size
  BY <1>2, <1>3 DEF Frames
<1> HIDE DEF fr
<1>5. /\ sent' \in Seq(Frames) /\ Len(sent') = n + 1 /\ sent'[n + 1] = fr
      /\ \A i \in 1 .. n : sent'[i] = sent[i]
  BY <1>1, <1>3, <1>4, AppendProperties DEF Inv, FrameInv
<1>6. \A i \in 1 .. n : End(i)' = End(i)
  BY <1>5 DEF End
<1>7. sent' # << >> /\ Total' = Total + HEADER_BYTES + fr.length
  <2>1. sent' # << >>
    BY <1>3, <1>5
  <2>2. Last(sent)' = fr
    BY <1>5 DEF Last
  <2>3. QED
    BY <1>4, <2>1, <2>2 DEF Total
<1>8. Total' \in Nat /\ Total <= Total'
  BY <1>2, <1>3, <1>4, <1>7, Numbers
\* Every earlier frame ends by Total, where the new one begins.
<1>9. ASSUME NEW i \in 1 .. n
      PROVE  End(i) <= Total
  <2>1. Total = End(n) /\ n \in 1 .. n
    BY <1>3 DEF Inv, FrameInv
  <2>2. CASE i = n
    BY <1>3, <2>1, <2>2
  <2>3. CASE i < n
    <3>1. End(i) <= sent[n].start
      BY <2>1, <2>3 DEF Inv, FrameInv
    <3>2. sent[n].start \in Nat /\ sent[n].length \in Nat
      BY <1>3, <2>1 DEF Frames
    <3>3. \A a, l, e \in Nat : e <= a => e <= a + HEADER_BYTES + l
      BY Numbers
    <3>4. QED
      BY <1>3, <2>1, <3>1, <3>2, <3>3 DEF End
  <2>4. QED
    BY <1>3, <2>2, <2>3
<1>10. FrameInv'
  <2>1. ASSUME NEW i \in 1 .. n + 1
        PROVE  /\ sent'[i].length = Fixed(sent'[i].message.kind) + sent'[i].message.size
               /\ sent'[i].length <= MAX_PAYLOAD_BYTES /\ encode(sent'[i].message)
    <3>1. CASE i = n + 1
      BY <1>1, <1>4, <1>5, <3>1
    <3>2. CASE i \in 1 .. n
      BY <1>5, <3>2 DEF Inv, FrameInv
    <3>3. QED
      BY <1>3, <3>1, <3>2
  <2>2. ASSUME NEW i \in 1 .. n + 1
        PROVE  /\ i = 1 => sent'[i].start = 0
               /\ i + 1 <= n + 1 => sent'[i + 1].start = End(i)'
    <3>1. CASE i = n + 1
      <4>1. i = 1 => sent = << >>
        BY <1>3, <3>1 DEF Inv, FrameInv
      <4>2. QED
        BY <1>3, <1>4, <1>5, <3>1, <4>1
    <3>2. CASE i \in 1 .. n
      <4>1. sent'[i] = sent[i] /\ (i = 1 => sent[i].start = 0)
        BY <1>5, <3>2 DEF Inv, FrameInv
      <4>2. CASE i = n
        BY <1>3, <1>4, <1>5, <1>6, <3>2, <4>1, <4>2 DEF Inv, FrameInv
      <4>3. CASE i # n
        <5>1. i + 1 \in 1 .. n
          BY <1>3, <3>2, <4>3
        <5>2. sent[i + 1].start = End(i)
          BY <3>2, <5>1 DEF Inv, FrameInv
        <5>3. QED
          BY <1>5, <1>6, <3>2, <4>1, <5>1, <5>2
      <4>4. QED
        BY <4>2, <4>3
    <3>3. QED
      BY <1>3, <3>1, <3>2
  <2>3. ASSUME NEW i \in 1 .. n + 1, NEW j \in 1 .. n + 1, i < j
        PROVE  End(i)' <= sent'[j].start
    <3>1. i \in 1 .. n
      BY <1>3, <2>3
    <3>2. CASE j = n + 1
      BY <1>4, <1>5, <1>6, <1>9, <3>1, <3>2
    <3>3. CASE j \in 1 .. n
      BY <1>5, <1>6, <2>3, <3>1, <3>3 DEF Inv, FrameInv
    <3>4. QED
      BY <1>3, <3>2, <3>3
  <2>4. QED
    BY <1>5, <2>1, <2>2, <2>3 DEF FrameInv
<1>11. Len(received) <= n /\ (received # << >> => Len(received) \in 1 .. n)
  BY <1>3 DEF Inv, PlaceInv
<1>12. Begin' = Begin
  BY <1>1, <1>6, <1>11 DEF Begin
<1>13. PlaceInv'
  <2>1. \A i \in 1 .. Len(received) : received[i] = sent'[i].message
    BY <1>3, <1>5, <1>11 DEF Inv, PlaceInv
  <2>2. length # None => /\ Len(received) + 1 \in 1 .. n
                         /\ length = sent'[Len(received) + 1].length
    BY <1>3, <1>5 DEF Inv, PlaceInv
  <2>3. QED
    BY <1>1, <1>3, <1>5, <1>11, <1>12, <2>1, <2>2 DEF Inv, PlaceInv, None
<1>14. ErrorInv'
  <2>1. error = "invalid" => Len(received) + 1 \in 1 .. n /\ Unfit(Len(received) + 1)
    BY <1>3 DEF Inv, ErrorInv
  <2>2. error = "invalid" => Unfit(Len(received) + 1)'
    BY <1>1, <1>5, <2>1 DEF Unfit
  <2>3. QED
    BY <1>1, <1>3, <1>5, <2>1, <2>2 DEF Inv, ErrorInv
<1>15. TypeOK'
  <2>1. written' \in 0 .. Total'
    BY <1>1, <1>3, <1>8
  <2>2. QED
    BY <1>1, <2>1 DEF Inv, TypeOK, None
<1>16. TimeInv'
  BY <1>1 DEF Inv, TimeInv, Deadline
<1>17. QED
  BY <1>10, <1>13, <1>14, <1>15, <1>16 DEF Inv

\* A step that leaves both what was sent and how far the receiver is (Write, Close, and the
\* steps of the receiver that read nothing).
LEMMA PlaceStays ==
    ASSUME Inv, UNCHANGED <<sent, header, length, payload, read, received>>
    PROVE  FrameInv' /\ PlaceInv' /\ Total' = Total
<1>1. FrameInv' /\ Total' = Total /\ Begin' = Begin
  BY SameFrames DEF Begin
<1>2. QED
  BY <1>1 DEF Inv, PlaceInv, None

\* Bytes get into the stream (Write).
LEMMA WriteKeeps ==
    ASSUME WorkerChannelAssumption, Inv, Write
    PROVE  Inv'
<1>1. UNCHANGED <<sent, open, phase, pc, header, length, payload, read, received, error,
                  timeout, since, now>>
  BY DEF Write, receiver
<1>2. written' \in 0 .. Total /\ read \in 0 .. written'
  <2>1. written \in 0 .. Total /\ read \in 0 .. written /\ Total \in Nat
    BY TotalIsEnd DEF Inv, TypeOK
  <2>2. written' \in written + 1 .. Total
    BY DEF Write
  <2>3. QED
    BY <2>1, <2>2
<1>3. FrameInv' /\ PlaceInv' /\ Total' = Total
  BY <1>1, PlaceStays
<1>4. TypeOK'
  BY <1>1, <1>2, <1>3 DEF Inv, TypeOK, None
<1>5. ErrorInv' /\ TimeInv'
  BY <1>1 DEF Inv, ErrorInv, Unfit, TimeInv, Deadline
<1>6. QED
  BY <1>3, <1>4, <1>5 DEF Inv

\* The worker's end is closed; time passes for a receiver that is blocked; a read begins under
\* what is left of the deadline, or is interrupted (Close, Tick, Arm, Interrupted).
LEMMA WaitKeeps ==
    ASSUME WorkerChannelAssumption, Inv, Close \/ Tick \/ Arm \/ Interrupted
    PROVE  Inv'
<1>1. UNCHANGED <<sent, written, phase, header, length, payload, read, received, error>>
  BY DEF Close, Tick, Arm, Interrupted, sender, receiver
<1>2. FrameInv' /\ PlaceInv' /\ Total' = Total
  BY <1>1, PlaceStays
<1>3. ErrorInv'
  BY <1>1 DEF Inv, ErrorInv, Unfit
<1>4. /\ timeout \in 0 .. READY_TIMEOUT /\ now \in 0 .. MaxTime /\ since \in 0 .. now
      /\ READY_TIMEOUT \in Nat /\ MaxTime \in Nat /\ pc \in {"loop", "read"}
      /\ now \in Nat /\ since \in Nat /\ timeout \in Nat
      /\ phase \in {"start", "reader", "failed"} /\ Deadline = READY_TIMEOUT
  <2>1. /\ timeout \in 0 .. READY_TIMEOUT /\ now \in 0 .. MaxTime /\ since \in 0 .. now
        /\ pc \in {"loop", "read"} /\ phase \in {"start", "reader", "failed"}
    BY DEF Inv, TypeOK
  <2>2. READY_TIMEOUT \in Nat /\ MaxTime \in Nat /\ Deadline = READY_TIMEOUT
    BY Numbers
  <2>3. QED
    BY <2>1, <2>2
<1>5. /\ timeout' \in 0 .. READY_TIMEOUT /\ now' \in 0 .. MaxTime /\ since' \in 0 .. now'
      /\ pc' \in {"loop", "read"} /\ now <= now'
  <2>1. CASE Close
    BY <1>4, <2>1 DEF Close, receiver
  <2>2. CASE Tick
    BY <1>4, <2>2 DEF Tick, receiver
  <2>3. CASE Arm
    BY <1>4, <2>3 DEF Arm
  <2>4. CASE Interrupted
    BY <1>4, <2>4 DEF Interrupted
  <2>5. QED
    BY <2>1, <2>2, <2>3, <2>4
<1>6. TypeOK'
  BY <1>1, <1>2, <1>5 DEF Inv, TypeOK, None
<1>7. error = "timed out" => received = << >> /\ now' >= Deadline
  <2>1. error = "timed out" => received = << >> /\ now >= Deadline
    BY DEF Inv, TimeInv
  <2>2. now >= Deadline => now' >= Deadline
    BY <1>4, <1>5
  <2>3. QED
    BY <2>1, <2>2
<1>8. phase = "reader" => timeout' = 0
  BY DEF Inv, TimeInv, Close, Tick, Arm, Interrupted, receiver
<1>9. phase = "start" => /\ received = << >> /\ now' <= Deadline
                         /\ pc' = "read" => timeout' # 0 /\ since' + timeout' = Deadline
  <2>1. SUFFICES ASSUME phase = "start"
                 PROVE  /\ now' <= Deadline
                        /\ pc' = "read" => timeout' # 0 /\ since' + timeout' = Deadline
    BY DEF Inv, TimeInv
  <2>2. now <= Deadline /\ (pc = "read" => timeout # 0 /\ since + timeout = Deadline)
    BY <2>1 DEF Inv, TimeInv
  <2>3. CASE Close
    BY <2>2, <2>3 DEF Close, receiver
  <2>4. CASE Tick
    BY <1>4, <2>2, <2>4 DEF Tick, receiver
  <2>5. CASE Arm
    BY <1>4, <2>1, <2>2, <2>5 DEF Arm
  <2>6. CASE Interrupted
    BY <2>2, <2>6 DEF Interrupted
  <2>7. QED
    BY <2>3, <2>4, <2>5, <2>6
<1>10. TimeInv'
  BY <1>1, <1>7, <1>8, <1>9 DEF TimeInv, Deadline
<1>11. QED
  BY <1>2, <1>3, <1>6, <1>10 DEF Inv

-----------------------------------------------------------------------------
(* The locker's end *)

\* A connection fails for a reason it has (Fail).
LEMMA FailKeeps ==
    ASSUME WorkerChannelAssumption, Inv, phase # "failed",
           NEW e \in {"timed out", "closed", "invalid", "unexpected worker"}, Fail(e),
           e = "timed out" => received = << >> /\ now >= Deadline,
           e = "invalid" => Len(received) + 1 <= Len(sent) /\ Unfit(Len(received) + 1)
    PROVE  Inv'
<1>1. /\ error' = e /\ phase' = "failed"
      /\ UNCHANGED <<sent, written, open, pc, header, length, payload, read, received, timeout,
                     since, now>>
  BY DEF Fail, sender
<1>2. FrameInv' /\ PlaceInv' /\ Total' = Total
  BY <1>1, PlaceStays
<1>3. TypeOK'
  BY <1>1, <1>2 DEF Inv, TypeOK, None
<1>4. ErrorInv' /\ TimeInv'
  BY <1>1 DEF ErrorInv, Unfit, TimeInv, Deadline
<1>5. QED
  BY <1>2, <1>3, <1>4 DEF Inv

\* The wait for Ready is over, or the worker has gone: only the wait for Ready has a deadline
\* (read_exact_or_closed).
LEMMA GivesUpKeeps ==
    ASSUME WorkerChannelAssumption, Inv, Elapsed \/ ReadsNothing \/ ReadTimesOut
    PROVE  Inv'
<1>1. CASE Elapsed
  <2>1. received = << >> /\ now >= Deadline /\ phase # "failed" /\ Fail("timed out")
    BY <1>1 DEF Inv, TimeInv, Elapsed
  <2>2. QED
    BY <2>1, FailKeeps
<1>2. CASE ReadsNothing
  <2>1. phase # "failed" /\ Fail("closed")
    BY <1>2 DEF ReadsNothing
  <2>2. QED
    BY <2>1, FailKeeps
<1>3. CASE ReadTimesOut
  <2>1. /\ phase # "failed" /\ pc = "read" /\ timeout # 0 /\ now >= since + timeout
        /\ Fail("timed out")
    BY <1>3 DEF ReadTimesOut
  <2>2. phase = "start"
    BY <2>1 DEF Inv, TypeOK, TimeInv
  <2>3. received = << >> /\ now >= Deadline
    BY <2>1, <2>2 DEF Inv, TimeInv
  <2>4. QED
    BY <2>1, <2>3, FailKeeps
<1>4. QED
  BY <1>1, <1>2, <1>3

\* A piece of the frame, no more than is missing of it (Read).
LEMMA ReadKeeps ==
    ASSUME WorkerChannelAssumption, Inv, Read
    PROVE  Inv'
<1>1. PICK count \in 1 .. Wanted :
        /\ read' = read + count
        /\ IF InHeader THEN header' = header + count /\ UNCHANGED payload
                       ELSE payload' = payload + count /\ UNCHANGED header
  BY DEF Read
<1>2. /\ read < written /\ phase # "failed" /\ pc' = "loop"
      /\ UNCHANGED <<sent, written, open, phase, length, received, error, timeout, since, now>>
  BY DEF Read, sender
<1>3. /\ written \in 0 .. Total /\ read \in 0 .. written /\ header \in 0 .. HEADER_BYTES
      /\ length \in 0 .. None /\ payload \in 0 .. length /\ Total \in Nat /\ Begin \in Nat
      /\ HEADER_BYTES \in Nat /\ None \in Nat
  BY TotalIsEnd, Numbers DEF Inv, TypeOK
<1>4. Missing \in Int
  BY <1>3 DEF Missing
<1>5. count \in Nat /\ count <= written - read /\ count <= Missing
  <2>1. written - read \in Int
    BY <1>3
  <2>2. Min({written - read, Missing}) \in {written - read, Missing}
        /\ Min({written - read, Missing}) <= written - read
        /\ Min({written - read, Missing}) <= Missing
    <3>1. \E x \in {written - read, Missing} : \A y \in {written - read, Missing} : x <= y
      BY <1>4, <2>1
    <3>2. QED
      BY <3>1 DEF Min
  <2>3. QED
    BY <1>1, <1>4, <2>1, <2>2 DEF Wanted
<1>6. FrameInv' /\ Total' = Total /\ Begin' = Begin
  BY <1>2, SameFrames DEF Begin
<1>7. /\ read' \in 0 .. written /\ header' \in 0 .. HEADER_BYTES /\ payload' \in 0 .. length
      /\ read' = Begin + header' + payload'
      /\ length = None => payload' = 0
      /\ length # None => header' = header
  <2>1. read = Begin + header + payload
    BY DEF Inv, PlaceInv
  <2>2. CASE InHeader
    <3>1. header' = header + count /\ payload' = payload /\ count <= HEADER_BYTES - header
      BY <1>1, <1>5, <2>2 DEF Missing
    <3>2. payload = 0 /\ length = None
      BY <2>2 DEF InHeader, Inv, PlaceInv
    <3>3. QED
      BY <1>1, <1>3, <1>5, <2>1, <3>1, <3>2
  <2>3. CASE ~InHeader
    <3>1. payload' = payload + count /\ header' = header /\ count <= length - payload
      BY <1>1, <1>5, <2>3 DEF Missing
    <3>2. length # None
      BY <2>3 DEF InHeader
    <3>3. QED
      BY <1>1, <1>3, <1>5, <2>1, <3>1, <3>2
  <2>4. QED
    BY <2>2, <2>3
<1>8. PlaceInv'
  BY <1>2, <1>6, <1>7 DEF Inv, PlaceInv, None
<1>9. TypeOK'
  BY <1>2, <1>6, <1>7 DEF Inv, TypeOK, None
<1>10. ErrorInv' /\ TimeInv'
  BY <1>2 DEF Inv, ErrorInv, Unfit, TimeInv, Deadline
<1>11. QED
  BY <1>6, <1>8, <1>9, <1>10 DEF Inv

\* The bytes taken for a header are that of the next frame, which is refused only if it comes
\* from a worker of another build (HeaderRead).
LEMMA HeaderKeeps ==
    ASSUME WorkerChannelAssumption, Inv, HeaderRead
    PROVE  Inv'
<1> DEFINE k == Len(received) + 1
<1>1. /\ phase # "failed" /\ length = None /\ header = HEADER_BYTES /\ payload = 0
      /\ HEADER_BYTES \in Nat /\ HEADER_BYTES > 0
  <2>1. phase # "failed" /\ length = None /\ HEADER_BYTES - header = 0
    BY DEF HeaderRead, InHeader, Missing
  <2>2. header \in 0 .. HEADER_BYTES /\ payload = 0
    BY <2>1 DEF Inv, TypeOK, PlaceInv
  <2>3. QED
    BY <2>1, <2>2, Numbers
<1>2. k \in 1 .. Len(sent)
  <2>1. header + payload > 0
    BY <1>1
  <2>2. QED
    BY <2>1, FrameIsThere
<1>3. /\ sent[k].start = Begin /\ Begin \in Nat /\ Len(sent) \in Nat /\ Len(received) \in Nat
      /\ sent[k].start + HEADER_BYTES = read /\ DOMAIN sent = 1 .. Len(sent)
  <2>1. sent[k].start = Begin /\ Begin \in Nat /\ Len(sent) \in Nat /\ Len(received) \in Nat
    BY <1>2, TotalIsEnd
  <2>2. read = Begin + header + payload /\ DOMAIN sent = 1 .. Len(sent)
    BY DEF Inv, PlaceInv, FrameInv
  <2>3. QED
    BY <1>1, <2>1, <2>2
<1>4. ASSUME NEW i \in Headers
      PROVE  i = k
  <2>1. i \in 1 .. Len(sent) /\ sent[i].start + HEADER_BYTES = read
    BY <1>3 DEF Headers
  <2>2. sent[i].start \in Nat
    BY <2>1, TotalIsEnd DEF Frames
  <2>3. sent[i].start = sent[k].start
    BY <1>1, <1>3, <2>1, <2>2
  <2>4. QED
    BY <1>2, <2>1, <2>3, StartsDiffer
<1>5. ~Refused(k)
  <2>1. sent[k].length <= MAX_PAYLOAD_BYTES /\ sent[k].length \in Nat
    BY <1>2, TotalIsEnd DEF Inv, FrameInv, Frames
  <2>2. QED
    BY <2>1, Numbers DEF Refused
<1>6. CASE Fail("invalid") /\ \A i \in Headers : Refused(i)
  <2>1. k \notin Headers
    BY <1>5, <1>6
  <2>2. Unfit(k)
    BY <1>2, <1>3, <2>1 DEF Headers, Unfit
  <2>3. k <= Len(sent)
    BY <1>2
  <2>4. QED
    BY <1>1, <1>6, <2>2, <2>3, FailKeeps
<1>7. CASE \E i \in Headers :
             /\ ~Refused(i)
             /\ length' = sent[i].length /\ payload' = 0
             /\ UNCHANGED <<sender, phase, pc, header, read, received, error, timeout, since, now>>
  <2>1. /\ length' = sent[k].length /\ payload' = 0
        /\ UNCHANGED <<sent, written, open, phase, pc, header, read, received, error, timeout,
                       since, now>>
    BY <1>4, <1>7 DEF sender
  <2>2. FrameInv' /\ Total' = Total /\ Begin' = Begin
    BY <2>1, SameFrames DEF Begin
  <2>3. length' \in 0 .. None /\ length' \in Nat /\ length' # None
    <3>1. sent[k].length <= MAX_PAYLOAD_BYTES /\ sent[k].length \in Nat
      BY <1>2, TotalIsEnd DEF Inv, FrameInv, Frames
    <3>2. QED
      BY <2>1, <3>1, Numbers
  <2>4. PlaceInv'
    BY <1>1, <1>2, <1>3, <2>1, <2>2, <2>3 DEF Inv, PlaceInv, None
  <2>5. TypeOK'
    <3>1. payload' \in 0 .. length'
      BY <2>1, <2>3
    <3>2. length' \in (0 .. None)'
      BY <2>3 DEF None
    <3>3. QED
      BY <2>1, <2>2, <3>1, <3>2 DEF Inv, TypeOK
  <2>6. ErrorInv' /\ TimeInv'
    BY <2>1 DEF Inv, ErrorInv, Unfit, TimeInv, Deadline
  <2>7. QED
    BY <2>2, <2>4, <2>5, <2>6 DEF Inv
<1>8. QED
  BY <1>6, <1>7 DEF HeaderRead

\* The payload is that of the next frame; what the sender let pass decodes, but for a NUL in a
\* text, and start_with_worker hands the socket on without its timeout (PayloadRead).
LEMMA PayloadKeeps ==
    ASSUME WorkerChannelAssumption, Inv, PayloadRead
    PROVE  Inv'
<1> DEFINE n == Len(received)
           k == n + 1
<1>1. /\ phase # "failed" /\ pc = "loop" /\ length # None /\ length - payload = 0
      /\ header = HEADER_BYTES /\ k <= Len(sent) /\ length = sent[k].length
  BY DEF PayloadRead, InHeader, Missing, Inv, PlaceInv
<1>2. /\ Len(sent) \in Nat /\ n \in Nat /\ sent[k] \in Frames /\ k \in 1 .. Len(sent)
      /\ sent[k].start = Begin /\ Begin \in Nat /\ End(k) \in Nat
      /\ DOMAIN sent = 1 .. Len(sent) /\ HEADER_BYTES \in Nat
  <2>1. Len(sent) \in Nat /\ n \in Nat /\ sent[k].start = Begin /\ Begin \in Nat
    BY <1>1, TotalIsEnd
  <2>2. k \in 1 .. Len(sent)
    BY <1>1, <2>1
  <2>3. QED
    BY <2>1, <2>2, TotalIsEnd, Numbers DEF Inv, FrameInv
<1>3. sent[k].message \in Messages /\ sent[k].length \in Nat /\ payload = length
  <2>1. sent[k].message \in Messages /\ sent[k].length \in Nat
    BY <1>2 DEF Frames
  <2>2. payload \in 0 .. length
    BY DEF Inv, TypeOK
  <2>3. QED
    BY <1>1, <2>1, <2>2
<1>4. read = sent[k].start + HEADER_BYTES + length
  BY <1>1, <1>2, <1>3 DEF Inv, PlaceInv
<1>5. Frame = k
  <2>1. ASSUME NEW i \in DOMAIN sent, sent[i].start + HEADER_BYTES + length = read
        PROVE  i = k
    <3>1. i \in 1 .. Len(sent) /\ sent[i].start \in Nat
      BY <1>2, TotalIsEnd DEF Frames
    <3>2. \A a, b, h, l \in Nat : a + h + l = b + h + l => a = b
      OBVIOUS
    <3>3. sent[i].start = sent[k].start
      BY <1>1, <1>2, <1>3, <1>4, <2>1, <3>1, <3>2
    <3>4. QED
      BY <1>2, <3>1, <3>3, StartsDiffer
  <2>2. k \in DOMAIN sent /\ sent[k].start + HEADER_BYTES + length = read
    BY <1>2, <1>4
  <2>3. QED
    BY <2>1, <2>2 DEF Frame
<1> DEFINE m == sent[k].message
<1>6. m.nul \/ decode(m, length)
  <2>1. encode(m) /\ length = Fixed(m.kind) + m.size
    BY <1>1, <1>2 DEF Inv, FrameInv
  <2>2. QED
    BY <1>3, <2>1, EncodedIsDecoded
<1>7. CASE ~decode(m, length) /\ Fail("invalid")
  <2>1. Unfit(k)
    BY <1>6, <1>7 DEF Unfit
  <2>2. QED
    BY <1>1, <1>7, <2>1, FailKeeps
<1>8. CASE Fail("unexpected worker")
  BY <1>1, <1>8, FailKeeps
<1>9. CASE /\ IF phase = "start" THEN Started(m) ELSE UNCHANGED <<phase, timeout>>
           /\ received' = Append(received, m)
           /\ header' = 0 /\ length' = None /\ payload' = 0
           /\ UNCHANGED <<sender, pc, read, error, since, now>>
  <2>1. UNCHANGED <<sent, written, open, pc, read, error, since, now>>
    BY <1>9 DEF sender
  <2>2. /\ phase' = "reader" /\ timeout' = 0
    <3>1. CASE phase = "start"
      BY <1>9, <3>1 DEF Started
    <3>2. CASE phase # "start"
      BY <1>1, <1>9, <3>2 DEF Inv, TypeOK, TimeInv
    <3>3. QED
      BY <3>1, <3>2
  <2>3. /\ received' \in Seq(Messages) /\ Len(received') = k /\ received'[k] = m
        /\ \A i \in 1 .. n : received'[i] = received[i]
    BY <1>2, <1>3, <1>9, AppendProperties DEF Inv, PlaceInv
  <2>4. FrameInv' /\ Total' = Total /\ \A i : End(i)' = End(i)
    BY <2>1, SameFrames
  <2>5. Begin' = End(k)
    <3>1. received' # << >>
      BY <1>2, <2>3
    <3>2. Begin' = IF received' = << >> THEN 0 ELSE End(Len(received))'
      BY DEF Begin
    <3>3. End(Len(received))' = End(k)
      BY <2>1, <2>3 DEF End
    <3>4. QED
      BY <3>1, <3>2, <3>3
  <2>6. read = End(k)
    BY <1>1, <1>4 DEF End
  <2>7. PlaceInv'
    <3>1. \A i \in 1 .. k : received'[i] = sent[i].message
      BY <1>2, <2>3 DEF Inv, PlaceInv
    <3>2. read' = Begin' + header' + payload'
      BY <1>2, <1>9, <2>1, <2>5, <2>6
    <3>3. QED
      BY <1>1, <1>9, <2>1, <2>3, <3>1, <3>2 DEF PlaceInv, None
  <2>8. TypeOK'
    <3>1. /\ header' \in 0 .. HEADER_BYTES /\ length' \in (0 .. None)' /\ payload' \in 0 .. length'
          /\ timeout' \in 0 .. READY_TIMEOUT
      BY <1>9, <2>2, Numbers DEF None
    <3>2. QED
      BY <2>1, <2>2, <2>4, <3>1 DEF Inv, TypeOK
  <2>9. ErrorInv' /\ TimeInv'
    <3>1. error' = "none"
      BY <1>1, <2>1 DEF Inv, ErrorInv
    <3>2. QED
      BY <2>2, <3>1 DEF ErrorInv, TimeInv
  <2>10. QED
    BY <2>4, <2>7, <2>8, <2>9 DEF Inv
<1>10. QED
  BY <1>5, <1>7, <1>8, <1>9 DEF PayloadRead

-----------------------------------------------------------------------------
(* Theorems *)

\* A connection starts with nothing sent, and now begins the wait for Ready.
LEMMA InitInv ==
    ASSUME WorkerChannelAssumption, Init
    PROVE  Inv
<1> USE Numbers DEF Init
<1>1. sent = << >> /\ received = << >> /\ Len(sent) = 0 /\ Len(received) = 0
  OBVIOUS
<1>2. Total = 0 /\ Begin = 0
  BY <1>1 DEF Total, Begin
<1>3. TypeOK
  BY <1>2 DEF TypeOK
<1>4. FrameInv
  BY <1>1 DEF FrameInv
<1>5. PlaceInv
  BY <1>1, <1>2 DEF PlaceInv
<1>6. ErrorInv /\ TimeInv
  BY DEF ErrorInv, TimeInv
<1>7. QED
  BY <1>3, <1>4, <1>5, <1>6 DEF Inv

\* Every step of the worker, the locker and the clock keeps the invariant.
LEMMA NextInv ==
    ASSUME WorkerChannelAssumption, Inv, [Next]_vars
    PROVE  Inv'
<1>1. ASSUME NEW m \in Messages, send(m)
      PROVE  Inv'
  BY <1>1, SendKeeps
<1>2. CASE Write
  BY <1>2, WriteKeeps
<1>3. CASE Close \/ Tick \/ Arm \/ Interrupted
  BY <1>3, WaitKeeps
<1>4. CASE Elapsed \/ ReadsNothing \/ ReadTimesOut
  BY <1>4, GivesUpKeeps
<1>5. CASE Read
  BY <1>5, ReadKeeps
<1>6. CASE HeaderRead
  BY <1>6, HeaderKeeps
<1>7. CASE PayloadRead
  BY <1>7, PayloadKeeps
<1>8. CASE UNCHANGED vars
  <2>1. UNCHANGED <<sent, written, phase, pc, header, length, payload, read, received, error,
                    timeout, since, now>>
    BY <1>8 DEF vars, sender, receiver
  <2>2. FrameInv' /\ PlaceInv' /\ Total' = Total
    BY <2>1, PlaceStays
  <2>3. TypeOK'
    BY <2>1, <2>2 DEF Inv, TypeOK, None
  <2>4. QED
    BY <2>1, <2>2, <2>3 DEF Inv, ErrorInv, Unfit, TimeInv, Deadline
<1>9. QED
  BY <1>1, <1>2, <1>3, <1>4, <1>5, <1>6, <1>7, <1>8 DEF Next

\* What the invariant says of messages and of time.
LEMMA InvImplies ==
    ASSUME Inv
    PROVE  TypeOK /\ ReceivedAsSent /\ SilentWorkerIsKept /\ StartEndsByDeadline
<1>1. ReceivedAsSent
  <2>1. DOMAIN received = 1 .. Len(received)
    BY DEF Inv, PlaceInv
  <2>2. QED
    BY <2>1 DEF Inv, PlaceInv, ErrorInv, Unfit, ReceivedAsSent
<1>2. SilentWorkerIsKept /\ StartEndsByDeadline
  BY DEF Inv, TimeInv, SilentWorkerIsKept, StartEndsByDeadline
<1>3. QED
  BY <1>1, <1>2 DEF Inv

\* The invariant holds in every behaviour of the channel.
THEOREM Invariance ==
    ASSUME WorkerChannelAssumption
    PROVE  Spec => []Inv
<1>1. Init => Inv
  BY InitInv
<1>2. Inv /\ [Next]_vars => Inv'
  BY NextInv
<1>3. QED
  BY <1>1, <1>2, PTL DEF Spec

\* Messages are received as they were sent however the stream is cut, and only a text with a
\* NUL or a worker of another build is refused (Connection::receive_before, decode).
THEOREM Framing ==
    ASSUME WorkerChannelAssumption
    PROVE  Spec => []ReceivedAsSent
<1>1. Inv => ReceivedAsSent
  BY InvImplies
<1>2. QED
  BY <1>1, Invariance, PTL

\* The wait for Ready ends by its deadline and not before, and no other wait times out
\* (read_exact_or_closed, start_with_worker).
THEOREM Timeouts ==
    ASSUME WorkerChannelAssumption
    PROVE  Spec => [](SilentWorkerIsKept /\ StartEndsByDeadline)
<1>1. Inv => SilentWorkerIsKept /\ StartEndsByDeadline
  BY InvImplies
<1>2. QED
  BY <1>1, Invariance, PTL
==============================================================================
