--------------------------- MODULE RtcmFramerProofs ---------------------------
(***************************************************************************)
(* The framer decodes the frames of the stream, for every stream, every    *)
(* way to cut it and every checksum function.                              *)
(*                                                                         *)
(* The conjunction of the four invariants is inductive.  The work is in    *)
(* the correspondence between buf_ and the stream: a candidate looks the   *)
(* same in both, because buf_ is a piece of the stream.                    *)
(*                                                                         *)
(* The last part is about the checksum: crc24q() of Crc24q.tla computes    *)
(* the remainder of RTCM 3 for every message, and no burst of up to 24     *)
(* wrong bits makes a message with its checksum look like another.         *)
(***************************************************************************)
EXTENDS RtcmFramer, Integers, WellFoundedInduction, SequenceTheorems, FiniteSetTheorems,
        TLAPS

IndInv == TypeOK /\ OnlyFramesDecoded /\ NoFrameLost /\ HeldBackOnlyIfIncomplete

------------------------------------------------------------------------------
(* Bytes and candidates. *)

\* The values that the ten bits of a length can have.
PayloadLengths == 0..1023

\* The length of a candidate follows from that of its payload.
LEMMA FrameRange ==
    ASSUME NEW b, NEW k, payload_len(b, k) \in PayloadLengths
    PROVE  /\ frame_len(b, k) \in Nat /\ 6 <= frame_len(b, k)
           /\ frame_len(b, k) <= MaxFrameLen
           /\ 3 + payload_len(b, k) \in Nat /\ 3 <= 3 + payload_len(b, k)
           /\ frame_len(b, k) = 3 + payload_len(b, k) + 3
<1> DEFINE p == payload_len(b, k)
<1>1. p \in 0..1023 /\ frame_len(b, k) = 3 + p + 3
  BY DEF frame_len, PayloadLengths
<1> HIDE DEF p
<1>2. frame_len(b, k) \in Nat /\ 6 <= frame_len(b, k) /\ frame_len(b, k) <= MaxFrameLen
  BY <1>1 DEF MaxFrameLen
<1>3. 3 + p \in Nat /\ 3 <= 3 + p
  BY <1>1
<1> QED
  BY <1>1, <1>2, <1>3, Zenon DEF p

\* A candidate is between 6 and 1029 bytes long.
LEMMA LengthRange ==
    ASSUME NEW b \in Seq(Byte), NEW k \in Nat, k + 3 <= Len(b)
    PROVE  /\ payload_len(b, k) \in PayloadLengths
           /\ frame_len(b, k) \in Nat
           /\ 6 <= frame_len(b, k)
           /\ frame_len(b, k) <= MaxFrameLen
<1>0. k + 2 \in 1..Len(b) /\ k + 3 \in 1..Len(b)
  OBVIOUS
<1> DEFINE x == b[k + 2]
           y == b[k + 3]
<1>1. x \in 0..255 /\ y \in 0..255
  BY <1>0, ElementOfSeq, Zenon DEF Byte
<1>2. payload_len(b, k) = (x % 4) * 256 + y
  BY Zenon DEF payload_len
<1> HIDE DEF x, y
<1> DEFINE z == x % 4
<1>3. z \in 0..3
  BY <1>1
<1> HIDE DEF z
<1>4. z * 256 + y \in PayloadLengths
  BY <1>1, <1>3 DEF PayloadLengths
<1>5. payload_len(b, k) \in PayloadLengths
  BY <1>2, <1>4, Zenon DEF z
<1> QED
  BY <1>5, FrameRange, Zenon

\* The stream is a sequence of bytes.
LEMMA WireType == TypeOK => wire \in Seq(Byte)
BY FramerAssumption DEF TypeOK

\* A piece of a piece of a sequence is a piece of the sequence.
LEMMA SubSubSeq ==
    ASSUME NEW w \in Seq(Byte), NEW f \in Nat, NEW t \in 0..Len(w), f <= t,
           NEW m \in Nat \ {0}, NEW n \in Nat, m <= n + 1, n <= t - f
    PROVE  SubSeq(SubSeq(w, f + 1, t), m, n) = SubSeq(w, f + m, f + n)
<1> DEFINE b == SubSeq(w, f + 1, t)
<1>1. /\ b \in Seq(Byte) /\ Len(b) = t - f
      /\ \A j \in 1..(t - f) : b[j] = w[f + j]
  OBVIOUS
<1> HIDE DEF b
<1>2. /\ SubSeq(b, m, n) \in Seq(Byte) /\ Len(SubSeq(b, m, n)) = n - m + 1
      /\ \A j \in 1..(n - m + 1) : SubSeq(b, m, n)[j] = b[m + j - 1]
  BY <1>1
<1>3. /\ SubSeq(w, f + m, f + n) \in Seq(Byte)
      /\ Len(SubSeq(w, f + m, f + n)) = n - m + 1
      /\ \A j \in 1..(n - m + 1) : SubSeq(w, f + m, f + n)[j] = w[f + m + j - 1]
  OBVIOUS
<1>4. \A j \in 1..(n - m + 1) : SubSeq(b, m, n)[j] = SubSeq(w, f + m, f + n)[j]
  <2> SUFFICES ASSUME NEW j \in 1..(n - m + 1)
               PROVE  SubSeq(b, m, n)[j] = SubSeq(w, f + m, f + n)[j]
    OBVIOUS
  <2>1. m + j - 1 \in 1..(t - f) /\ f + (m + j - 1) = f + m + j - 1
    OBVIOUS
  <2> QED
    BY <2>1, <1>1, <1>2, <1>3
<1>5. SubSeq(b, m, n) = SubSeq(w, f + m, f + n)
  BY <1>2, <1>3, <1>4, SeqEqual
<1> QED
  BY <1>5 DEF b

\* buf_ is the piece of the stream from base to got.
LEMMA BufType ==
    TypeOK => /\ buf_ \in Seq(Byte) /\ Len(buf_) = got - base
              /\ \A j \in 1..Len(buf_) : buf_[j] = wire[base + j]
<1> SUFFICES ASSUME TypeOK
             PROVE  /\ buf_ \in Seq(Byte) /\ Len(buf_) = got - base
                    /\ \A j \in 1..Len(buf_) : buf_[j] = wire[base + j]
  OBVIOUS
<1>1. /\ wire \in Seq(Byte) /\ got \in 0..Len(wire) /\ base \in Nat /\ i \in Nat
      /\ base + i <= got /\ buf_ = SubSeq(wire, base + 1, got)
  BY WireType DEF TypeOK
<1> QED
  BY <1>1

\* A candidate looks the same in buf_ and in the stream.
LEMMA SameCandidate ==
    ASSUME TypeOK, NEW k \in Nat, k < Len(buf_)
    PROVE  /\ AtPreamble(buf_, k) <=> AtPreamble(wire, base + k)
           /\ Complete(buf_, k) =>
                /\ Complete(wire, base + k)
                /\ frame_len(buf_, k) = frame_len(wire, base + k)
                /\ CrcMatches(buf_, k) <=> CrcMatches(wire, base + k)
<1>1. /\ wire \in Seq(Byte) /\ got \in 0..Len(wire) /\ base \in Nat
      /\ base <= got /\ buf_ = SubSeq(wire, base + 1, got)
  BY WireType DEF TypeOK
<1>2. /\ buf_ \in Seq(Byte) /\ Len(buf_) = got - base
      /\ \A j \in 1..Len(buf_) : buf_[j] = wire[base + j]
  BY BufType
<1>3. AtPreamble(buf_, k) <=> AtPreamble(wire, base + k)
  <2>1. k + 1 \in 1..Len(buf_) /\ base + (k + 1) = base + k + 1
    BY <1>1, <1>2
  <2>2. buf_[k + 1] = wire[base + k + 1]
    BY <2>1, <1>2
  <2> QED
    BY <1>1, <1>2, <2>2 DEF AtPreamble
<1>4. ASSUME Complete(buf_, k)
      PROVE  /\ Complete(wire, base + k)
             /\ frame_len(buf_, k) = frame_len(wire, base + k)
             /\ CrcMatches(buf_, k) <=> CrcMatches(wire, base + k)
  <2>1. k + 3 <= Len(buf_) /\ k + frame_len(buf_, k) <= Len(buf_)
    BY <1>4 DEF Complete
  <2>2. k + 2 \in 1..Len(buf_) /\ k + 3 \in 1..Len(buf_)
    BY <2>1, <1>2
  <2>3. base + (k + 2) = base + k + 2 /\ base + (k + 3) = base + k + 3
    BY <1>1
  <2>4. buf_[k + 2] = wire[base + k + 2] /\ buf_[k + 3] = wire[base + k + 3]
    BY <1>2, <2>2, <2>3
  <2>5. payload_len(buf_, k) = payload_len(wire, base + k)
    BY <2>4 DEF payload_len
  <2>6. frame_len(buf_, k) = frame_len(wire, base + k)
    BY <2>5 DEF frame_len
  <2>7. frame_len(buf_, k) \in Nat /\ payload_len(buf_, k) \in PayloadLengths
    <3>1. buf_ \in Seq(Byte) /\ k \in Nat /\ k + 3 <= Len(buf_)
      BY <1>2, <2>1
    <3>2. payload_len(buf_, k) \in PayloadLengths
      BY <3>1, LengthRange, Zenon
    <3> QED
      BY <3>2, FrameRange, Zenon
  <2>8. Complete(wire, base + k)
    BY <1>1, <1>2, <2>1, <2>6, <2>7 DEF Complete
  <2> DEFINE n == 3 + payload_len(buf_, k)
  <2>9. n \in Nat /\ 3 <= n /\ frame_len(buf_, k) = n + 3
    BY <2>7, FrameRange, Zenon
  <2> HIDE DEF n
  <2>10. n + k + 3 <= got - base
    BY <2>9, <2>1, <1>2, <1>1
  <2>11. SubSeq(buf_, k + n + 1, k + n + 3)
           = SubSeq(wire, base + (k + n + 1), base + (k + n + 3))
    <3> DEFINE from == k + n + 1
               to   == k + n + 3
    <3>1. /\ from \in Nat \ {0} /\ to \in Nat
          /\ from <= to + 1 /\ to <= got - base
      BY <2>9, <2>10, <1>1
    <3> HIDE DEF from, to
    <3>2. SubSeq(SubSeq(wire, base + 1, got), from, to)
            = SubSeq(wire, base + from, base + to)
      <4>1. wire \in Seq(Byte) /\ got \in 0..Len(wire) /\ base \in Nat /\ base <= got
        BY <1>1
      <4> QED
        BY <4>1, <3>1, SubSubSeq, SMT
    <3>3. SubSeq(buf_, from, to) = SubSeq(wire, base + from, base + to)
      BY <1>1, <3>2, Zenon
    <3> QED
      BY <3>3 DEF from, to
  <2>12. SubSeq(buf_, k + 1, k + n) = SubSeq(wire, base + (k + 1), base + (k + n))
    <3> DEFINE from == k + 1
               to   == k + n
    <3>1. /\ from \in Nat \ {0} /\ to \in Nat
          /\ from <= to + 1 /\ to <= got - base
      BY <2>9, <2>10, <1>1
    <3> HIDE DEF from, to
    <3>2. SubSeq(SubSeq(wire, base + 1, got), from, to)
            = SubSeq(wire, base + from, base + to)
      <4>1. wire \in Seq(Byte) /\ got \in 0..Len(wire) /\ base \in Nat /\ base <= got
        BY <1>1
      <4> QED
        BY <4>1, <3>1, SubSubSeq, SMT
    <3>3. SubSeq(buf_, from, to) = SubSeq(wire, base + from, base + to)
      BY <1>1, <3>2, Zenon
    <3> QED
      BY <3>3 DEF from, to
  <2>13. /\ base + (k + n + 1) = base + k + n + 1
         /\ base + (k + n + 3) = base + k + n + 3
         /\ base + (k + 1) = base + k + 1 /\ base + (k + n) = base + k + n
    BY <1>1, <2>9
  <2>14. CrcMatches(buf_, k) <=> CrcMatches(wire, base + k)
    BY <2>5, <2>11, <2>12, <2>13, Zenon DEF CrcMatches, n
  <2> QED
    BY <2>6, <2>8, <2>14
<1> QED
  BY <1>3, <1>4

\* A frame of the stream is at least six bytes long.
LEMMA FrameLength ==
    ASSUME TypeOK, NEW k \in Nat, Frame(k)
    PROVE  frame_len(wire, k) \in Nat /\ 6 <= frame_len(wire, k)
<1>1. wire \in Seq(Byte) /\ k \in Nat /\ k + 3 <= Len(wire)
  BY WireType DEF Frame, FrameIn, Complete
<1>2. payload_len(wire, k) \in PayloadLengths
  BY <1>1, LengthRange, Zenon
<1> QED
  BY <1>2, FrameRange, Zenon

\* What was pushed and what comes next are together a piece of the stream.
LEMMA ConcatSubSeq ==
    ASSUME NEW w \in Seq(Byte), NEW f \in Nat, NEW t \in Nat, f <= t,
           NEW n \in Nat, t + n <= Len(w)
    PROVE  SubSeq(w, f + 1, t) \o SubSeq(w, t + 1, t + n) = SubSeq(w, f + 1, t + n)
<1> DEFINE a == SubSeq(w, f + 1, t)
           b == SubSeq(w, t + 1, t + n)
           c == SubSeq(w, f + 1, t + n)
<1>1. /\ a \in Seq(Byte) /\ Len(a) = t - f /\ \A j \in 1..(t - f) : a[j] = w[f + j]
  OBVIOUS
<1>2. /\ b \in Seq(Byte) /\ Len(b) = n /\ \A j \in 1..n : b[j] = w[t + j]
  OBVIOUS
<1>3. /\ c \in Seq(Byte) /\ Len(c) = t + n - f
      /\ \A j \in 1..(t + n - f) : c[j] = w[f + j]
  OBVIOUS
<1> HIDE DEF a, b, c
<1>4. a \o b \in Seq(Byte) /\ Len(a \o b) = t + n - f
  <2>1. a \o b \in Seq(Byte) /\ Len(a \o b) = Len(a) + Len(b)
    BY <1>1, <1>2, ConcatProperties
  <2>2. (t - f) + n = t + n - f
    OBVIOUS
  <2> QED
    BY <1>1, <1>2, <2>1, <2>2
<1>5. \A j \in 1..(t + n - f) : (a \o b)[j] = c[j]
  <2> SUFFICES ASSUME NEW j \in 1..(t + n - f) PROVE (a \o b)[j] = c[j]
    OBVIOUS
  <2>1. CASE j <= t - f
    BY <2>1, <1>1, <1>2, <1>3
  <2>2. CASE j > t - f
    <3>1. j - (t - f) \in 1..n /\ t + (j - (t - f)) = f + j
      BY <2>2
    <3>2. (a \o b)[j] = b[j - (t - f)]
      BY <2>2, <1>1, <1>2
    <3> QED
      BY <3>1, <3>2, <1>2, <1>3
  <2>3. j <= t - f \/ j > t - f
    OBVIOUS
  <2> QED
    BY <2>1, <2>2, <2>3, Zenon
<1>6. a \o b = c
  BY <1>3, <1>4, <1>5, SeqEqual
<1> QED
  BY <1>6 DEF a, b, c

------------------------------------------------------------------------------
(* The steps. *)

\* A step that decodes nothing and moves on by at most one byte, at which no
\* frame starts, keeps the relation between the stream and what was decoded.
LEMMA MoveOn ==
    ASSUME IndInv, wire' = wire, decoded' = decoded,
           Done' = Done \/ (Done' = Done + 1 /\ ~Frame(Done))
    PROVE  OnlyFramesDecoded' /\ NoFrameLost'
<1>1. TypeOK /\ OnlyFramesDecoded /\ NoFrameLost
  BY DEF IndInv
<1>2. /\ Done \in Nat /\ decoded \in Seq(Nat) /\ wire \in Seq(Byte)
  BY <1>1, WireType DEF TypeOK, Done
<1>3. \A k \in Nat : Frame(k)' <=> Frame(k)
  BY DEF Frame
<1>4. \A k \in Nat : frame_len(wire', k) = frame_len(wire, k)
  OBVIOUS
<1>5. OnlyFramesDecoded'
  <2>1. ASSUME NEW n \in DOMAIN decoded
        PROVE  /\ Frame(decoded[n])'
               /\ decoded[n] + frame_len(wire, decoded[n]) <= Done'
    <3>1. decoded[n] \in Nat /\ Frame(decoded[n])
          /\ decoded[n] + frame_len(wire, decoded[n]) <= Done
      BY <1>1, <1>2 DEF OnlyFramesDecoded
    <3>2. frame_len(wire, decoded[n]) \in Nat
      BY <3>1, <1>1, FrameLength
    <3>3. decoded[n] + frame_len(wire, decoded[n]) <= Done'
      BY <3>1, <3>2, <1>2
    <3> QED
      BY <3>1, <3>3, <1>3
  <2>2. \A m, n \in DOMAIN decoded :
            m < n => decoded[m] + frame_len(wire, decoded[m]) <= decoded[n]
    BY <1>1 DEF OnlyFramesDecoded
  <2> QED
    BY <2>1, <2>2, Zenon DEF OnlyFramesDecoded
<1>6. NoFrameLost'
  <2> SUFFICES ASSUME NEW k \in 0..(Len(wire) - 1), Frame(k)', k < Done'
               PROVE  Inside(k)'
    BY DEF NoFrameLost
  <2>1. k \in Nat /\ Frame(k)
    BY <1>3, <1>2
  <2>2. k < Done
    BY <2>1, <1>2
  <2>3. Inside(k)
    BY <2>1, <2>2, <1>1 DEF NoFrameLost
  <2> QED
    BY <2>3 DEF Inside
<1> QED
  BY <1>5, <1>6

\* push() appends the next bytes of the stream.
LEMMA PushStep == ASSUME IndInv, NEW n \in Nat, push(n) PROVE IndInv'
<1>1. /\ TypeOK /\ wire \in Seq(Byte) /\ wire \in Wires
      /\ got \in Nat /\ base \in Nat /\ i = 0 /\ base <= got
      /\ buf_ = SubSeq(wire, base + 1, got)
  BY WireType DEF IndInv, TypeOK, push
<1>2. /\ got + n <= Len(wire) /\ got' = got + n /\ i' = 0 /\ base' = base
      /\ wire' = wire /\ decoded' = decoded /\ pc' = "scan"
      /\ buf_' = buf_ \o SubSeq(wire, got + 1, got + n)
  BY DEF push
<1>3. buf_' = SubSeq(wire, base + 1, got + n)
  BY <1>1, <1>2, ConcatSubSeq
<1>4. TypeOK'
  <2>1. got' \in 0..Len(wire') /\ base' + i' <= got'
    BY <1>1, <1>2
  <2>2. buf_' = SubSeq(wire', base' + 1, got')
    BY <1>2, <1>3
  <2> QED
    BY <1>1, <1>2, <2>1, <2>2 DEF TypeOK, push
<1>5. Done' = Done
  BY <1>1, <1>2 DEF Done
<1>6. OnlyFramesDecoded' /\ NoFrameLost'
  BY <1>2, <1>5, MoveOn
<1>7. HeldBackOnlyIfIncomplete'
  BY <1>2 DEF HeldBackOnlyIfIncomplete
<1> QED
  BY <1>4, <1>6, <1>7 DEF IndInv

\* Skipping a byte: no frame starts without a preamble.
LEMMA SkipStep == ASSUME IndInv, SkipByte PROVE IndInv'
<1>1. /\ TypeOK /\ i \in Nat /\ base \in Nat /\ got \in Nat
  BY DEF IndInv, TypeOK
<1>2. /\ i < Len(buf_) /\ ~AtPreamble(buf_, i) /\ i' = i + 1 /\ pc' = pc
      /\ pc = "scan" /\ base' = base /\ got' = got /\ buf_' = buf_
      /\ wire' = wire /\ decoded' = decoded
  BY DEF SkipByte
<1>3. Len(buf_) = got - base
  BY <1>1, BufType
<1>4. TypeOK'
  <2>1. base' + i' <= got' /\ i' \in Nat
    BY <1>1, <1>2, <1>3
  <2> QED
    BY <1>1, <1>2, <2>1 DEF TypeOK, SkipByte
<1>5. Done' = Done + 1 /\ ~Frame(Done)
  <2>1. ~AtPreamble(wire, base + i)
    BY <1>1, <1>2, SameCandidate, Zenon
  <2> QED
    BY <1>1, <1>2, <2>1 DEF Done, Frame, FrameIn
<1>6. OnlyFramesDecoded' /\ NoFrameLost'
  BY <1>2, <1>5, MoveOn
<1>7. HeldBackOnlyIfIncomplete'
  BY <1>2 DEF HeldBackOnlyIfIncomplete
<1> QED
  BY <1>4, <1>6, <1>7 DEF IndInv

\* Rejecting a candidate: it is no frame in the stream either.
LEMMA BadCrcStep == ASSUME IndInv, BadCrc PROVE IndInv'
<1>1. /\ TypeOK /\ i \in Nat /\ base \in Nat /\ got \in Nat
  BY DEF IndInv, TypeOK
<1>2. /\ AtPreamble(buf_, i) /\ Complete(buf_, i) /\ ~CrcMatches(buf_, i)
      /\ i' = i + 1 /\ pc' = pc
      /\ pc = "scan" /\ base' = base /\ got' = got /\ buf_' = buf_
      /\ wire' = wire /\ decoded' = decoded
  BY DEF BadCrc
<1>3. Len(buf_) = got - base /\ i < Len(buf_)
  BY <1>1, <1>2, BufType DEF AtPreamble
<1>4. TypeOK'
  <2>1. base' + i' <= got' /\ i' \in Nat
    BY <1>1, <1>2, <1>3
  <2>2. frames_bad_crc_' \in Nat
    BY <1>1 DEF BadCrc, TypeOK
  <2> QED
    BY <1>1, <1>2, <2>1, <2>2 DEF TypeOK, BadCrc
<1>5. Done' = Done + 1 /\ ~Frame(Done)
  <2>1. ~CrcMatches(wire, base + i)
    BY <1>1, <1>2, <1>3, SameCandidate, Zenon
  <2> QED
    BY <1>1, <1>2, <2>1 DEF Done, Frame, FrameIn
<1>6. OnlyFramesDecoded' /\ NoFrameLost'
  BY <1>2, <1>5, MoveOn
<1>7. HeldBackOnlyIfIncomplete'
  BY <1>2 DEF HeldBackOnlyIfIncomplete
<1> QED
  BY <1>4, <1>6, <1>7 DEF IndInv

\* Decoding a frame: it is the next one of the stream, and it covers all the
\* offsets the cursor passes.
LEMMA FrameOkStep == ASSUME IndInv, FrameOk PROVE IndInv'
<1> DEFINE len == frame_len(wire, Done)
<1>1. /\ TypeOK /\ OnlyFramesDecoded /\ NoFrameLost
      /\ i \in Nat /\ base \in Nat /\ got \in Nat /\ got <= Len(wire)
      /\ wire \in Seq(Byte) /\ decoded \in Seq(Nat) /\ frames_ok_ \in Nat
  BY WireType DEF IndInv, TypeOK
<1>2. /\ AtPreamble(buf_, i) /\ Complete(buf_, i) /\ CrcMatches(buf_, i)
      /\ i' = i + frame_len(buf_, i) /\ pc' = pc
      /\ pc = "scan" /\ base' = base /\ got' = got /\ buf_' = buf_
      /\ wire' = wire /\ decoded' = Append(decoded, Done)
      /\ frames_ok_' = frames_ok_ + 1 /\ frames_bad_crc_' = frames_bad_crc_
  BY DEF FrameOk, Done
<1>3. Len(buf_) = got - base /\ i < Len(buf_) /\ i + frame_len(buf_, i) <= Len(buf_)
  BY <1>1, <1>2, BufType DEF AtPreamble, Complete
<1>4. frame_len(buf_, i) = len /\ Frame(Done)
  BY <1>1, <1>2, <1>3, SameCandidate, Zenon DEF Done, Frame, FrameIn
<1>5. Done \in Nat /\ len \in Nat /\ 6 <= len
  <2>1. Done \in Nat
    BY <1>1 DEF Done
  <2> QED
    BY <2>1, <1>1, <1>4, FrameLength, Zenon
<1> HIDE DEF len
<1>6. i' = i + len /\ i' \in Nat /\ base' + i' <= got' /\ Done' = Done + len
  BY <1>1, <1>2, <1>3, <1>4, <1>5 DEF Done
<1>7. TypeOK'
  <2>1. frames_ok_' \in Nat /\ decoded' \in Seq(Nat)
    BY <1>1, <1>2, <1>5
  <2> QED
    BY <1>1, <1>2, <1>6, <2>1 DEF TypeOK
<1>8. \A k \in Nat : Frame(k)' <=> FrameIn(wire, k)
  BY <1>2 DEF Frame
<1>9. /\ DOMAIN decoded' = DOMAIN decoded \cup {Len(decoded) + 1}
      /\ Len(decoded) + 1 \notin DOMAIN decoded
      /\ \A n \in DOMAIN decoded : decoded'[n] = decoded[n] /\ n < Len(decoded) + 1
      /\ decoded'[Len(decoded) + 1] = Done
      /\ DOMAIN decoded = 1..Len(decoded) /\ Len(decoded) \in Nat
  BY <1>1, <1>2, <1>5
<1>10. \A n \in DOMAIN decoded :
          /\ decoded[n] \in Nat /\ Frame(decoded[n])
          /\ frame_len(wire, decoded[n]) \in Nat
          /\ decoded[n] + frame_len(wire, decoded[n]) <= Done
  BY <1>1, FrameLength DEF OnlyFramesDecoded
<1>11. OnlyFramesDecoded'
  <2>1. ASSUME NEW n \in DOMAIN decoded'
        PROVE  /\ FrameIn(wire, decoded'[n])
               /\ decoded'[n] + frame_len(wire, decoded'[n]) <= Done'
    <3>1. CASE n = Len(decoded) + 1
      <4>1. decoded'[n] = Done
        BY <3>1, <1>9
      <4>2. FrameIn(wire, Done)
        BY <1>4 DEF Frame
      <4>3. Done + len <= Done'
        BY <1>5, <1>6
      <4>4. Done + frame_len(wire, Done) <= Done'
        BY <4>3 DEF len
      <4> QED
        BY <4>1, <4>2, <4>4, Zenon
    <3>2. CASE n \in DOMAIN decoded
      <4>1. decoded'[n] = decoded[n]
        BY <3>2, <1>9
      <4> DEFINE fl == frame_len(wire, decoded[n])
      <4>2. /\ decoded[n] \in Nat /\ FrameIn(wire, decoded[n])
            /\ fl \in Nat /\ decoded[n] + fl <= Done
        BY <3>2, <1>10, Zenon DEF Frame
      <4> HIDE DEF fl
      <4>3. decoded[n] + fl <= Done'
        BY <4>2, <1>5, <1>6
      <4>4. decoded[n] + frame_len(wire, decoded[n]) <= Done'
        BY <4>3 DEF fl
      <4> QED
        BY <4>1, <4>2, <4>4, Zenon
    <3> QED
      BY <3>1, <3>2, <1>9
  <2>2. ASSUME NEW m \in DOMAIN decoded', NEW n \in DOMAIN decoded', m < n
        PROVE  decoded'[m] + frame_len(wire, decoded'[m]) <= decoded'[n]
    <3>1. m \in DOMAIN decoded /\ decoded'[m] = decoded[m]
      BY <1>9, <2>2
    <3>2. CASE n = Len(decoded) + 1
      BY <3>1, <3>2, <1>9, <1>10
    <3>3. CASE n \in DOMAIN decoded
      <4>1. decoded'[n] = decoded[n]
        BY <3>3, <1>9
      <4>2. decoded[m] + frame_len(wire, decoded[m]) <= decoded[n]
        BY <3>1, <3>3, <2>2, <1>1, Zenon DEF OnlyFramesDecoded
      <4> QED
        BY <4>1, <4>2, <3>1, Zenon
    <3> QED
      BY <3>2, <3>3, <1>9
  <2>3. wire' = wire
    BY <1>2
  <2> QED
    BY <2>1, <2>2, <2>3, Zenon DEF OnlyFramesDecoded, Frame
<1>12. NoFrameLost'
  <2> SUFFICES ASSUME NEW k \in 0..(Len(wire') - 1), Frame(k)', k < Done'
               PROVE  Inside(k)'
    BY DEF NoFrameLost
  <2>1. k \in Nat /\ k \in 0..(Len(wire) - 1) /\ wire' = wire
    BY <1>1, <1>2
  <2>2. Frame(k)
    BY <2>1, <1>8 DEF Frame
  <2>3. CASE k < Done
    <3>1. PICK n \in DOMAIN decoded :
             decoded[n] <= k /\ k < decoded[n] + frame_len(wire, decoded[n])
      BY <2>1, <2>2, <2>3, <1>1, Zenon DEF NoFrameLost, Inside
    <3>2. n \in DOMAIN decoded' /\ decoded'[n] = decoded[n]
      BY <3>1, <1>9
    <3> QED
      BY <3>1, <3>2, <2>1, Zenon DEF Inside
  <2>4. CASE Done <= k
    <3>1. k < Done + len
      BY <1>6
    <3>2. Len(decoded) + 1 \in DOMAIN decoded' /\ decoded'[Len(decoded) + 1] = Done
      BY <1>9
    <3> QED
      BY <2>1, <2>4, <3>1, <3>2, Zenon DEF Inside, len
  <2>5. k < Done \/ Done <= k
    BY <2>1, <1>5
  <2> QED
    BY <2>3, <2>4, <2>5, Zenon
<1>13. HeldBackOnlyIfIncomplete'
  BY <1>2 DEF HeldBackOnlyIfIncomplete
<1> QED
  BY <1>7, <1>11, <1>12, <1>13 DEF IndInv

\* Returning: an incomplete candidate is short of the buffer's limit, so that
\* exactly the scanned bytes are erased.
LEMMA ReturnStep == ASSUME IndInv, Return PROVE IndInv' /\ Done' = Done
<1>1. /\ TypeOK /\ i \in Nat /\ base \in Nat /\ got \in 0..Len(wire)
      /\ base + i <= got /\ wire \in Seq(Byte) /\ MaxBuffer \in Nat
      /\ buf_ = SubSeq(wire, base + 1, got)
  BY WireType, FramerAssumption DEF IndInv, TypeOK
<1>2. /\ i < Len(buf_) => AtPreamble(buf_, i) /\ ~Complete(buf_, i)
      /\ buf_' = Kept(buf_, i) /\ base' = base + Len(buf_) - Len(Kept(buf_, i))
      /\ i' = 0 /\ pc' = "idle" /\ got' = got /\ wire' = wire /\ decoded' = decoded
      /\ UNCHANGED <<frames_ok_, frames_bad_crc_>>
  BY DEF Return
<1>3. buf_ \in Seq(Byte) /\ Len(buf_) = got - base /\ i <= Len(buf_)
  BY <1>1, BufType
<1> DEFINE rest == SubSeq(buf_, i + 1, Len(buf_))
<1>4. /\ rest \in Seq(Byte) /\ Len(rest) = Len(buf_) - i
      /\ \A j \in 1..Len(rest) : rest[j] = buf_[i + j]
  BY <1>1, <1>3
<1>5. ASSUME i < Len(buf_), i + 3 <= Len(buf_)
      PROVE  /\ frame_len(buf_, i) \in Nat /\ frame_len(buf_, i) <= MaxFrameLen
             /\ Len(buf_) < i + frame_len(buf_, i)
  <2>1. frame_len(buf_, i) \in Nat /\ frame_len(buf_, i) <= MaxFrameLen
    <3>1. buf_ \in Seq(Byte) /\ i \in Nat /\ i + 3 <= Len(buf_)
      BY <1>1, <1>3, <1>5
    <3>2. payload_len(buf_, i) \in PayloadLengths
      BY <3>1, LengthRange, ZenonT(60)
    <3> QED
      BY <3>2, FrameRange, Zenon
  <2>2. ~(i + frame_len(buf_, i) <= Len(buf_))
    BY <1>2, <1>5 DEF Complete
  <2> QED
    BY <2>1, <2>2, <1>1, <1>3
<1>6. Len(rest) < MaxFrameLen
  <2>1. CASE i < Len(buf_) /\ i + 3 <= Len(buf_)
    BY <2>1, <1>5, <1>4, <1>3, <1>1 DEF MaxFrameLen
  <2>2. CASE ~(i < Len(buf_) /\ i + 3 <= Len(buf_))
    BY <2>2, <1>4, <1>3, <1>1 DEF MaxFrameLen
  <2> QED
    BY <2>1, <2>2
<1>7. buf_' = rest /\ base' = base + i
  <2>1. ~(Len(rest) > MaxBuffer)
    BY <1>6, <1>4, <1>3, <1>1, FramerAssumption DEF MaxFrameLen
  <2>2. Kept(buf_, i) = rest
    BY <2>1 DEF Kept
  <2>3. base' = base + Len(buf_) - Len(rest)
    BY <2>2, <1>2, Zenon
  <2> HIDE DEF rest
  <2> QED
    BY <2>2, <2>3, <1>2, <1>4, <1>3, <1>1
<1>8. rest = SubSeq(wire, base + i + 1, got)
  <2> DEFINE n == Len(buf_)
             m == i + 1
  <2>1. /\ n \in Nat /\ m \in Nat \ {0} /\ m <= n + 1 /\ n <= got - base /\ base <= got
        /\ base + n = got /\ base + m = base + i + 1
    BY <1>1, <1>3
  <2> HIDE DEF n, m
  <2>2. SubSeq(SubSeq(wire, base + 1, got), m, n) = SubSeq(wire, base + m, base + n)
    <3>1. wire \in Seq(Byte) /\ got \in 0..Len(wire) /\ base \in Nat
      BY <1>1
    <3> QED
      BY <3>1, <2>1, SubSubSeq, SMT
  <2>3. SubSeq(buf_, m, n) = SubSeq(wire, base + m, base + n)
    BY <2>2, <1>1, Zenon
  <2>4. SubSeq(buf_, m, n) = SubSeq(wire, base + i + 1, got)
    BY <2>1, <2>3, Zenon
  <2> QED
    BY <2>4, Zenon DEF n, m
<1> HIDE DEF rest
<1>9. TypeOK'
  <2>1. base' \in Nat /\ i' \in Nat /\ base' + i' <= got'
    BY <1>1, <1>2, <1>7
  <2>2. buf_' = SubSeq(wire', base' + 1, got')
    BY <1>2, <1>7, <1>8, Zenon
  <2> QED
    BY <1>1, <1>2, <2>1, <2>2 DEF TypeOK
<1>10. Done' = Done
  <2>1. base' = base + i /\ i' = 0 /\ base \in Nat /\ i \in Nat
    BY <1>1, <1>2, <1>7
  <2> QED
    BY <2>1 DEF Done
<1>11. OnlyFramesDecoded' /\ NoFrameLost'
  BY <1>2, <1>10, MoveOn
<1>12. HeldBackOnlyIfIncomplete'
  <2> SUFFICES ASSUME rest # <<>>
               PROVE  /\ rest[1] = Preamble
                      /\ Len(rest) < 3 \/ Len(rest) < frame_len(rest, 0)
    BY <1>7, Zenon DEF HeldBackOnlyIfIncomplete
  <2>1. Len(rest) > 0 /\ i < Len(buf_)
    BY <1>4, <1>3, <1>1
  <2>2. rest[1] = buf_[i + 1]
    BY <2>1, <1>4, <1>3
  <2>3. rest[1] = Preamble
    BY <2>1, <2>2, <1>2 DEF AtPreamble
  <2>4. ASSUME ~(Len(rest) < 3) PROVE Len(rest) < frame_len(rest, 0)
    <3>1. 2 \in 1..Len(rest) /\ 3 \in 1..Len(rest) /\ i + 3 <= Len(buf_)
      BY <2>4, <1>4, <1>3, <1>1
    <3>2. rest[2] = buf_[i + 2] /\ rest[3] = buf_[i + 3]
      BY <3>1, <1>4
    <3>3. payload_len(rest, 0) = payload_len(buf_, i)
      BY <3>2 DEF payload_len
    <3>4. frame_len(rest, 0) = frame_len(buf_, i)
      BY <3>3 DEF frame_len
    <3> QED
      BY <3>1, <3>4, <2>1, <1>5, <1>4, <1>3, <1>1
  <2> QED
    BY <2>3, <2>4
<1> QED
  BY <1>9, <1>10, <1>11, <1>12 DEF IndInv

------------------------------------------------------------------------------
(* The theorems. *)

\* The invariant of the framer is inductive.
THEOREM Inductive == Spec => []IndInv
<1>1. Init => IndInv
  <2> SUFFICES ASSUME Init PROVE IndInv
    OBVIOUS
  <2>1. wire \in Seq(Byte) /\ wire \in Wires
    BY FramerAssumption DEF Init
  <2>2. SubSeq(wire, 1, 0) = <<>>
    BY <2>1
  <2>3. TypeOK
    BY <2>1, <2>2 DEF Init, TypeOK
  <2>4. OnlyFramesDecoded
    BY DEF Init, OnlyFramesDecoded
  <2>5. NoFrameLost
    BY DEF Init, NoFrameLost, Done
  <2>6. HeldBackOnlyIfIncomplete
    BY DEF Init, HeldBackOnlyIfIncomplete
  <2> QED
    BY <2>3, <2>4, <2>5, <2>6 DEF IndInv
<1>2. IndInv /\ [Next]_vars => IndInv'
  <2> SUFFICES ASSUME IndInv, [Next]_vars PROVE IndInv'
    OBVIOUS
  <2>1. ASSUME NEW n \in 1..(Len(wire) - got), push(n) PROVE IndInv'
    <3>1. n \in Nat
      BY WireType DEF IndInv, TypeOK
    <3> QED
      BY <2>1, <3>1, PushStep
  <2>2. ASSUME Scan PROVE IndInv'
    BY <2>2, SkipStep, FrameOkStep, BadCrcStep, ReturnStep, Zenon DEF Scan
  <2>3. ASSUME UNCHANGED vars PROVE IndInv'
    <3>1. Done' = Done /\ wire' = wire /\ decoded' = decoded
      BY <2>3 DEF vars, Done
    <3>2. OnlyFramesDecoded' /\ NoFrameLost'
      BY <3>1, MoveOn
    <3>3. TypeOK' /\ HeldBackOnlyIfIncomplete'
      BY <2>3 DEF IndInv, TypeOK, HeldBackOnlyIfIncomplete, vars
    <3> QED
      BY <3>2, <3>3 DEF IndInv
  <2> QED
    BY <2>1, <2>2, <2>3 DEF Next, Finished
<1> QED
  BY <1>1, <1>2, PTL DEF Spec

\* buf_ is always the unfinished part of the stream.
THEOREM TypeCorrect == Spec => []TypeOK
<1>1. IndInv => TypeOK
  BY DEF IndInv
<1> QED
  BY <1>1, Inductive, PTL

\* Whatever the stream and however it is cut, what is decoded are frames of the
\* stream, in order and without overlap; resynchronisation loses no frame that
\* no decoded frame overlaps; and between calls only what an incomplete
\* candidate begins is held back.
THEOREM FramesCorrect == Spec => []FramesExact
<1>1. IndInv => FramesExact
  BY DEF IndInv, FramesExact
<1> QED
  BY <1>1, Inductive, PTL

\* No byte is ever lost to the limit of the buffer.
THEOREM LimitNeverReached == Spec => []BelowLimit
<1>1. IndInv => BelowLimit
  <2> SUFFICES ASSUME IndInv, pc = "idle" PROVE Len(buf_) < MaxFrameLen
    BY DEF BelowLimit
  <2>1. TypeOK /\ buf_ \in Seq(Byte)
    BY BufType DEF IndInv
  <2>2. CASE buf_ = <<>>
    BY <2>2 DEF MaxFrameLen
  <2>3. CASE Len(buf_) < 3
    BY <2>1, <2>3 DEF MaxFrameLen
  <2>4. CASE ~(Len(buf_) < 3) /\ buf_ # <<>>
    <3>1. buf_ \in Seq(Byte) /\ 0 \in Nat /\ 0 + 3 <= Len(buf_)
      BY <2>1, <2>4
    <3>2. payload_len(buf_, 0) \in PayloadLengths
      BY <3>1, LengthRange, Zenon
    <3>3. frame_len(buf_, 0) \in Nat /\ frame_len(buf_, 0) <= MaxFrameLen
      BY <3>2, FrameRange, Zenon
    <3>4. Len(buf_) < frame_len(buf_, 0)
      BY <2>4 DEF IndInv, HeldBackOnlyIfIncomplete
    <3> QED
      BY <2>1, <3>3, <3>4 DEF MaxFrameLen
  <2> QED
    BY <2>2, <2>3, <2>4
<1> QED
  BY <1>1, Inductive, PTL

------------------------------------------------------------------------------
(* The counters. *)

\* The preambles push() is done with that start no decoded frame and lie in
\* none: the candidates that were rejected, and nothing else.
Rejected == {k \in 0..(Done - 1) : AtPreamble(wire, k) /\ ~Inside(k)}

\* There are finitely many of them.
LEMMA RejectedFinite ==
    ASSUME TypeOK
    PROVE  IsFiniteSet(Rejected) /\ Cardinality(Rejected) \in Nat
<1>1. 0 \in Int /\ Done - 1 \in Int
  BY DEF TypeOK, Done
<1>2. IsFiniteSet(0..(Done - 1))
  BY <1>1, FS_Interval
<1>3. Rejected \subseteq 0..(Done - 1)
  BY DEF Rejected
<1>. QED
  BY <1>2, <1>3, FS_Subset, FS_CardinalityType

\* Nothing is rejected when no candidate is passed.
LEMMA NothingRejected ==
    ASSUME TypeOK, wire' = wire, decoded' = decoded,
           Done' = Done \/ (Done' = Done + 1 /\ ~AtPreamble(wire, Done))
    PROVE  Rejected' = Rejected
<1>1. Done \in Nat
  BY DEF TypeOK, Done
<1>2. \A k : Inside(k)' <=> Inside(k)
  BY DEF Inside
<1>3. \A k : k \in 0..(Done' - 1) /\ AtPreamble(wire, k)
                <=> k \in 0..(Done - 1) /\ AtPreamble(wire, k)
  BY <1>1
<1>4. \A k : k \in Rejected' <=> k \in Rejected
  BY <1>2, <1>3, Zenon DEF Rejected
<1>. QED
  BY <1>4, Zenon

\* No decoded frame reaches to the cursor.
LEMMA CursorOutside ==
    ASSUME IndInv PROVE ~Inside(Done)
<1>1. Done \in Nat /\ decoded \in Seq(Nat)
  BY DEF IndInv, TypeOK, Done
<1>2. ASSUME NEW n \in DOMAIN decoded
      PROVE  ~(Done < decoded[n] + frame_len(wire, decoded[n]))
  <2>1. /\ decoded[n] \in Nat /\ Frame(decoded[n])
        /\ decoded[n] + frame_len(wire, decoded[n]) <= Done
    BY <1>1 DEF IndInv, OnlyFramesDecoded
  <2>2. frame_len(wire, decoded[n]) \in Nat
    BY <2>1, FrameLength DEF IndInv
  <2>. QED
    BY <1>1, <2>1, <2>2
<1>. QED
  BY <1>2, Zenon DEF Inside

\* A rejected candidate is one more.
LEMMA OneRejected ==
    ASSUME IndInv, BadCrc
    PROVE  Cardinality(Rejected') = Cardinality(Rejected) + 1
<1>1. /\ TypeOK /\ Done \in Nat /\ i \in Nat /\ i < Len(buf_)
      /\ Done' = Done + 1 /\ wire' = wire /\ decoded' = decoded
      /\ AtPreamble(buf_, i)
  BY DEF IndInv, TypeOK, Done, BadCrc, AtPreamble
<1>2. AtPreamble(wire, Done)
  BY <1>1, SameCandidate, Zenon DEF Done
<1>3. ~Inside(Done)
  BY CursorOutside
<1>4. \A k : Inside(k)' <=> Inside(k)
  BY <1>1 DEF Inside
<1>5. \A k : k \in 0..(Done' - 1) <=> k \in 0..(Done - 1) \/ k = Done
  BY <1>1
<1>6. Done \notin 0..(Done - 1)
  BY <1>1
<1>7. \A k : k \in Rejected' <=> k \in Rejected \/ k = Done
  BY <1>1, <1>2, <1>3, <1>4, <1>5, Zenon DEF Rejected
<1>8. Rejected' = Rejected \cup {Done}
  BY <1>7, Zenon
<1>9. Done \notin Rejected
  BY <1>6 DEF Rejected
<1>. QED
  BY <1>1, <1>8, <1>9, RejectedFinite, FS_AddElement

\* A decoded frame covers every preamble the cursor passes with it.
LEMMA FrameRejectsNothing ==
    ASSUME IndInv, FrameOk
    PROVE  Rejected' = Rejected
<1>. DEFINE len == frame_len(wire, Done)
<1>1. /\ TypeOK /\ Done \in Nat /\ i \in Nat /\ i < Len(buf_)
      /\ AtPreamble(buf_, i) /\ Complete(buf_, i) /\ CrcMatches(buf_, i)
      /\ wire' = wire /\ decoded \in Seq(Nat) /\ decoded' = Append(decoded, Done)
      /\ base \in Nat /\ base' = base /\ i' = i + frame_len(buf_, i)
  BY DEF IndInv, TypeOK, Done, FrameOk, AtPreamble
<1>2. frame_len(buf_, i) = len /\ Frame(Done)
  BY <1>1, SameCandidate, Zenon DEF Done, Frame, FrameIn
<1>3. len \in Nat /\ 6 <= len
  BY <1>1, <1>2, FrameLength, Zenon
<1>. HIDE DEF len
<1>4. Done' = Done + len
  BY <1>1, <1>2, <1>3 DEF Done
<1>5. /\ DOMAIN decoded' = DOMAIN decoded \cup {Len(decoded) + 1}
      /\ \A n \in DOMAIN decoded : decoded'[n] = decoded[n]
      /\ decoded'[Len(decoded) + 1] = Done
  BY <1>1
<1>6. \A k : Inside(k)' <=> Inside(k) \/ (Done <= k /\ k < Done + frame_len(wire, Done))
  BY <1>1, <1>5, Zenon DEF Inside
<1>7. \A k : Inside(k)' <=> Inside(k) \/ (Done <= k /\ k < Done + len)
  BY <1>6 DEF len
<1>8. \A k : k \in 0..(Done' - 1) /\ ~(Done <= k /\ k < Done + len)
                <=> k \in 0..(Done - 1)
  BY <1>1, <1>3, <1>4
<1>9. \A k : k \in Rejected' <=> k \in Rejected
  BY <1>1, <1>7, <1>8, Zenon DEF Rejected
<1>. QED
  BY <1>9, Zenon

\* Both counters are exact: every decoded frame and every rejected candidate is
\* counted once, however often the buffer is scanned again.
THEOREM CountersCorrect == Spec => []CountersExact
<1>1. CountersExact <=> /\ frames_ok_ = Len(decoded)
                        /\ frames_bad_crc_ = Cardinality(Rejected)
  BY DEF CountersExact, Rejected
<1>2. CountersExact' <=> /\ frames_ok_' = Len(decoded')
                         /\ frames_bad_crc_' = Cardinality(Rejected')
  BY DEF CountersExact, Rejected
<1>3. Init => CountersExact
  <2>1. Init => Rejected = {} /\ Len(decoded) = 0
    BY DEF Init, Rejected, Done
  <2>. QED
    BY <1>1, <2>1, FS_EmptySet DEF Init
<1>4. IndInv /\ CountersExact /\ [Next]_vars => CountersExact'
  <2>. SUFFICES ASSUME IndInv, CountersExact, [Next]_vars PROVE CountersExact'
    OBVIOUS
  <2>0. TypeOK /\ i \in Nat /\ base \in Nat /\ decoded \in Seq(Nat) /\ wire \in Seq(Byte)
    BY WireType DEF IndInv, TypeOK
  <2>1. ASSUME NEW n \in 1..(Len(wire) - got), push(n) PROVE CountersExact'
    <3>1. Done' = Done /\ wire' = wire /\ decoded' = decoded
      BY <2>0, <2>1 DEF push, Done, TypeOK
    <3>2. Rejected' = Rejected
      BY <2>0, <3>1, NothingRejected
    <3>. QED
      BY <1>1, <1>2, <3>1, <3>2, <2>1 DEF push
  <2>2. CASE SkipByte
    <3>1. Done' = Done + 1 /\ wire' = wire /\ decoded' = decoded
      BY <2>0, <2>2 DEF SkipByte, Done
    <3>2. ~AtPreamble(wire, Done)
      BY <2>0, <2>2, SameCandidate, Zenon DEF SkipByte, Done
    <3>3. Rejected' = Rejected
      BY <2>0, <3>1, <3>2, NothingRejected
    <3>. QED
      BY <1>1, <1>2, <3>1, <3>3, <2>2 DEF SkipByte
  <2>3. CASE FrameOk
    <3>1. Rejected' = Rejected
      BY <2>3, FrameRejectsNothing
    <3>2. Len(decoded') = Len(decoded) + 1
      BY <2>0, <2>3 DEF FrameOk
    <3>. QED
      BY <1>1, <1>2, <3>1, <3>2, <2>3 DEF FrameOk
  <2>4. CASE BadCrc
    <3>1. Cardinality(Rejected') = Cardinality(Rejected) + 1
      BY <2>4, OneRejected
    <3>. QED
      BY <1>1, <1>2, <3>1, <2>4 DEF BadCrc
  <2>5. CASE Return
    <3>1. wire' = wire /\ decoded' = decoded /\ Done' = Done
      BY <2>5, ReturnStep DEF Return
    <3>2. Rejected' = Rejected
      BY <2>0, <3>1, NothingRejected
    <3>. QED
      BY <1>1, <1>2, <3>1, <3>2, <2>5 DEF Return
  <2>6. CASE UNCHANGED vars
    <3>1. Done' = Done /\ wire' = wire /\ decoded' = decoded
      BY <2>6 DEF vars, Done
    <3>2. Rejected' = Rejected
      BY <2>0, <3>1, NothingRejected
    <3>. QED
      BY <1>1, <1>2, <3>1, <3>2, <2>6 DEF vars
  <2>. QED
    BY <2>1, <2>2, <2>3, <2>4, <2>5, <2>6 DEF Next, Scan, Finished
<1>. QED
  BY Inductive, <1>3, <1>4, PTL DEF Spec

------------------------------------------------------------------------------
(* The checksum, for every message.  The register of crc24q() is a           *)
(* polynomial over GF(2), and a turn of its inner loop multiplies it by x,   *)
(* which is linear: every bit goes its own way through the turns that follow *)
(* its own, and the remainder is the sum of what the bits come to.           *)

Q == INSTANCE Crc24q

\* The polynomials that a register of 24 bits holds.
Residues == SUBSET (0..23)

\* The smallest element of a set of numbers.
LEMMA Least ==
    ASSUME NEW T, T \subseteq Nat, T # {}
    PROVE  \E m \in T : \A n \in T : m <= n
<1>. DEFINE R == OpToRel(<, Nat)
<1>1. IsWellFoundedOn(R, Nat)
  BY NatLessThanWellFounded
<1>2. \A m, n \in Nat : <<n, m>> \in R <=> n < m
  BY DEF OpToRel
<1>. HIDE DEF R
<1>3. PICK m \in T : \A n \in T : ~(<<n, m>> \in R)
  BY <1>1, WFMin
<1>4. ASSUME NEW n \in T PROVE m <= n
  <2>1. m \in Nat /\ n \in Nat /\ ~(n < m)
    BY <1>2, <1>3
  <2>. QED
    BY <2>1
<1>. QED
  BY <1>4

\* f is what a register holds that starts with start and is changed by next.
StepsOf(T, start, n, next, f) ==
    f \in [0..n -> T] /\ f[0] = start /\ \A k \in 1..n : f[k] = next[k][f[k - 1]]

\* A register can be followed through any number of steps.
LEMMA StepsExist ==
    ASSUME NEW T, NEW start \in T, NEW n \in Nat, NEW next \in [1..n -> [T -> T]]
    PROVE  \E f : StepsOf(T, start, n, next, f)
<1>. DEFINE Steps(j, f) == f[0] = start /\ \A k \in 1..j : f[k] = next[k][f[k - 1]]
            Bad == {j \in 0..n : ~\E f \in [0..j -> T] : Steps(j, f)}
<1>1. SUFFICES ASSUME Bad # {} PROVE FALSE
  <2>1. n \in 0..n
    OBVIOUS
  <2>. QED
    BY <1>1, <2>1 DEF StepsOf
<1>2. PICK j \in Bad : \A y \in Bad : j <= y
  <2>1. Bad \subseteq Nat
    OBVIOUS
  <2>. QED
    BY <1>1, <2>1, Least
<1>3. j # 0
  <2>. DEFINE f == [k \in 0..0 |-> start]
  <2>1. f \in [0..0 -> T] /\ f[0] = start /\ 1..0 = {}
    OBVIOUS
  <2>2. Steps(0, f)
    BY <2>1
  <2>. QED
    BY <2>1, <2>2
<1>4. j \in 1..n /\ j - 1 \in 0..n /\ j - 1 \notin Bad
  BY <1>2, <1>3
<1>5. PICK f \in [0..(j - 1) -> T] : Steps(j - 1, f)
  BY <1>4
<1>. DEFINE g == [k \in 0..j |-> IF k = j THEN next[j][f[j - 1]] ELSE f[k]]
<1>6. next[j][f[j - 1]] \in T
  BY <1>4
<1>7. \A k \in 0..j : k # j => k \in 0..(j - 1)
  BY <1>4
<1>8. g \in [0..j -> T]
  BY <1>6, <1>7
<1>9. g[0] = start
  BY <1>4, <1>5
<1>10. ASSUME NEW k \in 1..j PROVE g[k] = next[k][g[k - 1]]
  <2>1. k - 1 \in 0..j /\ k - 1 # j /\ k \in 0..j
    BY <1>4
  <2>2. g[k - 1] = f[k - 1]
    BY <2>1
  <2>3. CASE k = j
    BY <2>1, <2>2, <2>3
  <2>4. CASE k # j
    <3>1. k \in 1..(j - 1) /\ g[k] = f[k]
      BY <1>4, <2>1, <2>4
    <3>2. f[k] = next[k][f[k - 1]]
      BY <1>5, <3>1
    <3>. QED
      BY <2>2, <3>1, <3>2
  <2>. QED
    BY <2>3, <2>4
<1>11. Steps(j, g)
  BY <1>9, <1>10
<1>. QED
  BY <1>8, <1>11

\* The constant of the code is the generator.
LEMMA PolyIsGenerator == Q!poly = Q!Generator
<1>. DEFINE P(k) == 2^k
            v == 25578747
            bit(e) == (v \div P(e)) % 2
<1>1. /\ P(0) = 1 /\ P(1) = 2 /\ P(2) = 4 /\ P(3) = 8 /\ P(4) = 16 /\ P(5) = 32
      /\ P(6) = 64 /\ P(7) = 128 /\ P(8) = 256 /\ P(9) = 512 /\ P(10) = 1024
      /\ P(11) = 2048 /\ P(12) = 4096 /\ P(13) = 8192 /\ P(14) = 16384
      /\ P(15) = 32768 /\ P(16) = 65536 /\ P(17) = 131072 /\ P(18) = 262144
      /\ P(19) = 524288 /\ P(20) = 1048576 /\ P(21) = 2097152 /\ P(22) = 4194304
      /\ P(23) = 8388608 /\ P(24) = 16777216
  OBVIOUS
<1>. HIDE DEF P
<1>2. /\ bit(0) = 1 /\ bit(1) = 1 /\ bit(2) = 0 /\ bit(3) = 1 /\ bit(4) = 1
      /\ bit(5) = 1 /\ bit(6) = 1 /\ bit(7) = 1 /\ bit(8) = 0 /\ bit(9) = 0
      /\ bit(10) = 1 /\ bit(11) = 1 /\ bit(12) = 0
  BY <1>1
<1>3. /\ bit(13) = 0 /\ bit(14) = 1 /\ bit(15) = 0 /\ bit(16) = 0 /\ bit(17) = 1
      /\ bit(18) = 1 /\ bit(19) = 0 /\ bit(20) = 0 /\ bit(21) = 0 /\ bit(22) = 0
      /\ bit(23) = 1 /\ bit(24) = 1
  BY <1>1
<1>. HIDE DEF bit
<1>4. ASSUME NEW e \in 0..24 PROVE bit(e) = 1 <=> e \in Q!Generator
  <2>1. CASE e \in 0..12
    BY <1>2, <2>1 DEF Q!Generator
  <2>2. CASE e \in 13..24
    BY <1>3, <2>2 DEF Q!Generator
  <2>. QED
    BY <2>1, <2>2
<1>5. Q!Generator \subseteq 0..24
  BY DEF Q!Generator
<1>6. Q!Ones(v, 25) = {e \in 0..24 : bit(e) = 1}
  BY DEF Q!Ones, bit, P
<1>. HIDE DEF v
<1>. DEFINE S == 0..24
<1>7. Q!Generator \subseteq S /\ Q!Ones(v, 25) = {e \in S : bit(e) = 1}
  BY <1>5, <1>6, Zenon
<1>8. \A e \in S : bit(e) = 1 <=> e \in Q!Generator
  BY <1>4, Zenon
<1>. HIDE DEF S
<1>9. Q!Ones(v, 25) = Q!Generator
  BY <1>7, <1>8, Zenon
<1>. QED
  BY <1>9 DEF Q!poly, v

\* The sum of polynomials.
LEMMA XorFacts ==
    ASSUME NEW A, NEW B, NEW D
    PROVE  /\ Q!Xor(A, B) = Q!Xor(B, A) /\ Q!Xor(A, {}) = A /\ Q!Xor(A, A) = {}
           /\ Q!Xor(Q!Xor(A, B), D) = Q!Xor(A, Q!Xor(B, D))
           /\ Q!Plus(A, B) = Q!Xor(A, B)
  BY DEF Q!Xor, Q!Plus

\* The terms of S, each times x.
Up(S) == {e + 1 : e \in S}

LEMMA UpFacts ==
    ASSUME NEW S \in Residues, NEW T \in Residues
    PROVE  /\ Up(Q!Xor(S, T)) = Q!Xor(Up(S), Up(T))
           /\ Up(S) \subseteq 1..24 /\ \A e \in 0..23 : e + 1 \in Up(S) <=> e \in S
<1>1. \A e \in S \cup T : e \in 0..23
  BY DEF Residues
<1>2. ASSUME NEW V \in SUBSET (0..23), NEW e \in 0..23 PROVE e + 1 \in Up(V) <=> e \in V
  <2>1. \A f \in V : f + 1 = e + 1 => f = e
    OBVIOUS
  <2>. QED
    BY <2>1 DEF Up
<1>3. Up(S) \subseteq 1..24 /\ Up(T) \subseteq 1..24 /\ Up(Q!Xor(S, T)) \subseteq 1..24
  BY <1>1 DEF Up, Q!Xor
<1>4. ASSUME NEW d \in 1..24 PROVE d \in Up(Q!Xor(S, T)) <=> d \in Q!Xor(Up(S), Up(T))
  <2>1. PICK e \in 0..23 : d = e + 1
    <3>1. d - 1 \in 0..23 /\ d = (d - 1) + 1
      OBVIOUS
    <3>. QED
      BY <3>1
  <2>2. /\ d \in Up(S) <=> e \in S
        /\ d \in Up(T) <=> e \in T
        /\ d \in Up(Q!Xor(S, T)) <=> e \in Q!Xor(S, T)
    <3>1. Q!Xor(S, T) \in SUBSET (0..23) /\ S \in SUBSET (0..23) /\ T \in SUBSET (0..23)
      BY <1>1 DEF Q!Xor
    <3>. QED
      BY <1>2, <2>1, <3>1
  <2>. QED
    BY <2>2 DEF Q!Xor
<1>5. Q!Xor(Up(S), Up(T)) \subseteq 1..24
  BY <1>3 DEF Q!Xor
<1>6. Up(Q!Xor(S, T)) = Q!Xor(Up(S), Up(T))
  BY <1>3, <1>4, <1>5, Zenon
<1>7. \A e \in 0..23 : e + 1 \in Up(S) <=> e \in S
  BY <1>2 DEF Residues
<1>. QED
  BY <1>3, <1>6, <1>7

\* The inner loop multiplies by x: it is linear, and loses nothing.
LEMMA ShiftFacts ==
    ASSUME NEW S \in Residues
    PROVE  /\ Q!Shifted(S) = IF 24 \in Up(S) THEN Q!Xor(Up(S), Q!Generator) ELSE Up(S)
           /\ Q!Shifted(S) \in Residues
           /\ 23 \notin S => Q!Shifted(S) = Up(S)
           /\ Q!Shifted(S) = {} => S = {}
<1>1. Q!Shifted(S) = IF 24 \in Up(S) THEN Q!Xor(Up(S), Q!Generator) ELSE Up(S)
  BY PolyIsGenerator DEF Q!Shifted, Up
<1>2. Up(S) \subseteq 1..24 /\ \A e \in 0..23 : e + 1 \in Up(S) <=> e \in S
  BY UpFacts
<1>3. Q!Generator \subseteq 0..24 /\ 24 \in Q!Generator /\ 0 \in Q!Generator
  BY DEF Q!Generator
<1>4. CASE 24 \in Up(S)
  <2>1. Q!Shifted(S) = Q!Xor(Up(S), Q!Generator)
    BY <1>1, <1>4
  <2>2. 23 \in S
    BY <1>2, <1>4
  <2>3. 0 \in Q!Shifted(S)
    BY <1>2, <1>3, <2>1 DEF Q!Xor
  <2>4. Q!Shifted(S) \subseteq 0..24 /\ 24 \notin Q!Shifted(S)
    <3>1. Up(S) \subseteq 0..24
      BY <1>2
    <3>2. Q!Xor(Up(S), Q!Generator) \subseteq Up(S) \cup Q!Generator
      BY DEF Q!Xor
    <3>3. 24 \notin Q!Xor(Up(S), Q!Generator)
      BY <1>3, <1>4, Zenon DEF Q!Xor
    <3>. QED
      BY <1>3, <2>1, <3>1, <3>2, <3>3, Zenon
  <2>5. Q!Shifted(S) \in Residues
    BY <2>4 DEF Residues
  <2>. QED
    BY <1>1, <2>2, <2>3, <2>5
<1>5. CASE 24 \notin Up(S)
  <2>1. Q!Shifted(S) = Up(S)
    BY <1>1, <1>5
  <2>2. Q!Shifted(S) \in Residues
    BY <1>2, <1>5, <2>1 DEF Residues
  <2>3. Up(S) = {} => S = {}
    BY <1>2 DEF Residues
  <2>. QED
    BY <1>1, <2>1, <2>2, <2>3
<1>. QED
  BY <1>4, <1>5

LEMMA ShiftLinear ==
    ASSUME NEW S \in Residues, NEW T \in Residues
    PROVE  /\ Q!Xor(S, T) \in Residues
           /\ Q!Shifted(Q!Xor(S, T)) = Q!Xor(Q!Shifted(S), Q!Shifted(T))
<1>. DEFINE G == Q!Generator
            V == Q!Xor(S, T)
            a == Up(S)
            b == Up(T)
            c == Up(V)
<1>1. V \in Residues
  BY DEF Q!Xor, Residues
<1>2. c = Q!Xor(a, b)
  BY UpFacts
<1>. HIDE DEF V
<1>3. /\ Q!Shifted(S) = IF 24 \in a THEN Q!Xor(a, G) ELSE a
      /\ Q!Shifted(T) = IF 24 \in b THEN Q!Xor(b, G) ELSE b
      /\ Q!Shifted(V) = IF 24 \in c THEN Q!Xor(c, G) ELSE c
  BY <1>1, ShiftFacts
<1>. HIDE DEF a, b, c, G
<1>4. 24 \in c <=> ~(24 \in a <=> 24 \in b)
  BY <1>2 DEF Q!Xor
<1>5. Q!Shifted(V) = Q!Xor(Q!Shifted(S), Q!Shifted(T))
  <2>1. CASE 24 \in a /\ 24 \in b
    <3>1. Q!Xor(a, b) = Q!Xor(Q!Xor(a, G), Q!Xor(b, G))
      BY DEF Q!Xor
    <3>. QED
      BY <1>2, <1>3, <1>4, <2>1, <3>1
  <2>2. CASE 24 \in a /\ 24 \notin b
    <3>1. Q!Xor(Q!Xor(a, b), G) = Q!Xor(Q!Xor(a, G), b)
      BY DEF Q!Xor
    <3>. QED
      BY <1>2, <1>3, <1>4, <2>2, <3>1
  <2>3. CASE 24 \notin a /\ 24 \in b
    <3>1. Q!Xor(Q!Xor(a, b), G) = Q!Xor(a, Q!Xor(b, G))
      BY DEF Q!Xor
    <3>. QED
      BY <1>2, <1>3, <1>4, <2>3, <3>1
  <2>4. CASE 24 \notin a /\ 24 \notin b
    BY <1>2, <1>3, <1>4, <2>4
  <2>. QED
    BY <2>1, <2>2, <2>3, <2>4
<1>. QED
  BY <1>1, <1>5 DEF V

\* Two registers that start alike and change alike stay alike.
Alike(n, f, g) == f[0] = g[0] /\ \A k \in 1..n : f[k - 1] = g[k - 1] => f[k] = g[k]

LEMMA SameSteps ==
    ASSUME NEW n \in Nat, NEW f, NEW g, Alike(n, f, g)
    PROVE  \A k \in 0..n : f[k] = g[k]
<1>. DEFINE Bad == {k \in 0..n : f[k] # g[k]}
<1>1. SUFFICES ASSUME Bad # {} PROVE FALSE
  OBVIOUS
<1>2. PICK k \in Bad : \A y \in Bad : k <= y
  <2>1. Bad \subseteq Nat
    OBVIOUS
  <2>. QED
    BY <1>1, <2>1, Least
<1>3. k # 0
  BY DEF Alike
<1>4. k \in 1..n /\ k - 1 \in 0..n /\ k - 1 \notin Bad
  BY <1>2, <1>3
<1>. QED
  BY <1>4 DEF Alike

\* What the loop of crc24q() has in the register when it begins turn k.
Taken(b, k, S) == IF k % 8 = 1 THEN Q!Mixed(S, b[(k \div 8) + 1]) ELSE S

LEMMA TakenFacts ==
    ASSUME NEW b, NEW k, NEW S \in Residues
    PROVE  Taken(b, k, S) \in Residues
<1>1. \A byte : \A e \in Q!Ones(byte, 8) : e + 16 \in 0..23
  BY DEF Q!Ones
<1>. QED
  BY <1>1 DEF Taken, Q!Mixed, Q!Xor, Residues

\* The turns of crc24q(), and what it returns.
CrcTurns(b, n, c) ==
    /\ c \in [0..n -> Residues] /\ c[0] = {}
    /\ \A k \in 1..n : c[k] = Q!Shifted(Taken(b, k, c[k - 1]))

LEMMA CrcLoop ==
    ASSUME NEW b, NEW n \in Nat, n = 8 * Len(b)
    PROVE  \E c : CrcTurns(b, n, c) /\ Q!crc24q(b) = c[n]
<1>. DEFINE F(f) == f = [k \in 0..n |-> IF k = 0 THEN {} ELSE Q!Shifted(Taken(b, k, f[k - 1]))]
            next == [k \in 1..n |-> [S \in Residues |-> Q!Shifted(Taken(b, k, S))]]
            x == CHOOSE f : F(f)
<1>1. next \in [1..n -> [Residues -> Residues]] /\ {} \in Residues
  <2>1. ASSUME NEW k \in 1..n, NEW S \in Residues PROVE Q!Shifted(Taken(b, k, S)) \in Residues
    BY TakenFacts, ShiftFacts
  <2>2. {} \in Residues
    BY DEF Residues
  <2>. QED
    BY <2>1, <2>2
<1>2. PICK g \in [0..n -> Residues] : g[0] = {} /\ \A k \in 1..n : g[k] = next[k][g[k - 1]]
  <2>. DEFINE start == {}
  <2>1. start \in Residues
    BY <1>1
  <2>. HIDE DEF next, start
  <2>2. \E g : StepsOf(Residues, start, n, next, g)
    BY <1>1, <2>1, StepsExist
  <2>. QED
    BY <2>2 DEF StepsOf, start
<1>3. \A k \in 0..n : k # 0 => k \in 1..n /\ k - 1 \in 0..n
  OBVIOUS
<1>4. \A k \in 1..n : g[k] = Q!Shifted(Taken(b, k, g[k - 1]))
  <2>1. \A k \in 1..n : k - 1 \in 0..n
    OBVIOUS
  <2>. QED
    BY <1>2, <2>1
<1>5. F(g)
  <2>1. \A k \in 0..n : g[k] = IF k = 0 THEN {} ELSE Q!Shifted(Taken(b, k, g[k - 1]))
    BY <1>2, <1>3, <1>4
  <2>. QED
    BY <2>1
<1>6. F(x)
  BY <1>5
<1>7. Q!crc24q(b) = x[n]
  BY DEF Q!crc24q, Taken
<1>. HIDE DEF x, next
<1>8. x[0] = {} /\ \A k \in 1..n : x[k] = Q!Shifted(Taken(b, k, x[k - 1]))
  <2>1. 0 \in 0..n /\ \A k \in 1..n : k \in 0..n /\ k # 0
    OBVIOUS
  <2>2. \A k \in 0..n : x[k] = IF k = 0 THEN {} ELSE Q!Shifted(Taken(b, k, x[k - 1]))
    BY <1>6
  <2>. QED
    BY <2>1, <2>2
<1>. HIDE DEF F
<1>9. \A k \in 0..n : x[k] = g[k]
  <2>1. Alike(n, x, g)
    BY <1>2, <1>4, <1>8 DEF Alike
  <2>. QED
    BY <2>1, SameSteps
<1>10. Q!crc24q(b) = g[n]
  BY <1>7, <1>9
<1>. QED
  BY <1>2, <1>4, <1>10 DEF CrcTurns

\* The powers of x.
PowersTo(n, p) ==
    /\ p \in [0..n -> Residues] /\ p[0] = {0}
    /\ \A k \in 1..n : p[k] = Q!Shifted(p[k - 1])

LEMMA PowerLoop ==
    ASSUME NEW n \in Nat
    PROVE  \E p : PowersTo(n, p) /\ \A k \in 0..n : Q!Power(n)[k] = p[k]
<1>. DEFINE F(f) == f = [k \in 0..n |-> IF k = 0 THEN {0}
                           ELSE LET s == {e + 1 : e \in f[k - 1]}
                                IN  IF 24 \in s THEN Q!Plus(s, Q!Generator) ELSE s]
            next == [k \in 1..n |-> [S \in Residues |-> Q!Shifted(S)]]
            x == CHOOSE f : F(f)
<1>0. \A S : (LET s == {e + 1 : e \in S} IN IF 24 \in s THEN Q!Plus(s, Q!Generator) ELSE s)
             = Q!Shifted(S)
  BY PolyIsGenerator DEF Q!Shifted, Q!Plus, Q!Xor
<1>1. next \in [1..n -> [Residues -> Residues]] /\ {0} \in Residues
  <2>1. ASSUME NEW S \in Residues PROVE Q!Shifted(S) \in Residues
    BY ShiftFacts
  <2>2. {0} \in Residues
    BY DEF Residues
  <2>. QED
    BY <2>1, <2>2
<1>2. PICK g \in [0..n -> Residues] : g[0] = {0} /\ \A k \in 1..n : g[k] = next[k][g[k - 1]]
  <2>. DEFINE start == {0}
  <2>1. start \in Residues
    BY <1>1
  <2>. HIDE DEF next, start
  <2>2. \E g : StepsOf(Residues, start, n, next, g)
    BY <1>1, <2>1, StepsExist
  <2>. QED
    BY <2>2 DEF StepsOf, start
<1>3. \A k \in 0..n : k # 0 => k \in 1..n /\ k - 1 \in 0..n
  OBVIOUS
<1>4. \A k \in 1..n : g[k] = Q!Shifted(g[k - 1])
  <2>1. \A k \in 1..n : k - 1 \in 0..n
    OBVIOUS
  <2>. QED
    BY <1>2, <2>1
<1>. DEFINE G(f) == f = [k \in 0..n |-> IF k = 0 THEN {0} ELSE Q!Shifted(f[k - 1])]
<1>5. \A f : F(f) <=> G(f)
  BY <1>0
<1>6. G(g)
  <2>1. \A k \in 0..n : g[k] = IF k = 0 THEN {0} ELSE Q!Shifted(g[k - 1])
    BY <1>2, <1>3, <1>4
  <2>. QED
    BY <2>1
<1>7. Q!Power(n) = x
  BY DEF Q!Power
<1>. HIDE DEF F, G
<1>8. G(x)
  BY <1>5, <1>6
<1>. HIDE DEF x, next
<1>9. x[0] = {0} /\ \A k \in 1..n : x[k] = Q!Shifted(x[k - 1])
  <2>1. 0 \in 0..n /\ \A k \in 1..n : k \in 0..n /\ k # 0
    OBVIOUS
  <2>2. \A k \in 0..n : x[k] = IF k = 0 THEN {0} ELSE Q!Shifted(x[k - 1])
    BY <1>8 DEF G
  <2>. QED
    BY <2>1, <2>2
<1>10. \A k \in 0..n : x[k] = g[k]
  <2>1. Alike(n, x, g)
    BY <1>2, <1>4, <1>9 DEF Alike
  <2>. QED
    BY <2>1, SameSteps
<1>. QED
  BY <1>2, <1>4, <1>7, <1>10 DEF PowersTo

\* The sum of the powers of x that n bits stand for, the last of them for the
\* power up.
SumTo(b, n, up, p, r) ==
    /\ r \in [0..n -> Residues] /\ r[0] = {}
    /\ \A k \in 1..n : r[k] = IF Q!BitAt(b, k - 1) = 1 THEN Q!Xor(r[k - 1], p[n - k + up])
                                                       ELSE r[k - 1]

LEMMA RemainderLoop ==
    ASSUME NEW b, NEW n \in Nat, n = 8 * Len(b)
    PROVE  \E p, r : PowersTo(n + 24, p) /\ SumTo(b, n, 24, p, r) /\ Q!Remainder(b) = r[n]
<1>. DEFINE q == Q!Power(n + 24)
            more(k, S) == IF Q!BitAt(b, k - 1) = 1 THEN Q!Plus(S, q[n - k + 24]) ELSE S
            F(f) == f = [k \in 0..n |-> IF k = 0 THEN {} ELSE more(k, f[k - 1])]
            next == [k \in 1..n |-> [S \in Residues |-> more(k, S)]]
            x == CHOOSE f : F(f)
<1>0. n + 24 \in Nat
  OBVIOUS
<1>1. PICK p : PowersTo(n + 24, p) /\ \A k \in 0..(n + 24) : q[k] = p[k]
  BY <1>0, PowerLoop
<1>. HIDE DEF q
<1>2. ASSUME NEW k \in 1..n, NEW S
      PROVE  more(k, S) = IF Q!BitAt(b, k - 1) = 1 THEN Q!Xor(S, p[n - k + 24]) ELSE S
  <2>1. n - k + 24 \in 0..(n + 24)
    OBVIOUS
  <2>. QED
    BY <1>1, <2>1 DEF Q!Plus, Q!Xor
<1>3. next \in [1..n -> [Residues -> Residues]] /\ {} \in Residues
  <2>1. ASSUME NEW k \in 1..n, NEW S \in Residues PROVE more(k, S) \in Residues
    <3>1. n - k + 24 \in 0..(n + 24)
      OBVIOUS
    <3>2. p[n - k + 24] \in Residues
      BY <1>1, <3>1 DEF PowersTo
    <3>3. Q!Xor(S, p[n - k + 24]) \in Residues
      BY <3>2, ShiftLinear
    <3>. HIDE DEF more
    <3>. QED
      BY <1>2, <3>3
  <2>2. {} \in Residues
    BY DEF Residues
  <2>. HIDE DEF more
  <2>. QED
    BY <2>1, <2>2
<1>. HIDE DEF more
<1>4. PICK g \in [0..n -> Residues] : g[0] = {} /\ \A k \in 1..n : g[k] = next[k][g[k - 1]]
  <2>. DEFINE start == {}
  <2>1. start \in Residues
    BY <1>3
  <2>. HIDE DEF next, start
  <2>2. \E g : StepsOf(Residues, start, n, next, g)
    BY <1>3, <2>1, StepsExist
  <2>. QED
    BY <2>2 DEF StepsOf, start
<1>5. \A k \in 0..n : k # 0 => k \in 1..n /\ k - 1 \in 0..n
  OBVIOUS
<1>6. \A k \in 1..n : g[k] = more(k, g[k - 1])
  <2>1. \A k \in 1..n : k - 1 \in 0..n
    OBVIOUS
  <2>. QED
    BY <1>4, <2>1
<1>7. F(g)
  <2>1. \A k \in 0..n : g[k] = IF k = 0 THEN {} ELSE more(k, g[k - 1])
    BY <1>4, <1>5, <1>6
  <2>. QED
    BY <2>1
<1>8. F(x)
  BY <1>7
<1>9. Q!Remainder(b) = x[n]
  BY DEF Q!Remainder, more, q
<1>. HIDE DEF x, next
<1>10. x[0] = {} /\ \A k \in 1..n : x[k] = more(k, x[k - 1])
  <2>1. 0 \in 0..n /\ \A k \in 1..n : k \in 0..n /\ k # 0
    OBVIOUS
  <2>2. \A k \in 0..n : x[k] = IF k = 0 THEN {} ELSE more(k, x[k - 1])
    BY <1>8
  <2>. QED
    BY <2>1, <2>2
<1>. HIDE DEF F
<1>11. \A k \in 0..n : x[k] = g[k]
  <2>1. Alike(n, x, g)
    BY <1>4, <1>6, <1>10 DEF Alike
  <2>. QED
    BY <2>1, SameSteps
<1>12. Q!Remainder(b) = g[n]
  BY <1>9, <1>11
<1>13. SumTo(b, n, 24, p, g)
  BY <1>2, <1>4, <1>6 DEF SumTo
<1>. QED
  BY <1>1, <1>12, <1>13

\* The ones of the current byte that are in the register ahead of their turns.
LastBit(k) == 8 * (k \div 8) + 7
Ahead(b, from, k) == {23 + k - m : m \in {m \in from..LastBit(k) : Q!BitAt(b, m) = 1}}
Pending(b, k) == IF k % 8 = 0 THEN {} ELSE Ahead(b, k, k)
Top(b, k) == IF Q!BitAt(b, k) = 1 THEN {23} ELSE {}

\* A byte is mixed into the register at once.
LEMMA MixedIn ==
    ASSUME NEW b, NEW k \in Nat, NEW S
    PROVE  Taken(b, k + 1, Q!Xor(S, Pending(b, k))) = Q!Xor(S, Ahead(b, k, k))
<1>1. CASE k % 8 # 0
  <2>1. (k + 1) % 8 # 1
    BY <1>1
  <2>. QED
    BY <1>1, <2>1 DEF Taken, Pending
<1>2. CASE k % 8 = 0
  <2>. DEFINE at == k \div 8
              ones == Q!Ones(b[at + 1], 8)
              bit(e) == (b[at + 1] \div 2^e) % 2
  <2>1. at \in Nat /\ k = 8 * at /\ (k + 1) % 8 = 1 /\ (k + 1) \div 8 = at /\ LastBit(k) = k + 7
    BY <1>2 DEF LastBit
  <2>2. ones = {e \in 0..7 : bit(e) = 1}
    BY DEF Q!Ones
  <2>3. ASSUME NEW m \in k..(k + 7)
        PROVE  /\ 23 + k - m \in Int /\ 7 + k - m \in 0..7
               /\ Q!BitAt(b, m) = bit(7 + k - m)
    <3>. HIDE DEF at
    <3>1. m \div 8 = at /\ 7 - (m % 8) = 7 + k - m
      BY <2>1
    <3>2. Q!BitAt(b, m) = (b[(m \div 8) + 1] \div 2^(7 - (m % 8))) % 2
      BY DEF Q!BitAt
    <3>3. 7 + k - m \in 0..7
      BY <2>1
    <3>. QED
      BY <2>1, <3>1, <3>2, <3>3
  <2>. HIDE DEF at, bit, ones
  <2>4. ASSUME NEW e \in ones PROVE e + 16 \in Ahead(b, k, k)
    <3>. DEFINE m == 7 + k - e
    <3>1. e \in 0..7 /\ bit(e) = 1
      BY <2>2
    <3>2. m \in k..(k + 7) /\ 23 + k - m = e + 16 /\ 7 + k - m = e
      BY <3>1
    <3>3. Q!BitAt(b, m) = 1
      BY <2>3, <3>1, <3>2
    <3>. HIDE DEF m
    <3>. QED
      BY <2>1, <3>2, <3>3 DEF Ahead
  <2>5. ASSUME NEW d \in Ahead(b, k, k) PROVE \E e \in ones : d = e + 16
    <3>1. PICK m \in k..(k + 7) : Q!BitAt(b, m) = 1 /\ d = 23 + k - m
      BY <2>1 DEF Ahead
    <3>2. 7 + k - m \in ones /\ d = (7 + k - m) + 16
      BY <2>2, <2>3, <3>1
    <3>. QED
      BY <3>2
  <2>6. {e + 16 : e \in ones} = Ahead(b, k, k)
    BY <2>4, <2>5, Zenon
  <2>7. Q!Xor(S, Pending(b, k)) = S
    BY <1>2, XorFacts DEF Pending
  <2>8. Taken(b, k + 1, S) = Q!Xor(S, {e + 16 : e \in ones})
    BY <2>1 DEF Taken, Q!Mixed, ones
  <2>. QED
    BY <2>6, <2>7, <2>8
<1>. QED
  BY <1>1, <1>2

\* One bit leaves; the others of its byte come nearer.
LEMMA OneLeaves ==
    ASSUME NEW b, NEW k \in Nat
    PROVE  /\ Ahead(b, k, k) = Q!Xor(Top(b, k), Ahead(b, k + 1, k))
           /\ Top(b, k) \in Residues /\ Ahead(b, k + 1, k) \in Residues
           /\ Q!Shifted(Ahead(b, k + 1, k)) = Pending(b, k + 1)
<1>. DEFINE last == LastBit(k)
            rest == Ahead(b, k + 1, k)
            bit(m) == Q!BitAt(b, m) = 1
<1>1. last \in Nat /\ k <= last /\ last <= k + 7
  BY DEF LastBit
<1>2. rest = {23 + k - m : m \in {m \in (k + 1)..last : bit(m)}}
  BY DEF Ahead
<1>3. Ahead(b, k, k) = {23 + k - m : m \in {m \in k..last : bit(m)}}
  BY DEF Ahead
<1>4. Pending(b, k + 1) = {23 + (k + 1) - m : m \in {m \in (k + 1)..last : bit(m)}}
  <2>1. CASE (k + 1) % 8 = 0
    <3>1. last = k
      BY <2>1 DEF LastBit
    <3>2. (k + 1)..last = {}
      BY <3>1
    <3>. QED
      BY <2>1, <3>2 DEF Pending
  <2>2. CASE (k + 1) % 8 # 0
    <3>1. last = LastBit(k + 1)
      BY <2>2 DEF LastBit
    <3>. QED
      BY <2>2, <3>1 DEF Pending, Ahead
  <2>. QED
    BY <2>1, <2>2
<1>. HIDE DEF last, bit
<1>5. \A m \in (k + 1)..last : 23 + k - m \in 16..22 /\ 23 + (k + 1) - m = (23 + k - m) + 1
  BY <1>1
<1>6. rest \subseteq 16..22
  BY <1>2, <1>5
<1>7. rest \in Residues /\ 23 \notin rest
  <2>1. 16..22 \subseteq 0..23 /\ 23 \notin 16..22
    OBVIOUS
  <2>. QED
    BY <1>6, <2>1 DEF Residues
<1>8. Up(rest) = Pending(b, k + 1)
  <2>. HIDE DEF rest
  <2>1. Up(rest) \subseteq Pending(b, k + 1)
    BY <1>2, <1>4, <1>5 DEF Up
  <2>2. ASSUME NEW d \in Pending(b, k + 1) PROVE d \in Up(rest)
    <3>1. PICK m \in (k + 1)..last : bit(m) /\ d = 23 + (k + 1) - m
      BY <1>4
    <3>2. 23 + k - m \in rest /\ d = (23 + k - m) + 1
      BY <1>2, <1>5, <3>1
    <3>. QED
      BY <3>2 DEF Up
  <2>. QED
    BY <2>1, <2>2
<1>9. Ahead(b, k, k) = Top(b, k) \cup rest
  <2>. HIDE DEF rest
  <2>1. k \in k..last /\ 23 + k - k = 23 /\ \A m \in k..last : m # k => m \in (k + 1)..last
    BY <1>1
  <2>2. \A m \in (k + 1)..last : m \in k..last
    BY <1>1
  <2>3. Top(b, k) = IF bit(k) THEN {23} ELSE {}
    BY DEF Top, bit
  <2>4. ASSUME NEW d \in Ahead(b, k, k) PROVE d \in Top(b, k) \cup rest
    <3>1. PICK m \in k..last : bit(m) /\ d = 23 + k - m
      BY <1>3
    <3>2. CASE m = k
      BY <2>1, <2>3, <3>1, <3>2
    <3>3. CASE m # k
      BY <1>2, <2>1, <3>1, <3>3
    <3>. QED
      BY <3>2, <3>3
  <2>5. ASSUME NEW d \in Top(b, k) PROVE d \in Ahead(b, k, k)
    <3>1. bit(k) /\ d = 23
      BY <2>3
    <3>. QED
      BY <1>3, <2>1, <3>1
  <2>6. ASSUME NEW d \in rest PROVE d \in Ahead(b, k, k)
    <3>1. PICK m \in (k + 1)..last : bit(m) /\ d = 23 + k - m
      BY <1>2
    <3>. QED
      BY <1>3, <2>2, <3>1
  <2>. QED
    BY <2>4, <2>5, <2>6
<1>10. Top(b, k) \subseteq {23} /\ Top(b, k) \in Residues
  BY DEF Top, Residues
<1>. HIDE DEF rest
<1>11. Top(b, k) \cup rest = Q!Xor(Top(b, k), rest)
  BY <1>7, <1>10 DEF Q!Xor
<1>12. Q!Shifted(rest) = Up(rest)
  BY <1>7, ShiftFacts
<1>. QED
  BY <1>7, <1>8, <1>9, <1>10, <1>11, <1>12 DEF rest

\* The powers of x that need no reduction.
LEMMA LowPowers ==
    ASSUME NEW n \in Nat, NEW p, PowersTo(n + 24, p)
    PROVE  \A j \in 0..23 : p[j] = {j}
<1>. DEFINE Bad == {j \in 0..23 : p[j] # {j}}
<1>1. SUFFICES ASSUME Bad # {} PROVE FALSE
  OBVIOUS
<1>2. PICK j \in Bad : \A y \in Bad : j <= y
  <2>1. Bad \subseteq Nat
    OBVIOUS
  <2>. QED
    BY <1>1, <2>1, Least
<1>3. j # 0
  BY DEF PowersTo
<1>4. j \in 1..23 /\ j - 1 \in 0..22 /\ j \in 1..(n + 24) /\ j - 1 \in 0..23 /\ j - 1 \notin Bad
  BY <1>2, <1>3
<1>5. p[j - 1] = {j - 1}
  BY <1>4
<1>6. p[j] = Q!Shifted({j - 1})
  <2>. HIDE DEF Bad
  <2>1. p[j] = Q!Shifted(p[j - 1])
    BY <1>4 DEF PowersTo
  <2>. QED
    BY <1>5, <2>1
<1>7. Q!Shifted({j - 1}) = Up({j - 1})
  <2>. HIDE DEF Bad
  <2>. DEFINE S == {j - 1}
  <2>1. S \in Residues /\ 23 \notin S
    BY <1>4 DEF Residues
  <2>. HIDE DEF S
  <2>2. Q!Shifted(S) = Up(S)
    BY <2>1, ShiftFacts
  <2>. QED
    BY <2>2 DEF S
<1>8. Up({j - 1}) = {j}
  <2>. HIDE DEF Bad
  <2>1. (j - 1) + 1 = j
    BY <1>4
  <2>2. Up({j - 1}) = {(j - 1) + 1}
    BY DEF Up
  <2>. QED
    BY <2>1, <2>2
<1>. QED
  BY <1>2, <1>6, <1>7, <1>8

\* Nothing stays nothing.
LEMMA ShiftNothing == {} \in Residues /\ Q!Shifted({}) = {}
<1>. DEFINE S == {}
<1>1. S \in Residues /\ 23 \notin S /\ Up(S) = {}
  BY DEF Residues, Up
<1>. HIDE DEF S
<1>2. Q!Shifted(S) = Up(S)
  BY <1>1, ShiftFacts
<1>. QED
  BY <1>1, <1>2 DEF S

\* What becomes of a register in m turns that take nothing in.
Course(m, f) ==
    f \in [0..m -> Residues] /\ \A j \in 1..m : f[j] = Q!Shifted(f[j - 1])

\* The register after k turns: what is in it ahead of its turn, and a part
\* that the remaining turns make the sum of the powers of the bits so far.
Follows(b, n, c, r, k) ==
    \E f : Course(n - k, f) /\ c[k] = Q!Xor(f[0], Pending(b, k)) /\ f[n - k] = r[k]

\* The power that bit k is worth when j turns follow its own.
Worth(b, k, p, j) == IF Q!BitAt(b, k) = 1 THEN p[j + 24] ELSE {}

LEMMA WorthFacts ==
    ASSUME NEW b, NEW k \in Nat, NEW n \in Nat, NEW p, PowersTo(n + 24, p)
    PROVE  /\ \A j \in 0..n : Worth(b, k, p, j) \in Residues
           /\ \A j \in 1..n : Worth(b, k, p, j) = Q!Shifted(Worth(b, k, p, j - 1))
           /\ Worth(b, k, p, 0) = Q!Shifted(Top(b, k))
<1>1. ASSUME NEW j \in 0..n PROVE Worth(b, k, p, j) \in Residues
  <2>1. j + 24 \in 0..(n + 24)
    OBVIOUS
  <2>. QED
    BY <2>1, ShiftNothing DEF Worth, PowersTo
<1>2. ASSUME NEW j \in 1..n PROVE Worth(b, k, p, j) = Q!Shifted(Worth(b, k, p, j - 1))
  <2>1. j + 24 \in 1..(n + 24) /\ (j + 24) - 1 = (j - 1) + 24
    OBVIOUS
  <2>2. p[j + 24] = Q!Shifted(p[(j - 1) + 24])
    BY <2>1 DEF PowersTo
  <2>. QED
    BY <2>2, ShiftNothing DEF Worth
<1>3. Worth(b, k, p, 0) = Q!Shifted(Top(b, k))
  <2>1. 24 \in 1..(n + 24) /\ 24 - 1 = 23 /\ 23 \in 0..23 /\ 0 + 24 = 24
    OBVIOUS
  <2>2. p[24] = Q!Shifted(p[23])
    BY <2>1 DEF PowersTo
  <2>3. p[23] = {23}
    BY <2>1, LowPowers
  <2>. QED
    BY <2>1, <2>2, <2>3, ShiftNothing DEF Worth, Top
<1>. QED
  BY <1>1, <1>2, <1>3

\* One turn of the loop and one term of the sum keep step.
LEMMA NextBit ==
    ASSUME NEW b, NEW n \in Nat, NEW c, NEW p, NEW r,
           CrcTurns(b, n, c), PowersTo(n + 24, p), SumTo(b, n, 24, p, r),
           NEW k \in 0..(n - 1), Follows(b, n, c, r, k)
    PROVE  Follows(b, n, c, r, k + 1)
<1>1. PICK f : Course(n - k, f) /\ c[k] = Q!Xor(f[0], Pending(b, k)) /\ f[n - k] = r[k]
  BY DEF Follows
<1>. DEFINE m == n - (k + 1)
            w(j) == Worth(b, k, p, j)
            g == [j \in 0..m |-> Q!Xor(f[j + 1], w(j))]
<1>2. /\ k \in Nat /\ m \in 0..n /\ m \in Nat /\ n - k = m + 1
      /\ k + 1 \in 1..n /\ (k + 1) - 1 = k
      /\ n - (k + 1) + 24 = m + 24
  OBVIOUS
<1>3. /\ \A j \in 0..n : w(j) \in Residues
      /\ \A j \in 1..n : w(j) = Q!Shifted(w(j - 1))
      /\ w(0) = Q!Shifted(Top(b, k))
  BY <1>2, WorthFacts
<1>4. /\ \A j \in 0..m : f[j + 1] \in Residues /\ w(j) \in Residues
      /\ \A j \in 1..m : f[j + 1] = Q!Shifted(f[j]) /\ w(j) = Q!Shifted(w(j - 1))
      /\ f[0] \in Residues /\ f[1] = Q!Shifted(f[0])
  <2>. HIDE DEF m
  <2>1. f \in [0..(m + 1) -> Residues] /\ \A j \in 1..(m + 1) : f[j] = Q!Shifted(f[j - 1])
    BY <1>1, <1>2 DEF Course
  <2>2. ASSUME NEW j \in 0..m PROVE f[j + 1] \in Residues /\ w(j) \in Residues
    <3>1. j + 1 \in 0..(m + 1) /\ j \in 0..n
      BY <1>2
    <3>. HIDE DEF w
    <3>. QED
      BY <1>3, <2>1, <3>1
  <2>3. ASSUME NEW j \in 1..m PROVE f[j + 1] = Q!Shifted(f[j]) /\ w(j) = Q!Shifted(w(j - 1))
    <3>1. j + 1 \in 1..(m + 1) /\ (j + 1) - 1 = j /\ j \in 1..n
      BY <1>2
    <3>2. w(j) = Q!Shifted(w(j - 1))
      BY <1>3, <3>1, Zenon
    <3>3. f[j + 1] = Q!Shifted(f[(j + 1) - 1])
      BY <2>1, <3>1
    <3>. HIDE DEF w
    <3>. QED
      BY <3>1, <3>2, <3>3
  <2>4. 0 \in 0..(m + 1) /\ 1 \in 1..(m + 1) /\ 1 - 1 = 0
    BY <1>2
  <2>5. f[0] \in Residues /\ f[1] = Q!Shifted(f[0])
    BY <2>1, <2>4
  <2>. QED
    BY <2>2, <2>3, <2>5
<1>5. w(m) = IF Q!BitAt(b, k) = 1 THEN p[m + 24] ELSE {}
  BY DEF Worth
<1>. HIDE DEF w, m
<1>6. Course(m, g)
  <2>1. ASSUME NEW j \in 0..m PROVE Q!Xor(f[j + 1], w(j)) \in Residues
    BY <1>4, ShiftLinear
  <2>2. ASSUME NEW j \in 1..m PROVE g[j] = Q!Shifted(g[j - 1])
    <3>1. j \in 0..m /\ j - 1 \in 0..m /\ (j - 1) + 1 = j
      BY <1>2
    <3>2. g[j] = Q!Xor(f[j + 1], w(j)) /\ g[j - 1] = Q!Xor(f[j], w(j - 1))
      BY <3>1
    <3>3. f[j] \in Residues /\ w(j - 1) \in Residues
      BY <1>4, <3>1
    <3>4. Q!Shifted(Q!Xor(f[j], w(j - 1))) = Q!Xor(Q!Shifted(f[j]), Q!Shifted(w(j - 1)))
      BY <3>3, ShiftLinear
    <3>. HIDE DEF g
    <3>. QED
      BY <1>4, <3>2, <3>4
  <2>3. g \in [0..m -> Residues]
    BY <2>1
  <2>. HIDE DEF g
  <2>. QED
    BY <2>2, <2>3 DEF Course
<1>7. c[k + 1] = Q!Xor(g[0], Pending(b, k + 1))
  <2>. DEFINE t == Top(b, k)
              rest == Ahead(b, k + 1, k)
  <2>1. c[k + 1] = Q!Shifted(Taken(b, k + 1, c[k]))
    BY <1>2 DEF CrcTurns
  <2>2. Taken(b, k + 1, c[k]) = Q!Xor(f[0], Ahead(b, k, k))
    BY <1>1, <1>2, MixedIn
  <2>3. Ahead(b, k, k) = Q!Xor(t, rest) /\ t \in Residues /\ rest \in Residues
        /\ Q!Shifted(rest) = Pending(b, k + 1)
    BY <1>2, OneLeaves
  <2>4. g[0] = Q!Xor(f[1], w(0))
    BY <1>2
  <2>5. w(0) = Q!Shifted(t)
    BY <1>3
  <2>. HIDE DEF t, rest, g
  <2>6. Q!Xor(f[0], Q!Xor(t, rest)) = Q!Xor(Q!Xor(f[0], t), rest)
    BY XorFacts
  <2>7. /\ Q!Xor(f[0], t) \in Residues
        /\ Q!Shifted(Q!Xor(f[0], t)) = Q!Xor(Q!Shifted(f[0]), Q!Shifted(t))
    BY <1>4, <2>3, ShiftLinear
  <2>8. Q!Shifted(Q!Xor(Q!Xor(f[0], t), rest)) =
            Q!Xor(Q!Shifted(Q!Xor(f[0], t)), Q!Shifted(rest))
    BY <2>3, <2>7, ShiftLinear
  <2>. QED
    BY <1>4, <2>1, <2>2, <2>3, <2>4, <2>5, <2>6, <2>7, <2>8
<1>8. g[m] = r[k + 1]
  <2>1. g[m] = Q!Xor(f[m + 1], w(m))
    BY <1>2
  <2>2. f[m + 1] = r[k]
    BY <1>1, <1>2
  <2>3. r[k + 1] = IF Q!BitAt(b, k) = 1 THEN Q!Xor(r[k], p[m + 24]) ELSE r[k]
    BY <1>2 DEF SumTo
  <2>4. Q!Xor(r[k], {}) = r[k]
    BY XorFacts
  <2>. HIDE DEF g
  <2>. QED
    BY <1>5, <2>1, <2>2, <2>3, <2>4
<1>. HIDE DEF g
<1>. QED
  BY <1>6, <1>7, <1>8 DEF Follows, m

\* Before the first turn.
LEMMA NoBitYet ==
    ASSUME NEW b, NEW n \in Nat, NEW c, NEW p, NEW r, CrcTurns(b, n, c), SumTo(b, n, 24, p, r)
    PROVE  Follows(b, n, c, r, 0)
<1>. DEFINE f == [j \in 0..n |-> {}]
<1>1. Course(n, f)
  <2>1. \A j \in 1..n : j \in 0..n /\ j - 1 \in 0..n
    OBVIOUS
  <2>. QED
    BY <2>1, ShiftNothing DEF Course
<1>2. f[0] = {} /\ f[n] = {} /\ n - 0 = n
  OBVIOUS
<1>3. c[0] = {} /\ r[0] = {} /\ Pending(b, 0) = {}
  BY DEF CrcTurns, SumTo, Pending
<1>4. Q!Xor({}, {}) = {}
  BY DEF Q!Xor
<1>. HIDE DEF f
<1>. QED
  BY <1>1, <1>2, <1>3, <1>4 DEF Follows

(* crc24q() computes the remainder of the message times x^24 on division by *)
(* the generator of RTCM 3, for a message of any length and any content.    *)
THEOREM ChecksumCorrect == \A b \in Seq(0..255) : Q!crc24q(b) = Q!Remainder(b)
<1>. SUFFICES ASSUME NEW b \in Seq(0..255) PROVE Q!crc24q(b) = Q!Remainder(b)
  OBVIOUS
<1>. DEFINE n == 8 * Len(b)
<1>1. n \in Nat /\ n % 8 = 0
  BY LenProperties
<1>2. PICK c : CrcTurns(b, n, c) /\ Q!crc24q(b) = c[n]
  BY <1>1, CrcLoop
<1>3. PICK p, r : PowersTo(n + 24, p) /\ SumTo(b, n, 24, p, r) /\ Q!Remainder(b) = r[n]
  BY <1>1, RemainderLoop
<1>. HIDE DEF n
<1>4. \A k \in 0..n : Follows(b, n, c, r, k)
  <2>. DEFINE Bad == {k \in 0..n : ~Follows(b, n, c, r, k)}
  <2>1. SUFFICES ASSUME Bad # {} PROVE FALSE
    OBVIOUS
  <2>2. PICK k \in Bad : \A y \in Bad : k <= y
    <3>1. Bad \subseteq Nat
      BY <1>1
    <3>. QED
      BY <2>1, <3>1, Least
  <2>3. k # 0
    BY <1>1, <1>2, <1>3, <2>2, NoBitYet
  <2>4. k - 1 \in 0..(n - 1) /\ (k - 1) + 1 = k /\ k - 1 \notin Bad /\ k - 1 \in 0..n
    BY <1>1, <2>2, <2>3
  <2>5. Follows(b, n, c, r, k - 1)
    BY <2>4
  <2>6. Follows(b, n, c, r, (k - 1) + 1)
    <3>. HIDE DEF Bad
    <3>. QED
      BY <1>1, <1>2, <1>3, <2>4, <2>5, NextBit
  <2>. QED
    BY <2>2, <2>4, <2>6
<1>5. PICK f : Course(n - n, f) /\ c[n] = Q!Xor(f[0], Pending(b, n)) /\ f[n - n] = r[n]
  <2>1. n \in 0..n
    BY <1>1
  <2>. QED
    BY <1>4, <2>1 DEF Follows
<1>6. Pending(b, n) = {} /\ n - n = 0 /\ Q!Xor(f[0], {}) = f[0]
  BY <1>1, XorFacts DEF Pending
<1>. QED
  BY <1>2, <1>3, <1>5, <1>6

\* The powers are the same however they are come by.
LEMMA OnePowers ==
    ASSUME NEW n \in Nat, NEW m \in Nat, n <= m, NEW p, NEW q, PowersTo(m, p), PowersTo(n, q)
    PROVE  \A k \in 0..n : p[k] = q[k]
<1>1. Alike(n, p, q)
  BY DEF Alike, PowersTo
<1>. QED
  BY <1>1, SameSteps

LEMMA BitFacts ==
    ASSUME NEW b \in Seq(0..255), NEW k \in 0..(8 * Len(b) - 1)
    PROVE  Q!BitAt(b, k) \in 0..1
<1>. DEFINE at == (k \div 8) + 1
            y == 2^(7 - (k % 8))
            v == b[at]
<1>1. 7 - (k % 8) \in 0..7 /\ Len(b) \in Nat /\ k \in Nat
  BY LenProperties
<1>2. \A m \in 0..7 : 2^m \in Nat \ {0}
  <2>1. /\ 2^0 = 1 /\ 2^1 = 2 /\ 2^2 = 4 /\ 2^3 = 8
        /\ 2^4 = 16 /\ 2^5 = 32 /\ 2^6 = 64 /\ 2^7 = 128
    OBVIOUS
  <2>. DEFINE P(m) == 2^m
  <2>2. /\ P(0) = 1 /\ P(1) = 2 /\ P(2) = 4 /\ P(3) = 8
        /\ P(4) = 16 /\ P(5) = 32 /\ P(6) = 64 /\ P(7) = 128
    BY <2>1
  <2>. HIDE DEF P
  <2>3. \A m \in 0..7 : P(m) \in Nat \ {0}
    BY <2>2
  <2>. QED
    BY <2>3 DEF P
<1>3. y \in Nat \ {0}
  BY <1>1, <1>2
<1>4. at \in 1..Len(b)
  BY <1>1
<1>5. v \in 0..255
  BY <1>4, ElementOfSeq
<1>6. Q!BitAt(b, k) = (v \div y) % 2
  BY DEF Q!BitAt
<1>. HIDE DEF v, y
<1>7. v \div y \in Int
  BY <1>3, <1>5
<1>. QED
  BY <1>6, <1>7

\* A course that starts with something never comes to nothing.
LEMMA CourseLives ==
    ASSUME NEW m \in Nat, NEW h, Course(m, h), h[0] # {}
    PROVE  h[m] # {}
<1>. DEFINE Bad == {j \in 0..m : h[j] = {}}
<1>1. SUFFICES ASSUME Bad # {} PROVE FALSE
  OBVIOUS
<1>2. PICK j \in Bad : \A y \in Bad : j <= y
  <2>1. Bad \subseteq Nat
    OBVIOUS
  <2>. QED
    BY <1>1, <2>1, Least
<1>3. j # 0
  BY <1>2
<1>4. j \in 1..m /\ j - 1 \in 0..m /\ j - 1 \notin Bad /\ h[j] = {}
  BY <1>2, <1>3
<1>5. h[j - 1] \in Residues /\ h[j] = Q!Shifted(h[j - 1])
  BY <1>4 DEF Course
<1>6. h[j - 1] = {}
  BY <1>4, <1>5, ShiftFacts
<1>. QED
  BY <1>4, <1>6

\* The difference of two sums after m bits, when the bits in W differ and
\* last is the last of them.
Apart(n, W, last, r, s, m) ==
    \E h : /\ Course(n - 1 - last, h)
           /\ h[0] = {last - k : k \in {k \in W : k < m}}
           /\ Q!Xor(r[m], s[m]) = h[n - 1 - last]

\* Where two messages of n bits differ: within 24 bits, last the last.
Differ(a, b, n, W, last) ==
    /\ W = {k \in 0..(n - 1) : Q!BitAt(a, k) # Q!BitAt(b, k)}
    /\ W \subseteq (last - 23)..last /\ last \in W
    /\ \A k \in 0..(n - 1) : Q!BitAt(a, k) \in 0..1 /\ Q!BitAt(b, k) \in 0..1

LEMMA NextApart ==
    ASSUME NEW a, NEW b, NEW n \in Nat, NEW p, NEW r, NEW s, NEW W, NEW last,
           PowersTo(n + 24, p), SumTo(a, n, 0, p, r), SumTo(b, n, 0, p, s),
           Differ(a, b, n, W, last), NEW m \in 0..(n - 1), Apart(n, W, last, r, s, m)
    PROVE  Apart(n, W, last, r, s, m + 1)
<1>. DEFINE J == n - 1 - last
            q == p[n - (m + 1)]
            behind(k) == {last - x : x \in {x \in W : x < k}}
            d == last - m
<1>1. PICK h : Course(J, h) /\ h[0] = behind(m) /\ Q!Xor(r[m], s[m]) = h[J]
  BY DEF Apart
<1>2. /\ last \in 0..(n - 1) /\ J \in Nat /\ m + 1 \in 1..n /\ (m + 1) - 1 = m
      /\ W \subseteq Int
  BY DEF Differ
<1>3. /\ r[m + 1] = IF Q!BitAt(a, m) = 1 THEN Q!Xor(r[m], q) ELSE r[m]
      /\ s[m + 1] = IF Q!BitAt(b, m) = 1 THEN Q!Xor(s[m], q) ELSE s[m]
  <2>1. n - (m + 1) + 0 = n - (m + 1)
    OBVIOUS
  <2>. QED
    BY <1>2, <2>1 DEF SumTo
<1>4. CASE m \notin W
  <2>1. Q!BitAt(a, m) = Q!BitAt(b, m)
    BY <1>4 DEF Differ
  <2>2. Q!Xor(r[m + 1], s[m + 1]) = Q!Xor(r[m], s[m])
    <3>. HIDE DEF q
    <3>1. Q!Xor(Q!Xor(r[m], q), Q!Xor(s[m], q)) = Q!Xor(r[m], s[m])
      BY DEF Q!Xor
    <3>. QED
      BY <1>3, <2>1, <3>1
  <2>3. behind(m + 1) = behind(m)
    <3>1. \A x \in W : x < m + 1 <=> x < m
      BY <1>2, <1>4
    <3>. QED
      BY <3>1
  <2>. QED
    BY <1>1, <2>2, <2>3 DEF Apart
<1>5. CASE m \in W
  <2>. DEFINE g == [j \in 0..J |-> Q!Xor(h[j], p[j + d])]
  <2>1. d \in 0..23
    BY <1>2, <1>5 DEF Differ
  <2>2. d + J = n - (m + 1) /\ d + J <= n + 24 /\ J + d = n - (m + 1)
    BY <1>2
  <2>. HIDE DEF d, J
  <2>3. /\ \A j \in 0..J : p[j + d] \in Residues
        /\ \A j \in 1..J : p[j + d] = Q!Shifted(p[(j - 1) + d])
    <3>1. ASSUME NEW j \in 0..J PROVE p[j + d] \in Residues
      <4>1. j + d \in 0..(n + 24)
        BY <1>2, <2>1, <2>2
      <4>. QED
        BY <4>1 DEF PowersTo
    <3>2. ASSUME NEW j \in 1..J PROVE p[j + d] = Q!Shifted(p[(j - 1) + d])
      <4>1. j + d \in 1..(n + 24) /\ (j + d) - 1 = (j - 1) + d
        BY <1>2, <2>1, <2>2
      <4>. QED
        BY <4>1 DEF PowersTo
    <3>. QED
      BY <3>1, <3>2
  <2>4. /\ \A j \in 0..J : h[j] \in Residues
        /\ \A j \in 1..J : h[j] = Q!Shifted(h[j - 1])
    BY <1>1 DEF Course
  <2>5. Course(J, g)
    <3>1. ASSUME NEW j \in 0..J PROVE Q!Xor(h[j], p[j + d]) \in Residues
      BY <2>3, <2>4, ShiftLinear
    <3>2. ASSUME NEW j \in 1..J PROVE g[j] = Q!Shifted(g[j - 1])
      <4>1. j \in 0..J /\ j - 1 \in 0..J
        BY <1>2
      <4>2. g[j] = Q!Xor(h[j], p[j + d]) /\ g[j - 1] = Q!Xor(h[j - 1], p[(j - 1) + d])
        BY <4>1
      <4>3. h[j - 1] \in Residues /\ p[(j - 1) + d] \in Residues
        BY <2>3, <2>4, <4>1
      <4>4. Q!Shifted(Q!Xor(h[j - 1], p[(j - 1) + d])) =
                Q!Xor(Q!Shifted(h[j - 1]), Q!Shifted(p[(j - 1) + d]))
        BY <4>3, ShiftLinear
      <4>. HIDE DEF g
      <4>. QED
        BY <2>3, <2>4, <4>2, <4>4
    <3>3. g \in [0..J -> Residues]
      BY <3>1
    <3>. HIDE DEF g
    <3>. QED
      BY <3>2, <3>3 DEF Course
  <2>6. g[0] = behind(m + 1)
    <3>1. g[0] = Q!Xor(h[0], p[d])
      <4>1. 0 \in 0..J /\ 0 + d = d
        BY <1>2, <2>1
      <4>. QED
        BY <4>1
    <3>2. p[d] = {d}
      BY <2>1, LowPowers
    <3>3. d \notin behind(m)
      BY <1>2 DEF d
    <3>4. behind(m + 1) = behind(m) \cup {d}
      <4>1. \A x \in W : x < m + 1 <=> (x < m \/ x = m)
        BY <1>2
      <4>. QED
        BY <1>5, <4>1 DEF d
    <3>. HIDE DEF behind, g
    <3>. QED
      BY <1>1, <3>1, <3>2, <3>3, <3>4 DEF Q!Xor
  <2>7. Q!Xor(r[m + 1], s[m + 1]) = g[J]
    <3>1. g[J] = Q!Xor(h[J], q)
      BY <1>2, <2>2
    <3>2. Q!BitAt(a, m) = 1 <=> ~(Q!BitAt(b, m) = 1)
      <4>1. Q!BitAt(a, m) \in 0..1 /\ Q!BitAt(b, m) \in 0..1 /\ Q!BitAt(a, m) # Q!BitAt(b, m)
        BY <1>5 DEF Differ
      <4>. QED
        BY <4>1
    <3>. HIDE DEF g, q
    <3>3. /\ Q!Xor(Q!Xor(r[m], q), s[m]) = Q!Xor(Q!Xor(r[m], s[m]), q)
          /\ Q!Xor(r[m], Q!Xor(s[m], q)) = Q!Xor(Q!Xor(r[m], s[m]), q)
      BY DEF Q!Xor
    <3>. QED
      BY <1>1, <1>3, <3>1, <3>2, <3>3
  <2>. HIDE DEF g
  <2>. QED
    BY <2>5, <2>6, <2>7 DEF Apart, J
<1>. QED
  BY <1>4, <1>5

LEMMA NotYetApart ==
    ASSUME NEW a, NEW b, NEW n \in Nat, NEW p, NEW r, NEW s, NEW W, NEW last,
           SumTo(a, n, 0, p, r), SumTo(b, n, 0, p, s), Differ(a, b, n, W, last)
    PROVE  Apart(n, W, last, r, s, 0)
<1>. DEFINE J == n - 1 - last
            h == [j \in 0..J |-> {}]
<1>1. J \in Nat /\ W \subseteq Nat
  BY DEF Differ
<1>. HIDE DEF J
<1>2. Course(J, h)
  <2>1. \A j \in 1..J : j \in 0..J /\ j - 1 \in 0..J
    BY <1>1
  <2>. QED
    BY <2>1, ShiftNothing DEF Course
<1>3. h[0] = {} /\ h[J] = {}
  BY <1>1
<1>4. {last - k : k \in {k \in W : k < 0}} = {}
  BY <1>1
<1>5. Q!Xor(r[0], s[0]) = {}
  BY DEF SumTo, Q!Xor
<1>. HIDE DEF h
<1>. QED
  BY <1>2, <1>3, <1>4, <1>5 DEF Apart, J

\* Bits that differ within 24 do not have the same sum.
LEMMA SumsDiffer ==
    ASSUME NEW a, NEW b, NEW n \in Nat, NEW p, NEW r, NEW s, NEW W, NEW last,
           PowersTo(n + 24, p), SumTo(a, n, 0, p, r), SumTo(b, n, 0, p, s),
           Differ(a, b, n, W, last)
    PROVE  r[n] # s[n]
<1>1. \A m \in 0..n : Apart(n, W, last, r, s, m)
  <2>. DEFINE Bad == {m \in 0..n : ~Apart(n, W, last, r, s, m)}
  <2>1. SUFFICES ASSUME Bad # {} PROVE FALSE
    OBVIOUS
  <2>2. PICK m \in Bad : \A y \in Bad : m <= y
    <3>1. Bad \subseteq Nat
      OBVIOUS
    <3>. QED
      BY <2>1, <3>1, Least
  <2>3. m # 0
    BY <2>2, NotYetApart
  <2>4. m - 1 \in 0..(n - 1) /\ (m - 1) + 1 = m /\ m - 1 \notin Bad /\ m - 1 \in 0..n
    BY <2>2, <2>3
  <2>5. Apart(n, W, last, r, s, m - 1)
    BY <2>4
  <2>6. Apart(n, W, last, r, s, (m - 1) + 1)
    <3>. HIDE DEF Bad
    <3>. QED
      BY <2>4, <2>5, NextApart
  <2>. QED
    BY <2>2, <2>4, <2>6
<1>. DEFINE J == n - 1 - last
<1>2. PICK h : /\ Course(J, h) /\ h[0] = {last - k : k \in {k \in W : k < n}}
               /\ Q!Xor(r[n], s[n]) = h[J]
  <2>1. n \in 0..n
    OBVIOUS
  <2>. QED
    BY <1>1, <2>1 DEF Apart
<1>3. J \in Nat /\ last - last \in h[0]
  BY <1>2 DEF Differ
<1>. HIDE DEF J
<1>4. h[J] # {}
  BY <1>2, <1>3, CourseLives
<1>5. Q!Xor(r[n], r[n]) = {}
  BY XorFacts
<1>. QED
  BY <1>2, <1>4, <1>5

\* What a one at weight low + j counts in the byte from low on.
Count(S, low, j) == IF low + j \in S THEN 1 ELSE 0

\* A byte of the register is the number of its eight bits.
LEMMA ByteOfBits ==
    ASSUME NEW S, NEW low \in Nat
    PROVE  Q!ByteFrom(S, low) =
               Count(S, low, 0) + 2 * Count(S, low, 1) + 4 * Count(S, low, 2)
               + 8 * Count(S, low, 3) + 16 * Count(S, low, 4) + 32 * Count(S, low, 5)
               + 64 * Count(S, low, 6) + 128 * Count(S, low, 7)
<1>. DEFINE more(k) == IF low + k - 1 \in S THEN 2^(k - 1) ELSE 0
            F(f) == f = [k \in 0..8 |-> IF k = 0 THEN 0 ELSE f[k - 1] + more(k)]
            next == [k \in 1..8 |-> [x \in Int |-> x + more(k)]]
            v == CHOOSE f : F(f)
<1>1. Q!ByteFrom(S, low) = v[8]
  BY DEF Q!ByteFrom
<1>2. \A k \in 1..8 : more(k) \in Int
  <2>1. /\ 2^0 = 1 /\ 2^1 = 2 /\ 2^2 = 4 /\ 2^3 = 8
        /\ 2^4 = 16 /\ 2^5 = 32 /\ 2^6 = 64 /\ 2^7 = 128
    OBVIOUS
  <2>. DEFINE P(m) == 2^m
  <2>2. /\ P(0) = 1 /\ P(1) = 2 /\ P(2) = 4 /\ P(3) = 8
        /\ P(4) = 16 /\ P(5) = 32 /\ P(6) = 64 /\ P(7) = 128
    BY <2>1
  <2>. HIDE DEF P
  <2>3. \A k \in 1..8 : P(k - 1) \in Int
    BY <2>2
  <2>. QED
    BY <2>3 DEF P
<1>. HIDE DEF more
<1>3. PICK g : StepsOf(Int, 0, 8, next, g)
  <2>. DEFINE start == 0
              n == 8
  <2>1. next \in [1..n -> [Int -> Int]] /\ start \in Int /\ n \in Nat
    BY <1>2
  <2>. HIDE DEF next, start, n
  <2>2. \E g : StepsOf(Int, start, n, next, g)
    BY <2>1, StepsExist
  <2>. QED
    BY <2>2 DEF start, n
<1>4. F(g)
  <2>1. \A k \in 1..8 : g[k] = g[k - 1] + more(k)
    <3>1. \A k \in 1..8 : k - 1 \in 0..8
      OBVIOUS
    <3>. QED
      BY <1>3, <3>1 DEF StepsOf
  <2>2. \A k \in 0..8 : k # 0 => k \in 1..8
    OBVIOUS
  <2>3. \A k \in 0..8 : g[k] = IF k = 0 THEN 0 ELSE g[k - 1] + more(k)
    BY <1>3, <2>1, <2>2 DEF StepsOf
  <2>. QED
    BY <1>3, <2>3 DEF StepsOf
<1>5. F(v)
  BY <1>4
<1>. HIDE DEF v
<1>6. /\ v[0] = 0 /\ v[1] = v[0] + more(1) /\ v[2] = v[1] + more(2) /\ v[3] = v[2] + more(3)
      /\ v[4] = v[3] + more(4) /\ v[5] = v[4] + more(5) /\ v[6] = v[5] + more(6)
      /\ v[7] = v[6] + more(7) /\ v[8] = v[7] + more(8)
  <2>1. \A k \in 0..8 : v[k] = IF k = 0 THEN 0 ELSE v[k - 1] + more(k)
    BY <1>5
  <2>. HIDE DEF F
  <2>. QED
    BY <2>1
<1>7. /\ more(1) = Count(S, low, 0) /\ more(2) = 2 * Count(S, low, 1)
      /\ more(3) = 4 * Count(S, low, 2) /\ more(4) = 8 * Count(S, low, 3)
      /\ more(5) = 16 * Count(S, low, 4) /\ more(6) = 32 * Count(S, low, 5)
      /\ more(7) = 64 * Count(S, low, 6) /\ more(8) = 128 * Count(S, low, 7)
  BY DEF more, Count
<1>8. \A j : Count(S, low, j) \in 0..1
  BY DEF Count
<1>. HIDE DEF F
<1>. QED
  BY <1>1, <1>6, <1>7, <1>8

\* What crc24q() returns fits into 24 bits.
LEMMA CrcFits ==
    ASSUME NEW b \in Seq(0..255)
    PROVE  Q!crc24q(b) \in Residues
<1>. DEFINE n == 8 * Len(b)
<1>1. n \in Nat
  BY LenProperties
<1>2. PICK c : CrcTurns(b, n, c) /\ Q!crc24q(b) = c[n]
  BY <1>1, CrcLoop
<1>. HIDE DEF n
<1>3. n \in 0..n
  BY <1>1
<1>. QED
  BY <1>2, <1>3 DEF CrcTurns

\* The bits of a byte of the register are those that it was made from.
LEMMA BitsOfByte ==
    ASSUME NEW S, NEW low \in Nat
    PROVE  /\ Q!ByteFrom(S, low) \in 0..255
           /\ \A j \in 0..7 : (Q!ByteFrom(S, low) \div 2^j) % 2 = Count(S, low, j)
<1>. DEFINE c(j) == Count(S, low, j)
            v == Q!ByteFrom(S, low)
            P(j) == 2^j
<1>1. /\ c(0) \in 0..1 /\ c(1) \in 0..1 /\ c(2) \in 0..1 /\ c(3) \in 0..1
      /\ c(4) \in 0..1 /\ c(5) \in 0..1 /\ c(6) \in 0..1 /\ c(7) \in 0..1
  BY DEF Count
<1>2. v = c(0) + 2 * c(1) + 4 * c(2) + 8 * c(3) + 16 * c(4) + 32 * c(5) + 64 * c(6)
          + 128 * c(7)
  BY ByteOfBits
<1>3. P(0) = 1 /\ P(1) = 2 /\ P(2) = 4 /\ P(3) = 8
      /\ P(4) = 16 /\ P(5) = 32 /\ P(6) = 64 /\ P(7) = 128
  OBVIOUS
<1>. HIDE DEF c, v, P
<1>4. v \in 0..255
  BY <1>1, <1>2
<1>5. (v \div 1) % 2 = c(0)
  BY <1>1, <1>2
<1>6. (v \div 2) % 2 = c(1)
  BY <1>1, <1>2
<1>7. (v \div 4) % 2 = c(2)
  BY <1>1, <1>2
<1>8. (v \div 8) % 2 = c(3)
  BY <1>1, <1>2
<1>9. (v \div 16) % 2 = c(4)
  BY <1>1, <1>2
<1>10. (v \div 32) % 2 = c(5)
  BY <1>1, <1>2
<1>11. (v \div 64) % 2 = c(6)
  BY <1>1, <1>2
<1>12. (v \div 128) % 2 = c(7)
  BY <1>1, <1>2
<1>13. \A j \in 0..7 : (v \div P(j)) % 2 = c(j)
  BY <1>3, <1>5, <1>6, <1>7, <1>8, <1>9, <1>10, <1>11, <1>12
<1>. QED
  BY <1>4, <1>13 DEF v, c, P

\* A sum of powers can be followed through any number of bits.
LEMMA SumExists ==
    ASSUME NEW b, NEW n \in Nat, NEW up \in {0, 24}, NEW p, PowersTo(n + 24, p)
    PROVE  \E s : SumTo(b, n, up, p, s)
<1>. DEFINE more(k, S) == IF Q!BitAt(b, k - 1) = 1 THEN Q!Xor(S, p[n - k + up]) ELSE S
            next == [k \in 1..n |-> [S \in Residues |-> more(k, S)]]
            start == {}
<1>1. ASSUME NEW k \in 1..n, NEW S \in Residues PROVE more(k, S) \in Residues
  <2>1. n - k + up \in 0..(n + 24)
    OBVIOUS
  <2>2. p[n - k + up] \in Residues
    BY <2>1 DEF PowersTo
  <2>3. Q!Xor(S, p[n - k + up]) \in Residues
    BY <2>2, ShiftLinear
  <2>. QED
    BY <2>3
<1>2. start \in Residues
  BY DEF Residues
<1>. HIDE DEF more
<1>3. next \in [1..n -> [Residues -> Residues]]
  BY <1>1
<1>4. PICK s : StepsOf(Residues, start, n, next, s)
  <2>. HIDE DEF next, start
  <2>. QED
    BY <1>2, <1>3, StepsExist
<1>5. \A k \in 1..n : s[k] = more(k, s[k - 1])
  <2>1. \A k \in 1..n : k - 1 \in 0..n
    OBVIOUS
  <2>. QED
    BY <1>4, <2>1 DEF StepsOf
<1>6. s \in [0..n -> Residues] /\ s[0] = {}
  BY <1>4 DEF StepsOf
<1>. HIDE DEF next, start
<1>. QED
  BY <1>5, <1>6 DEF SumTo, more

\* A message with its checksum.
Codeword(b) == b \o Q!ChecksumBytes(b)

\* The bits of a codeword: those of the message, then those of the register.
LEMMA CodewordBits ==
    ASSUME NEW b \in Seq(0..255), NEW n \in Nat, n = 8 * Len(b)
    PROVE  /\ Codeword(b) \in Seq(0..255) /\ 8 * Len(Codeword(b)) = n + 24
           /\ \A k \in 0..(n - 1) : Q!BitAt(Codeword(b), k) = Q!BitAt(b, k)
           /\ \A j \in 0..23 : Q!BitAt(Codeword(b), n + j) = 1 <=> 23 - j \in Q!crc24q(b)
<1>. DEFINE S == Q!crc24q(b)
            t == Q!ChecksumBytes(b)
            f == Codeword(b)
            m == Len(b)
<1>1. t = <<Q!ByteFrom(S, 16), Q!ByteFrom(S, 8), Q!ByteFrom(S, 0)>>
  BY DEF Q!ChecksumBytes
<1>2. m \in Nat /\ n = 8 * m
  BY LenProperties
<1>3. b \in Seq(0..255) /\ Len(b) = m
  OBVIOUS
<1>. HIDE DEF S, t, m
<1>4. /\ Q!ByteFrom(S, 16) \in 0..255 /\ Q!ByteFrom(S, 8) \in 0..255
      /\ Q!ByteFrom(S, 0) \in 0..255
  BY BitsOfByte
<1>5. t \in Seq(0..255) /\ Len(t) = 3
      /\ t[1] = Q!ByteFrom(S, 16) /\ t[2] = Q!ByteFrom(S, 8) /\ t[3] = Q!ByteFrom(S, 0)
  BY <1>1, <1>4
<1>6. f = b \o t
  BY DEF Codeword, t
<1>. HIDE DEF f
<1>7. /\ f \in Seq(0..255) /\ Len(f) = m + 3
      /\ \A x \in 1..m : f[x] = b[x]
      /\ \A x \in 1..3 : f[m + x] = t[x]
  <2>. DEFINE B == 0..255
  <2>1. b \in Seq(B) /\ t \in Seq(B)
    BY <1>3, <1>5
  <2>. HIDE DEF B
  <2>2. /\ f \in Seq(B) /\ Len(f) = m + 3
        /\ \A x \in 1..(m + 3) : f[x] = IF x <= m THEN b[x] ELSE t[x - m]
    <3>1. /\ b \o t \in Seq(B) /\ Len(b \o t) = Len(b) + Len(t)
          /\ \A x \in 1..(Len(b) + Len(t)) :
               (b \o t)[x] = IF x <= Len(b) THEN b[x] ELSE t[x - Len(b)]
      BY <2>1, ConcatProperties, Zenon
    <3>2. Len(b) = m /\ Len(t) = 3
      BY <1>3, <1>5
    <3>. QED
      BY <1>6, <3>1, <3>2, Zenon
  <2>3. \A x \in 1..m : x \in 1..(m + 3) /\ x <= m
    BY <1>2
  <2>4. \A x \in 1..3 : m + x \in 1..(m + 3) /\ ~(m + x <= m) /\ (m + x) - m = x
    BY <1>2
  <2>. QED
    BY <2>2, <2>3, <2>4 DEF B
<1>8. ASSUME NEW k \in 0..(n - 1) PROVE Q!BitAt(f, k) = Q!BitAt(b, k)
  <2>1. (k \div 8) + 1 \in 1..m
    BY <1>2
  <2>. QED
    BY <1>7, <2>1 DEF Q!BitAt
<1>9. ASSUME NEW j \in 0..23 PROVE Q!BitAt(f, n + j) = 1 <=> 23 - j \in S
  <2>. DEFINE x == (j \div 8) + 1
              low == 24 - 8 * x
              e == 7 - (j % 8)
  <2>1. /\ x \in 1..3 /\ low \in Nat /\ low \in {0, 8, 16} /\ e \in 0..7 /\ low + e = 23 - j
        /\ ((n + j) \div 8) + 1 = m + x /\ 7 - ((n + j) % 8) = e
    BY <1>2
  <2>2. f[m + x] = Q!ByteFrom(S, low)
    <3>1. x \in {1, 2, 3} /\ (x = 1 => low = 16) /\ (x = 2 => low = 8) /\ (x = 3 => low = 0)
      BY <2>1
    <3>. HIDE DEF x, low
    <3>. QED
      BY <1>5, <1>7, <2>1, <3>1
  <2>3. Q!BitAt(f, n + j) = (f[((n + j) \div 8) + 1] \div 2^(7 - ((n + j) % 8))) % 2
    BY DEF Q!BitAt
  <2>. HIDE DEF x, low, e
  <2>4. Q!BitAt(f, n + j) = (Q!ByteFrom(S, low) \div 2^e) % 2
    BY <2>1, <2>2, <2>3
  <2>5. Q!BitAt(f, n + j) = Count(S, low, e)
    BY <2>1, <2>4, BitsOfByte
  <2>. QED
    BY <2>1, <2>5 DEF Count
<1>10. 8 * Len(f) = n + 24
  <2>1. 8 * (m + 3) = n + 24
    BY <1>2
  <2>2. Len(f) = m + 3
    BY <1>7
  <2>. QED
    BY <2>1, <2>2
<1>. QED
  BY <1>7, <1>8, <1>9, <1>10 DEF f, S

\* The sum of the powers of a codeword is nothing: the checksum takes away what
\* the message has left.
LEMMA CodewordSum ==
    ASSUME NEW b \in Seq(0..255), NEW n \in Nat, n = 8 * Len(b), NEW p, NEW s,
           PowersTo((n + 24) + 24, p), SumTo(Codeword(b), n + 24, 0, p, s)
    PROVE  s[n + 24] = {}
<1>. DEFINE f == Codeword(b)
            S == Q!crc24q(b)
            left(j) == {e \in S : e < 24 - j}
<1>1. PICK q, r : PowersTo(n + 24, q) /\ SumTo(b, n, 24, q, r) /\ Q!Remainder(b) = r[n]
  BY RemainderLoop
<1>2. \A k \in 0..(n + 24) : p[k] = q[k]
  <2>1. n + 24 \in Nat /\ (n + 24) + 24 \in Nat /\ n + 24 <= (n + 24) + 24
    OBVIOUS
  <2>. QED
    BY <1>1, <2>1, OnePowers
<1>3. /\ \A k \in 0..(n - 1) : Q!BitAt(f, k) = Q!BitAt(b, k)
      /\ \A j \in 0..23 : Q!BitAt(f, n + j) = 1 <=> 23 - j \in S
  BY CodewordBits
<1>4. S \subseteq 0..23
  BY CrcFits DEF Residues
<1>5. S = r[n]
  BY <1>1, ChecksumCorrect
<1>. HIDE DEF f, S
<1>6. /\ s[0] = {}
      /\ \A k \in 1..(n + 24) :
            s[k] = IF Q!BitAt(f, k - 1) = 1 THEN Q!Xor(s[k - 1], p[n + 24 - k]) ELSE s[k - 1]
  <2>1. \A k \in 1..(n + 24) : (n + 24) - k + 0 = n + 24 - k
    OBVIOUS
  <2>. QED
    BY <2>1 DEF SumTo, f
<1>7. s[n] = S
  <2>1. \A k \in 1..n : /\ k - 1 \in 0..(n - 1) /\ k \in 1..(n + 24)
                        /\ n + 24 - k \in 0..(n + 24) /\ n - k + 24 = n + 24 - k
    OBVIOUS
  <2>2. Alike(n, s, r)
    <3>1. s[0] = r[0]
      BY <1>1, <1>6 DEF SumTo
    <3>2. ASSUME NEW k \in 1..n, s[k - 1] = r[k - 1] PROVE s[k] = r[k]
      <4>1. r[k] = IF Q!BitAt(b, k - 1) = 1 THEN Q!Xor(r[k - 1], q[n - k + 24]) ELSE r[k - 1]
        BY <1>1 DEF SumTo
      <4>2. p[n + 24 - k] = q[n - k + 24]
        BY <1>2, <2>1
      <4>3. Q!BitAt(f, k - 1) = Q!BitAt(b, k - 1)
        BY <1>3, <2>1
      <4>4. s[k] = IF Q!BitAt(f, k - 1) = 1 THEN Q!Xor(s[k - 1], p[n + 24 - k]) ELSE s[k - 1]
        BY <1>6, <2>1
      <4>. QED
        BY <3>2, <4>1, <4>2, <4>3, <4>4
    <3>. QED
      BY <3>1, <3>2 DEF Alike
  <2>3. n \in 0..n
    OBVIOUS
  <2>. QED
    BY <1>5, <2>2, <2>3, SameSteps
<1>8. left(0) = S /\ left(24) = {}
  <2>1. \A e \in S : e < 24 - 0 /\ ~(e < 24 - 24)
    BY <1>4
  <2>. QED
    BY <2>1
<1>9. ASSUME NEW j \in 1..24
      PROVE  /\ left(j) = {e \in S : e < 24 - j}
             /\ left(j - 1) = {e \in S : e < 24 - j \/ e = 24 - j}
  <2>1. \A e \in S : e < 24 - (j - 1) <=> (e < 24 - j \/ e = 24 - j)
    BY <1>4
  <2>. QED
    BY <2>1
<1>. HIDE DEF left
<1>10. \A j \in 0..24 : s[n + j] = left(j)
  <2>. DEFINE Bad == {j \in 0..24 : s[n + j] # left(j)}
  <2>1. SUFFICES ASSUME Bad # {} PROVE FALSE
    OBVIOUS
  <2>2. PICK j \in Bad : \A y \in Bad : j <= y
    <3>1. Bad \subseteq Nat
      <4>. DEFINE T == 0..24
      <4>1. T \subseteq Nat
        OBVIOUS
      <4>2. Bad \subseteq T
        BY Zenon
      <4>. QED
        BY <4>1, <4>2, Zenon
    <3>. QED
      BY <2>1, <3>1, Least
  <2>3. j # 0
    BY <1>7, <1>8, <2>2
  <2>. DEFINE x == 24 - j
  <2>4. j \in 1..24 /\ j - 1 \in 0..24 /\ j - 1 \notin Bad
    BY <2>2, <2>3
  <2>5. /\ j - 1 \in 0..23 /\ n + j \in 1..(n + 24) /\ (n + j) - 1 = n + (j - 1)
        /\ n + 24 - (n + j) = x /\ x \in 0..23 /\ 23 - (j - 1) = x
    BY <2>4
  <2>6. s[n + (j - 1)] = left(j - 1)
    BY <2>4
  <2>7. s[n + j] = IF Q!BitAt(f, n + (j - 1)) = 1 THEN Q!Xor(s[n + (j - 1)], p[x])
                                                  ELSE s[n + (j - 1)]
    BY <1>6, <2>5
  <2>8. Q!BitAt(f, n + (j - 1)) = 1 <=> x \in S
    BY <1>3, <2>5
  <2>9. p[x] = {x}
    <3>1. n + 24 \in Nat
      OBVIOUS
    <3>2. \A e \in 0..23 : p[e] = {e}
      BY <3>1, LowPowers
    <3>. HIDE DEF x
    <3>. QED
      BY <2>5, <3>2
  <2>10. left(j) = {e \in S : e < x} /\ left(j - 1) = {e \in S : e < x \/ e = x}
    BY <1>9, <2>4
  <2>11. ~(x < x)
    BY <2>5
  <2>. HIDE DEF x, Bad
  <2>12. s[n + j] = left(j)
    BY <2>6, <2>7, <2>8, <2>9, <2>10, <2>11 DEF Q!Xor
  <2>. QED
    BY <2>2, <2>12 DEF Bad
<1>11. 24 \in 0..24
  OBVIOUS
<1>. QED
  BY <1>8, <1>10, <1>11

\* The bits in which b differs from a, and that they are some of 24 successive
\* ones.
WrongBits(a, b) == {k \in 0..(8 * Len(a) - 1) : Q!BitAt(a, k) # Q!BitAt(b, k)}
Burst(a, b) == /\ Len(a) = Len(b) /\ WrongBits(a, b) # {}
               /\ \E first \in Nat : WrongBits(a, b) \subseteq first..(first + 23)

(* No message with its checksum becomes another one with the checksum of    *)
(* that by any damage to some of 24 successive bits, wherever those are in  *)
(* the message or in the checksum and however long the message: crc24q()    *)
(* notices every such burst of wrong bits, and so every wrong bit.          *)
THEOREM BurstNoticed == \A x, y \in Seq(0..255) : ~Burst(Codeword(x), Codeword(y))
<1>. SUFFICES ASSUME NEW x \in Seq(0..255), NEW y \in Seq(0..255),
                     Burst(Codeword(x), Codeword(y))
              PROVE  FALSE
  OBVIOUS
<1>. DEFINE a == Codeword(x)
            b == Codeword(y)
            n == 8 * Len(x)
            N == n + 24
            W == WrongBits(a, b)
<1>1. n \in Nat /\ N \in Nat /\ N + 24 \in Nat
  BY LenProperties
<1>2. a \in Seq(0..255) /\ b \in Seq(0..255) /\ 8 * Len(a) = N /\ 8 * Len(b) = 8 * Len(y) + 24
  <2>1. 8 * Len(y) \in Nat
    BY LenProperties
  <2>. QED
    BY <1>1, <2>1, CodewordBits
<1>3. 8 * Len(b) = N /\ n = 8 * Len(y)
  <2>1. Len(a) = Len(b)
    BY DEF Burst
  <2>. DEFINE u == 8 * Len(y)
  <2>2. u \in Nat /\ 8 * Len(b) = u + 24
    BY <1>2, LenProperties
  <2>3. 8 * Len(b) = N
    BY <1>2, <2>1
  <2>. HIDE DEF a, b, n, u
  <2>4. n = u
    BY <1>1, <2>2, <2>3
  <2>. QED
    BY <2>3, <2>4 DEF u
<1>4. PICK p : PowersTo(N + 24, p)
  BY <1>1, PowerLoop
<1>5. PICK r, s : SumTo(a, N, 0, p, r) /\ SumTo(b, N, 0, p, s)
  <2>. HIDE DEF N, a, b
  <2>1. (\E r : SumTo(a, N, 0, p, r)) /\ (\E s : SumTo(b, N, 0, p, s))
    BY <1>1, <1>4, SumExists
  <2>. QED
    BY <2>1
<1>6. r[N] = {} /\ s[N] = {}
  <2>1. r[N] = {}
    BY <1>1, <1>4, <1>5, CodewordSum
  <2>2. s[N] = {}
    <3>. HIDE DEF n
    <3>. QED
      BY <1>1, <1>3, <1>4, <1>5, CodewordSum
  <2>. QED
    BY <2>1, <2>2
<1>7. W = {k \in 0..(N - 1) : Q!BitAt(a, k) # Q!BitAt(b, k)} /\ W # {}
  BY <1>2 DEF WrongBits, Burst
<1>8. PICK first \in Nat : W \subseteq first..(first + 23)
  BY DEF Burst
<1>. HIDE DEF W, a, b, N
<1>9. PICK last \in W : \A k \in W : k <= last
  <2>. DEFINE T == {N - k : k \in W}
  <2>1. T \subseteq Nat /\ T # {}
    BY <1>1, <1>7
  <2>2. PICK t \in T : \A z \in T : t <= z
    BY <2>1, Least
  <2>3. PICK last \in W : t = N - last
    BY <2>2
  <2>4. ASSUME NEW k \in W PROVE k <= last
    <3>1. N - k \in T /\ k \in Int /\ last \in Int
      BY <1>1, <1>7, <2>3
    <3>2. N - last <= N - k
      BY <2>2, <2>3, <3>1
    <3>. HIDE DEF T
    <3>. QED
      BY <1>1, <3>1, <3>2
  <2>. QED
    BY <2>3, <2>4
<1>10. Differ(a, b, N, W, last)
  <2>1. W \subseteq (last - 23)..last
    BY <1>8, <1>9
  <2>2. \A k \in 0..(N - 1) : Q!BitAt(a, k) \in 0..1 /\ Q!BitAt(b, k) \in 0..1
    BY <1>2, <1>3, BitFacts
  <2>. QED
    BY <1>7, <1>9, <2>1, <2>2 DEF Differ
<1>11. r[N] # s[N]
  BY <1>1, <1>4, <1>5, <1>10, SumsDiffer
<1>. QED
  BY <1>6, <1>11

(* With the code's checksum, a frame that was damaged in some of 24         *)
(* successive bits on its way is not taken for good: if it still claims the *)
(* length that was sent, push() finds that its checksum does not match,     *)
(* whether the header, the payload or the checksum was hit.  This holds at  *)
(* any place of any stream.                                                 *)
THEOREM DamageNoticed ==
    ASSUME \A b \in Seq(Byte) : Crc(b) = Q!ChecksumBytes(b),
           NEW sent \in Seq(Byte), NEW received \in Seq(Byte), NEW k \in Nat, NEW n \in Nat,
           FrameIn(sent, k), n = frame_len(sent, k), frame_len(received, k) = n,
           Burst(SubSeq(sent, k + 1, k + n), SubSeq(received, k + 1, k + n))
    PROVE  ~FrameIn(received, k)
<1>. SUFFICES ASSUME FrameIn(received, k) PROVE FALSE
  OBVIOUS
<1>1. ASSUME NEW w \in Seq(Byte), FrameIn(w, k), frame_len(w, k) = n
      PROVE  \E x \in Seq(Byte) : SubSeq(w, k + 1, k + n) = Codeword(x)
  <2>. DEFINE m == 3 + payload_len(w, k)
              x == SubSeq(w, k + 1, k + m)
  <2>1. k + 3 <= Len(w) /\ k + n <= Len(w) /\ Len(w) \in Nat
    BY <1>1, LenProperties DEF FrameIn, Complete
  <2>2. payload_len(w, k) \in PayloadLengths
    BY <1>1, <2>1, LengthRange
  <2>3. m \in Nat /\ n = m + 3
    BY <1>1, <2>2, FrameRange DEF frame_len
  <2>. HIDE DEF m
  <2>4. x \in Seq(Byte)
    <3>1. \A z \in (k + 1)..(k + m) : w[z] \in Byte
      <4>1. \A z \in (k + 1)..(k + m) : z \in 1..Len(w)
        BY <2>1, <2>3
      <4>. QED
        BY <1>1, <4>1, ElementOfSeq
    <3>2. k + 1 \in Int /\ k + m \in Int
      BY <2>3
    <3>. QED
      BY <3>1, <3>2, SubSeqProperties
  <2>5. SubSeq(w, k + m + 1, k + m + 3) = Q!ChecksumBytes(x)
    BY <1>1, <2>4 DEF FrameIn, CrcMatches, m
  <2>6. SubSeq(w, k + 1, k + m) \o SubSeq(w, k + m + 1, k + m + 3) = SubSeq(w, k + 1, k + m + 3)
    <3>. DEFINE t == k + m
    <3>1. t \in Nat /\ k <= t /\ t + 3 <= Len(w) /\ 3 \in Nat
      BY <2>1, <2>3
    <3>. HIDE DEF t
    <3>2. SubSeq(w, k + 1, t) \o SubSeq(w, t + 1, t + 3) = SubSeq(w, k + 1, t + 3)
      BY <1>1, <3>1, ConcatSubSeq
    <3>. QED
      BY <3>2 DEF t
  <2>7. k + m + 3 = k + n
    BY <2>3
  <2>. QED
    BY <2>4, <2>5, <2>6, <2>7 DEF Codeword
<1>2. PICK x \in Seq(Byte) : SubSeq(sent, k + 1, k + n) = Codeword(x)
  BY <1>1
<1>3. PICK y \in Seq(Byte) : SubSeq(received, k + 1, k + n) = Codeword(y)
  BY <1>1
<1>. QED
  BY <1>2, <1>3, BurstNoticed DEF Byte
==============================================================================
