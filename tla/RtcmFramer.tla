------------------------------ MODULE RtcmFramer ------------------------------
(***************************************************************************)
(* RtcmStreamFramer: cuts RTCM frames out of a byte stream that arrives in *)
(* pieces of any size.  A frame is the preamble 0xD3, two bytes with the   *)
(* length of the payload, the payload, and a checksum of all of these.     *)
(*                                                                         *)
(* push() is a loop over buf_; each of its iterations is a step here.  The *)
(* stream is fixed when a behaviour starts, so that what was decoded can   *)
(* be compared with what was sent.  Offsets count from 0 as in the code:   *)
(* the byte at offset k of b is b[k + 1].                                  *)
(***************************************************************************)
EXTENDS Naturals, Sequences, FiniteSets

CONSTANTS
    Wires,              \* the byte streams that may be sent
    Crc(_),             \* crc24q: the three checksum bytes of some bytes
    MaxBuffer           \* max_buffer_

Byte == 0..255
Preamble == 211         \* 0xD3
MaxFrameLen == 3 + 1023 + 3

ASSUME FramerAssumption == /\ Wires \subseteq Seq(Byte)
                           /\ MaxBuffer \in Nat /\ MaxFrameLen <= MaxBuffer

VARIABLES
    pc,                 \* "idle", or "scan" inside push()
    buf_, i,            \* the bytes not yet done with; the cursor of push()
    frames_ok_, frames_bad_crc_,
    wire,               \* the stream
    got,                \* how much of it was pushed
    base,               \* the offset in the stream of the first byte of buf_
    decoded             \* the offsets of the frames handed to the decoder

vars == <<pc, buf_, i, frames_ok_, frames_bad_crc_, wire, got, base, decoded>>

------------------------------------------------------------------------------
(* A candidate frame at offset k of the bytes b. *)

AtPreamble(b, k) == k < Len(b) /\ b[k + 1] = Preamble

payload_len(b, k) == (b[k + 2] % 4) * 256 + b[k + 3]

frame_len(b, k) == 3 + payload_len(b, k) + 3

\* Faulty: a frame that ends with the buffer is taken for an incomplete one.
CompleteWithMore(b, k) == k + 3 <= Len(b) /\ k + frame_len(b, k) < Len(b)

\* There are enough bytes for the candidate's length and for all of it.
Complete(b, k) == k + 3 <= Len(b) /\ k + frame_len(b, k) <= Len(b)

CrcMatches(b, k) ==
    LET n == 3 + payload_len(b, k)
    IN  SubSeq(b, k + n + 1, k + n + 3) = Crc(SubSeq(b, k + 1, k + n))

------------------------------------------------------------------------------
Init == /\ pc = "idle"
        /\ buf_ = <<>> /\ i = 0
        /\ frames_ok_ = 0 /\ frames_bad_crc_ = 0
        /\ wire \in Wires
        /\ got = 0 /\ base = 0 /\ decoded = <<>>

\* push() is called with the next n bytes (with none it returns at once).
push(n) ==
    /\ pc = "idle"
    /\ got + n <= Len(wire)
    /\ buf_' = buf_ \o SubSeq(wire, got + 1, got + n)
    /\ got' = got + n
    /\ i' = 0
    /\ pc' = "scan"
    /\ UNCHANGED <<frames_ok_, frames_bad_crc_, wire, base, decoded>>

\* Not a preamble: look further.
SkipByte ==
    /\ pc = "scan"
    /\ i < Len(buf_) /\ ~AtPreamble(buf_, i)
    /\ i' = i + 1
    /\ UNCHANGED <<pc, buf_, frames_ok_, frames_bad_crc_, wire, got, base, decoded>>

\* Faulty: the payload of a decoded frame is scanned too.
FrameOkScanningOn ==
    /\ pc = "scan"
    /\ AtPreamble(buf_, i) /\ Complete(buf_, i) /\ CrcMatches(buf_, i)
    /\ frames_ok_' = frames_ok_ + 1
    /\ decoded' = Append(decoded, base + i)
    /\ i' = i + 1
    /\ UNCHANGED <<pc, buf_, frames_bad_crc_, wire, got, base>>

\* A complete frame: decode it and go on behind it.
FrameOk ==
    /\ pc = "scan"
    /\ AtPreamble(buf_, i) /\ Complete(buf_, i) /\ CrcMatches(buf_, i)
    /\ frames_ok_' = frames_ok_ + 1
    /\ decoded' = Append(decoded, base + i)
    /\ i' = i + frame_len(buf_, i)
    /\ UNCHANGED <<pc, buf_, frames_bad_crc_, wire, got, base>>

\* Faulty: the whole candidate is skipped, whatever it contains.
BadCrcSkippingFrame ==
    /\ pc = "scan"
    /\ AtPreamble(buf_, i) /\ Complete(buf_, i) /\ ~CrcMatches(buf_, i)
    /\ frames_bad_crc_' = frames_bad_crc_ + 1
    /\ i' = i + frame_len(buf_, i)
    /\ UNCHANGED <<pc, buf_, frames_ok_, wire, got, base, decoded>>

\* Faulty: the cursor stays at the rejected candidate.
BadCrcStaying ==
    /\ pc = "scan"
    /\ AtPreamble(buf_, i) /\ Complete(buf_, i) /\ ~CrcMatches(buf_, i)
    /\ frames_bad_crc_' = 1 - frames_bad_crc_
    /\ UNCHANGED <<pc, buf_, i, frames_ok_, wire, got, base, decoded>>

\* A complete candidate that is no frame: only its preamble is skipped.
BadCrc ==
    /\ pc = "scan"
    /\ AtPreamble(buf_, i) /\ Complete(buf_, i) /\ ~CrcMatches(buf_, i)
    /\ frames_bad_crc_' = frames_bad_crc_ + 1
    /\ i' = i + 1
    /\ UNCHANGED <<pc, buf_, frames_ok_, wire, got, base, decoded>>

\* Faulty: the bytes are erased at the wrong end.
KeptFront(b, k) == SubSeq(b, 1, Len(b) - k)

\* Faulty: what was scanned is not erased.
KeptAll(b, k) == b

\* What the two erasures at the end of push() leave of the buffer.
Kept(b, k) ==
    LET rest == SubSeq(b, k + 1, Len(b))
    IN  IF Len(rest) > MaxBuffer
        THEN SubSeq(rest, Len(rest) - MaxBuffer + 1, Len(rest)) ELSE rest

\* The rest is an incomplete candidate: keep it for the next call.
Return ==
    /\ pc = "scan"
    /\ i < Len(buf_) => AtPreamble(buf_, i) /\ ~Complete(buf_, i)
    /\ buf_' = Kept(buf_, i)
    /\ base' = base + Len(buf_) - Len(Kept(buf_, i))
    /\ i' = 0
    /\ pc' = "idle"
    /\ UNCHANGED <<frames_ok_, frames_bad_crc_, wire, got, decoded>>

Scan == SkipByte \/ FrameOk \/ BadCrc \/ Return

\* The whole stream was pushed.
Finished == pc = "idle" /\ got = Len(wire) /\ UNCHANGED vars

Next == \/ \E n \in 1..(Len(wire) - got) : push(n)
        \/ Scan
        \/ Finished

Spec == Init /\ [][Next]_vars

\* push() runs on once it was called.
FairSpec == Spec /\ WF_vars(Scan)

------------------------------------------------------------------------------
(* Properties.  They are stated on the stream: how it was cut into pieces    *)
(* must not show.                                                            *)

\* How much of the stream push() is done with.
Done == base + i

FrameIn(w, k) == AtPreamble(w, k) /\ Complete(w, k) /\ CrcMatches(w, k)

\* A frame of the stream.
Frame(k) == FrameIn(wire, k)

\* Offset k lies in a decoded frame.
Inside(k) == \E n \in DOMAIN decoded :
                 decoded[n] <= k /\ k < decoded[n] + frame_len(wire, decoded[n])

\* The values of the variables; buf_ is the unfinished part of what was
\* pushed, without a gap or a repetition.
TypeOK ==
    /\ pc \in {"idle", "scan"}
    /\ wire \in Wires /\ got \in 0..Len(wire)
    /\ frames_ok_ \in Nat /\ frames_bad_crc_ \in Nat
    /\ base \in Nat /\ i \in Nat
    /\ base + i <= got /\ (pc = "idle" => i = 0)
    /\ buf_ = SubSeq(wire, base + 1, got)
    /\ decoded \in Seq(Nat)

\* Only frames are decoded, each once, in the order of the stream and without
\* overlap.
OnlyFramesDecoded ==
    /\ \A n \in DOMAIN decoded :
         /\ Frame(decoded[n])
         /\ decoded[n] + frame_len(wire, decoded[n]) <= Done
    /\ \A m, n \in DOMAIN decoded :
         m < n => decoded[m] + frame_len(wire, decoded[m]) <= decoded[n]

\* Resynchronisation loses nothing: a frame that push() is done with was
\* decoded, unless it lies across a frame that was.
NoFrameLost == \A k \in 0..(Len(wire) - 1) : Frame(k) /\ k < Done => Inside(k)

\* Nothing is held back for long: push() leaves bytes only if they start with
\* a candidate that is incomplete.
HeldBackOnlyIfIncomplete ==
    pc = "idle" /\ buf_ # <<>> =>
        /\ buf_[1] = Preamble
        /\ Len(buf_) < 3 \/ Len(buf_) < frame_len(buf_, 0)

\* Exactly the frames of the stream are decoded, and as soon as they are
\* complete, however the stream is cut into calls.
FramesExact == OnlyFramesDecoded /\ NoFrameLost /\ HeldBackOnlyIfIncomplete

\* "Total de candidatos descartados por CRC incorrecto": however often the
\* buffer is scanned again, a rejected candidate is counted once.
CountersExact ==
    /\ frames_ok_ = Len(decoded)
    /\ frames_bad_crc_ = Cardinality({k \in 0..(Done - 1) :
                                         AtPreamble(wire, k) /\ ~Inside(k)})

\* The limit of the buffer is never reached, so no byte is lost to it.
BelowLimit == pc = "idle" => Len(buf_) < MaxFrameLen

\* push() returns.
PushReturns == pc = "scan" ~> pc = "idle"
==============================================================================
