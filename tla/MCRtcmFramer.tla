---------------------------- MODULE MCRtcmFramer ----------------------------
(* RtcmFramer with its checksum, on streams put together from a few pieces. *)
EXTENDS RtcmFramer, Crc24q

CONSTANT MaxPieces      \* bound: pieces of a stream

FrameOf(payload) == LET b == <<Preamble, 0, Len(payload)>> \o payload
                    IN  b \o ChecksumBytes(b)

\* The shortest frame; one with a preamble for payload; one that does not match
\* its checksum and contains a frame; noise; candidates that claim 2 and 261
\* bytes; a preamble alone.
Pieces == { FrameOf(<<>>), FrameOf(<<Preamble>>),
            <<Preamble, 0, 6>> \o FrameOf(<<>>) \o <<0, 0, 0>>,
            <<7>>, <<Preamble, 252, 2>>, <<Preamble, 1, 5>>, <<Preamble>> }

MCWires == UNION { LET join(p) == LET at[n \in 0..m] ==
                                          IF n = 0 THEN <<>> ELSE at[n - 1] \o p[n]
                                  IN  at[m]
                   IN  { join(p) : p \in [1..m -> Pieces] } : m \in 1..MaxPieces }

\* What push() takes the checksum of: the complete candidates of the streams.
Messages == UNION { { SubSeq(w, k + 1, k + 3 + payload_len(w, k)) :
                        k \in {j \in 0..(Len(w) - 1) : AtPreamble(w, j) /\ Complete(w, j)} }
                    : w \in MCWires }

Checksums == [b \in Messages |-> ChecksumBytes(b)]

\* crc24q, looked up where it can be.
MCCrc(b) == IF b \in Messages THEN Checksums[b] ELSE ChecksumBytes(b)

------------------------------------------------------------------------------
(* The checksum, on the streams that were chosen. *)

\* crc24q() returns the remainder of the message times x^24 on division by the
\* generator, in whatever order the register gets there; so the framer takes no
\* frame for good in which one bit, or any two, are wrong.
CrcIsRemainder ==
    pc = "idle" /\ got = 0 =>
        /\ crc24q(wire) = Remainder(wire)
        /\ wire \in {FrameOf(<<>>), FrameOf(<<Preamble>>)} =>
              \A k, m \in 0..(8 * Len(wire) - 1) :
                  ~FrameIn(IF k = m THEN Flip(wire, k) ELSE Flip(Flip(wire, k), m), 0)
==============================================================================
