---------------------------- MODULE MCRtcmMessage ----------------------------
(* RtcmMessage on payloads of every type, cut off at every byte. *)
EXTENDS RtcmMessage

\* The n bits of v.
Bits(v, n) == [k \in 1..n |-> (v \div 2^(n - k)) % 2]

Fill(x, n) == [k \in 1..n |-> x]

\* A marker of a missing value, or an ordinary one.
Cell(marked, n) == IF marked THEN <<1>> \o Fill(0, n - 1) ELSE Fill(1, n)

MaskOf(S, n) == [k \in 1..n |-> IF k \in S THEN 1 ELSE 0]

\* The bytes of the bits b, padded with x.
Bytes(b, x) ==
    LET c == b \o Fill(x, 7)
    IN  [k \in 1..((Len(b) + 7) \div 8) |->
            128 * c[8*k - 7] + 64 * c[8*k - 6] + 32 * c[8*k - 5] + 16 * c[8*k - 4] +
            8 * c[8*k - 3] + 4 * c[8*k - 2] + 2 * c[8*k - 1] + c[8*k]]

\* p and everything it can be cut down to.
CutOff(p) == {SubSeq(p, 1, k) : k \in 0..Len(p)}

\* Two bytes of every type around the known ones.
Headers == {Bytes(Bits(t, 12), 0) : t \in 1000..1240}

Flat == UNION {CutOff(Bytes(Bits(tn[1], 12) \o Fill(x, tn[2] - 12), x)) :
                  tn \in {<<1005, 152>>, <<1006, 168>>, <<1019, 56>>, <<1020, 35>>,
                          <<1045, 48>>, <<1046, 48>>, <<1230, 28>>},
                  x \in {0, 1}}

Word(n) == Bits(n, 8) \o Fill(1, 8 * n)

Texts == UNION {CutOff(Bytes(Bits(t, 12) \o Fill(0, 12) \o Word(a) \o Fill(0, 8)
                             \o Word(b) \o Word(1) \o Word(a) \o Word(b), 0)) :
                  t \in {1007, 1008, 1033}, a \in 0..2, b \in 0..1}

Lists == UNION {CutOff(Bytes(Bits(1013, 12) \o Fill(0, 45) \o Bits(n, 5)
                             \o Fill(1, 29 * n), 0)) : n \in 0..3}

\* An MSM with the given masks; the fields of satellites and cells are ordinary
\* or marked as missing.
Msm(t, S, G, C, marked) ==
    LET rate == t % 10 \in {5, 7}
        hi   == t % 10 \in {6, 7}
        sat  == Fill(IF marked[1] THEN 1 ELSE 0, 8) \o Fill(0, IF rate THEN 28 ELSE 10)
        cell == Cell(marked[2], IF hi THEN 20 ELSE 15) \o Cell(marked[3], IF hi THEN 24 ELSE 22)
                \o Fill(0, (IF hi THEN 21 ELSE 11) + (IF rate THEN 15 ELSE 0))
        all(part, n) == [k \in 1..(n * Len(part)) |-> part[((k - 1) % Len(part)) + 1]]
    IN  Bits(t, 12) \o Fill(0, 61) \o MaskOf(S, 64) \o MaskOf(G, 32)
        \o MaskOf(C, Cardinality(S) * Cardinality(G))
        \o all(sat, Cardinality(S)) \o all(cell, Cardinality(C))

Masks == {<<{}, {2}, {}>>, <<{1}, {}, {}>>, <<{5}, {2}, {1}>>, <<{5}, {2}, {}>>,
          <<{1, 64}, {2, 32}, {1, 4}>>, <<{1, 64}, {2, 32}, {2, 3}>>,
          <<{3, 9}, {1, 8, 16}, {1, 3, 4, 5}>>, <<{3, 9}, {1, 8, 16}, 1..6>>}

Msms == UNION {CutOff(Bytes(Msm(t, c[1], c[2], c[3], <<FALSE, FALSE, FALSE>>), 0)) :
                  t \in {1074, 1085, 1096, 1107}, c \in Masks}
        \cup {Bytes(Msm(t, c[1], c[2], c[3], m), 0) :
                  t \in {1074, 1077, 1117, 1127}, c \in Masks,
                  m \in {<<a, b, c3>> : a, b, c3 \in BOOLEAN}}

MCPayloads == Headers \cup Flat \cup Texts \cup Lists \cup Msms
==============================================================================
