------------------------------- MODULE Crc24q -------------------------------
(***************************************************************************)
(* crc24q() of both decoders: the checksum of an RTCM frame, bit by bit.   *)
(* The register is the set of the weights of its ones.                     *)
(***************************************************************************)
EXTENDS Naturals, Sequences

\* The ones among the lowest w bits of v.
Ones(v, w) == {e \in 0..(w - 1) : (v \div 2^e) % 2 = 1}

\* The operator ^ of C.
Xor(S, T) == (S \ T) \cup (T \ S)

\* Faulty: one digit of the constant mistyped.
PolyMistyped == Ones(25578745, 25)        \* 0x1864CF9

poly == Ones(25578747, 25)                \* 0x1864CFB

\* One turn of the inner loop: crc <<= 1 and, if a bit came out, crc ^= poly.
Shifted(crc) == LET s == {e + 1 : e \in crc} IN IF 24 \in s THEN Xor(s, poly) ELSE s

\* Faulty: the byte goes to the low end of the register.
MixedLow(crc, byte) == Xor(crc, Ones(byte, 8))

\* crc ^= data[i] << 16.
Mixed(crc, byte) == Xor(crc, {e + 16 : e \in Ones(byte, 8)})

crc24q(data) ==
    LET crc[k \in 0..(8 * Len(data))] ==
            IF k = 0 THEN {}
            ELSE Shifted(IF k % 8 = 1 THEN Mixed(crc[k - 1], data[(k \div 8) + 1])
                                      ELSE crc[k - 1])
    IN  crc[8 * Len(data)]

\* The number of the eight bits from weight low on.
ByteFrom(crc, low) ==
    LET v[n \in 0..8] == IF n = 0 THEN 0
                         ELSE v[n - 1] + (IF low + n - 1 \in crc THEN 2^(n - 1) ELSE 0)
    IN  v[8]

\* The three bytes of a checksum, as they follow the payload.
ChecksumBytes(data) ==
    LET c == crc24q(data) IN <<ByteFrom(c, 16), ByteFrom(c, 8), ByteFrom(c, 0)>>

------------------------------------------------------------------------------
(* The checksum as it should be: polynomials over GF(2), written as the sets *)
(* of the exponents of their terms.                                          *)

\* RTCM 3: 1 + x + x^3 + x^4 + x^5 + x^6 + x^7 + x^10 + x^11 + x^14 + x^17 +
\* x^18 + x^23 + x^24.
Generator == {0, 1, 3, 4, 5, 6, 7, 10, 11, 14, 17, 18, 23, 24}

Plus(S, T) == (S \ T) \cup (T \ S)

\* The powers of x up to n modulo the generator.
Power(n) ==
    LET x[k \in 0..n] ==
            IF k = 0 THEN {0}
            ELSE LET s == {e + 1 : e \in x[k - 1]}
                 IN  IF 24 \in s THEN Plus(s, Generator) ELSE s
    IN  x

\* The bits of a message in the order of their transmission.
BitAt(b, k) == (b[(k \div 8) + 1] \div 2^(7 - (k % 8))) % 2

\* The remainder of the message times x^24 on division by the generator.
Remainder(b) ==
    LET n == 8 * Len(b)
        x == Power(n + 24)
        r[k \in 0..n] == IF k = 0 THEN {}
                         ELSE IF BitAt(b, k - 1) = 1 THEN Plus(r[k - 1], x[n - k + 24])
                                                     ELSE r[k - 1]
    IN  r[n]

\* The message with bit k wrong.
Flip(b, k) == [b EXCEPT ![(k \div 8) + 1] =
                  IF BitAt(b, k) = 1 THEN @ - 2^(7 - (k % 8)) ELSE @ + 2^(7 - (k % 8))]
==============================================================================
