------------------------------- MODULE Base64 -------------------------------
(***************************************************************************)
(* base64_encode() of the NTRIP decoder, which encodes user:pass for the   *)
(* request.  val is an int that is shifted left for every character and    *)
(* never masked: it keeps the last four bytes and loses those before, so   *)
(* it is modelled by its four bytes.  A character of the alphabet is its   *)
(* index, and 64 stands for the padding.                                   *)
(***************************************************************************)
EXTENDS Integers, Sequences

\* The six bits of val that start sh bits above its low end (sh is at most 8).
Sextet(val, sh) == ((2^8 * val[3] + val[4]) \div 2^sh) % 2^6

ShiftedIn(val, c) == <<val[2], val[3], val[4], c>>

Begun == [val |-> <<0, 0, 0, 0>>, valb |-> -6, out |-> <<>>]

\* One turn of the outer loop: the inner one emits while six bits are there.
Encoded(x, c) ==
    LET val  == ShiftedIn(x.val, c)
        valb == x.valb + 8
        n    == valb \div 6 + 1
    IN  [val |-> val, valb |-> valb - 6 * n,
         out |-> x.out \o [k \in 1..n |-> Sextet(val, valb - 6 * (k - 1))]]

\* Faulty: the last sextet is forgotten when four bits are left.
FlushedTooLate(x) ==
    IF x.valb > -4 THEN Append(x.out, Sextet(ShiftedIn(x.val, 0), x.valb + 8)) ELSE x.out

\* The bits that are left at the end.
Flushed(x) ==
    IF x.valb > -6 THEN Append(x.out, Sextet(ShiftedIn(x.val, 0), x.valb + 8)) ELSE x.out

Padded(out) == out \o [k \in 1..((4 - (Len(out) % 4)) % 4) |-> 64]

base64_encode(in) ==
    LET x[k \in 0..Len(in)] == IF k = 0 THEN Begun ELSE Encoded(x[k - 1], in[k])
    IN  Padded(Flushed(x[Len(in)]))

------------------------------------------------------------------------------
(* The encoding as it should be. *)

\* What RFC 4648 says of three characters: four groups of six bits.
Quantum(a, b, c) == <<a \div 4, (a % 4) * 16 + b \div 16, (b % 16) * 4 + c \div 64, c % 64>>

\* The group k of the encoding of in.  What a quantum lacks is padded.
Group(in, k) ==
    LET q     == (k - 1) \div 4
        p     == (k - 1) % 4
        at(j) == IF j <= Len(in) THEN in[j] ELSE 0
    IN  IF 3 * q + p > Len(in) THEN 64
        ELSE Quantum(at(3 * q + 1), at(3 * q + 2), at(3 * q + 3))[p + 1]

\* The encoding has these groups and no other.
EncodedRight(in) ==
    LET code == base64_encode(in)
    IN  Len(code) = 4 * ((Len(in) + 2) \div 3) /\ \A k \in DOMAIN code : code[k] = Group(in, k)
===============================================================================
