-------------------------- MODULE RtcmMessageProofs --------------------------
(***************************************************************************)
(* Proofs about RtcmMessage for every payload.                             *)
(*                                                                         *)
(* The invariant follows the cursor: at every stage of every parser it is  *)
(* where the fields read so far say, and everything before it is there.    *)
(* For the report, it says of what payload positions the satellites and    *)
(* cells collected so far are.                                             *)
(***************************************************************************)
EXTENDS RtcmMessage, SequenceTheorems, FiniteSetTheorems, WellFoundedInduction, TLAPS

------------------------------------------------------------------------------
(* Numbers and bits. *)

\* The smallest element of a set of numbers.
LEMMA Least ==
    ASSUME NEW T, T \subseteq Nat, T # {}
    PROVE  \E x \in T : \A y \in T : x <= y
<1>. DEFINE R == OpToRel(<, Nat)
<1>1. IsWellFoundedOn(R, Nat)
  BY NatLessThanWellFounded
<1>2. \A x, y \in Nat : <<y, x>> \in R <=> y < x
  BY DEF OpToRel
<1>. HIDE DEF R
<1>3. PICK x \in T : \A y \in T : ~(<<y, x>> \in R)
  BY <1>1, WFMin
<1>4. ASSUME NEW y \in T PROVE x <= y
  <2>1. x \in Nat /\ y \in Nat
    OBVIOUS
  <2>2. ~(y < x)
    BY <1>2, <1>3, <2>1
  <2>. QED
    BY <2>1, <2>2
<1>. QED
  BY <1>4

\* The powers of two that select a bit of a byte.
LEMMA Powers == \A m \in 0..7 : 2^m \in {1, 2, 4, 8, 16, 32, 64, 128}
<1>1. /\ 2^0 = 1 /\ 2^1 = 2 /\ 2^2 = 4 /\ 2^3 = 8
      /\ 2^4 = 16 /\ 2^5 = 32 /\ 2^6 = 64 /\ 2^7 = 128
  OBVIOUS
<1>2. \A m \in 0..7 : m \in {0, 1, 2, 3, 4, 5, 6, 7}
  OBVIOUS
<1>. QED
  BY <1>1, <1>2

\* A bit within the payload.
LEMMA BitFacts ==
    ASSUME NEW p \in Seq(0..255), NEW k \in Nat, k < 8 * Len(p)
    PROVE  Bit(p, k) \in {0, 1}
<1>. DEFINE y == 2^(7 - (k % 8))
            x == p[(k \div 8) + 1]
<1>1. Len(p) \in Nat
  BY LenProperties
<1>2. (k \div 8) + 1 \in 1..Len(p) /\ 7 - (k % 8) \in 0..7
  BY <1>1
<1>3. x \in 0..255
  BY <1>2, ElementOfSeq
<1>4. y \in {1, 2, 4, 8, 16, 32, 64, 128}
  BY <1>2, Powers
<1>5. Bit(p, k) = (x \div y) % 2
  BY DEF Bit
<1>. HIDE DEF x, y
<1>. QED
  BY <1>3, <1>4, <1>5

\* f follows the definition of Value for n bits from k on.
Counts(p, k, n, f) ==
    f = [m \in 0..n |-> IF m = 0 THEN 0 ELSE 2 * f[m - 1] + Bit(p, k + m - 1)]

\* Some function does.
LEMMA CounterExists ==
    ASSUME NEW p, NEW k, NEW n \in Nat
    PROVE  \E f : Counts(p, k, n, f)
<1>. DEFINE Bad == {j \in Nat : ~\E f : Counts(p, k, j, f)}
<1>1. SUFFICES ASSUME Bad # {} PROVE FALSE
  OBVIOUS
<1>2. PICK j \in Bad : \A y \in Bad : j <= y
  BY <1>1, Least
<1>3. j # 0
  <2>1. Counts(p, k, 0, [m \in 0..0 |-> 0])
    BY DEF Counts
  <2>. QED
    BY <2>1
<1>4. j \in Nat /\ j - 1 \in Nat /\ j - 1 \notin Bad
  BY <1>2, <1>3
<1>5. PICK f : Counts(p, k, j - 1, f)
  BY <1>4
<1>. DEFINE Unroll(h) == [m \in 0..j |-> IF m = 0 THEN 0
                                         ELSE 2 * h[m - 1] + Bit(p, k + m - 1)]
            g == Unroll(f)
<1>6. ASSUME NEW m \in 0..(j - 1) PROVE g[m] = f[m]
  <2>1. m \in 0..j
    BY <1>4
  <2>2. f[m] = IF m = 0 THEN 0 ELSE 2 * f[m - 1] + Bit(p, k + m - 1)
    BY <1>5, Zenon DEF Counts
  <2>. QED
    BY <2>1, <2>2, Zenon
<1>7. ASSUME NEW m \in 0..j, m # 0 PROVE g[m - 1] = f[m - 1]
  <2>1. m - 1 \in 0..(j - 1)
    BY <1>4, <1>7
  <2>. QED
    BY <1>6, <2>1, Zenon
<1>8. \A m \in 0..j : g[m] = Unroll(g)[m]
  BY <1>7
<1>9. Counts(p, k, j, g)
  BY <1>8 DEF Counts
<1>. QED
  BY <1>9

\* f leads to the value of n bits from k on, digit by digit.
Digits(p, k, n, f) ==
    /\ Value(p, k, n) = f[n] /\ f[0] = 0
    /\ \A m \in 1..n : f[m] = 2 * f[m - 1] + Bit(p, k + m - 1)

\* Value is the last value of such a function.
LEMMA ValueFollows ==
    ASSUME NEW p, NEW k, NEW n \in Nat
    PROVE  \E f : Digits(p, k, n, f)
<1>. DEFINE f == CHOOSE f : Counts(p, k, n, f)
<1>1. Counts(p, k, n, f)
  BY CounterExists
<1>2. Value(p, k, n) = f[n]
  BY DEF Value, Counts
<1>. HIDE DEF f
<1>3. 0 \in 0..n /\ \A m \in 1..n : m \in 0..n /\ m # 0
  OBVIOUS
<1>4. f[0] = 0
  BY <1>1, <1>3, Zenon DEF Counts
<1>5. ASSUME NEW m \in 1..n PROVE f[m] = 2 * f[m - 1] + Bit(p, k + m - 1)
  <2>1. m \in 0..n /\ m # 0
    BY <1>3
  <2>. QED
    BY <1>1, <2>1, Zenon DEF Counts
<1>6. Digits(p, k, n, f)
  BY <1>2, <1>4, <1>5 DEF Digits
<1>. QED
  BY <1>6

\* A field within the payload has a value.
LEMMA ValueFacts ==
    ASSUME NEW p \in Seq(0..255), NEW k \in Nat, NEW n \in Nat, k + n <= 8 * Len(p)
    PROVE  Value(p, k, n) \in Nat
<1>0. PICK f : Digits(p, k, n, f)
  BY ValueFollows
<1>1. /\ Value(p, k, n) = f[n] /\ f[0] = 0
      /\ \A m \in 1..n : f[m] = 2 * f[m - 1] + Bit(p, k + m - 1)
  BY <1>0, Zenon DEF Digits
<1>. DEFINE Bad == {m \in 0..n : f[m] \notin Nat}
<1>2. SUFFICES ASSUME Bad # {} PROVE FALSE
  <2>1. n \in 0..n
    OBVIOUS
  <2>. QED
    BY <1>1, <2>1
<1>3. PICK m \in Bad : \A y \in Bad : m <= y
  <2>1. Bad \subseteq Nat
    OBVIOUS
  <2>. QED
    BY <1>2, <2>1, Least
<1>4. m \in 1..n /\ m - 1 \in 0..n /\ m - 1 \notin Bad
  BY <1>1, <1>3
<1>5. Len(p) \in Nat /\ k + m - 1 \in Nat /\ k + m - 1 < 8 * Len(p)
  BY <1>4, LenProperties
<1>6. Bit(p, k + m - 1) \in {0, 1}
  BY <1>5, BitFacts
<1>7. f[m - 1] \in Nat /\ f[m] = 2 * f[m - 1] + Bit(p, k + m - 1)
  BY <1>1, <1>4
<1>8. f[m] \in Nat
  BY <1>6, <1>7
<1>. QED
  BY <1>3, <1>8

------------------------------------------------------------------------------
(* Sequences of reads. *)

\* The errors of reads that fail.
Errors == {"invalid_1005_1006", "missing_antenna_height", "invalid_1007_1008",
           "missing_setup_id", "missing_serial_length", "invalid_1033",
           "invalid_1033_fields", "invalid_1033_rx_type", "invalid_1033_rx_fw",
           "invalid_1033_rx_sn", "invalid_1013", "truncated_1013_announcements",
           "invalid_1019", "invalid_1020", "invalid_1045_1046", "invalid_1230",
           "invalid_msm_header", "invalid_msm_cell_mask", "truncated_msm_sat_data",
           "truncated_msm_sat_ext_info", "truncated_msm_rough_range_mod",
           "truncated_msm_rate", "truncated_msm_cell_data",
           "truncated_msm_phase_rate"}

Reading == [n : Nat, err : Errors]

\* f follows the definition of Width for the first j reads of r.
Sums(r, j, f) == f = [m \in 0..j |-> IF m = 0 THEN 0 ELSE f[m - 1] + r[m].n]

\* Some function does.
LEMMA SummerExists ==
    ASSUME NEW r, NEW n \in Nat
    PROVE  \E f : Sums(r, n, f)
<1>. DEFINE Bad == {j \in Nat : ~\E f : Sums(r, j, f)}
<1>1. SUFFICES ASSUME Bad # {} PROVE FALSE
  OBVIOUS
<1>2. PICK j \in Bad : \A y \in Bad : j <= y
  BY <1>1, Least
<1>3. j # 0
  <2>1. Sums(r, 0, [m \in 0..0 |-> 0])
    BY DEF Sums
  <2>. QED
    BY <2>1
<1>4. j \in Nat /\ j - 1 \in Nat /\ j - 1 \notin Bad
  BY <1>2, <1>3
<1>5. PICK f : Sums(r, j - 1, f)
  BY <1>4
<1>. DEFINE Unroll(h) == [m \in 0..j |-> IF m = 0 THEN 0 ELSE h[m - 1] + r[m].n]
            g == Unroll(f)
<1>6. ASSUME NEW m \in 0..(j - 1) PROVE g[m] = f[m]
  <2>1. m \in 0..j
    BY <1>4
  <2>2. f[m] = IF m = 0 THEN 0 ELSE f[m - 1] + r[m].n
    BY <1>5, Zenon DEF Sums
  <2>. QED
    BY <2>1, <2>2, Zenon
<1>7. ASSUME NEW m \in 0..j, m # 0 PROVE g[m - 1] = f[m - 1]
  <2>1. m - 1 \in 0..(j - 1)
    BY <1>4, <1>7
  <2>. QED
    BY <1>6, <2>1, Zenon
<1>8. \A m \in 0..j : g[m] = Unroll(g)[m]
  BY <1>7
<1>9. Sums(r, j, g)
  BY <1>8 DEF Sums
<1>. QED
  BY <1>9

\* Width is the last value of such a function.
LEMMA WidthFollows ==
    ASSUME NEW r, NEW n \in Nat
    PROVE  \E f : /\ Width(r, n) = f[n] /\ f[0] = 0
                  /\ \A m \in 1..n : f[m] = f[m - 1] + r[m].n
<1>. DEFINE f == CHOOSE f : Sums(r, n, f)
<1>1. Sums(r, n, f)
  BY SummerExists
<1>2. Width(r, n) = f[n]
  BY DEF Width, Sums
<1>. HIDE DEF f
<1>3. 0 \in 0..n /\ \A m \in 1..n : m \in 0..n /\ m # 0
  OBVIOUS
<1>4. f[0] = 0
  BY <1>1, <1>3, Zenon DEF Sums
<1>5. ASSUME NEW m \in 1..n PROVE f[m] = f[m - 1] + r[m].n
  <2>1. m \in 0..n /\ m # 0
    BY <1>3
  <2>. QED
    BY <1>1, <2>1, Zenon DEF Sums
<1>. QED
  BY <1>2, <1>4, <1>5

\* The width of some first reads is the width of those before the last of them,
\* and its own.
LEMMA WidthFacts ==
    ASSUME NEW r \in Seq(Reading), NEW n \in 0..Len(r)
    PROVE  /\ Width(r, n) \in Nat
           /\ Width(r, n) = IF n = 0 THEN 0 ELSE Width(r, n - 1) + r[n].n
           /\ \A m \in 0..n : Width(r, m) <= Width(r, n)
<1>1. Len(r) \in Nat /\ n \in Nat
  BY LenProperties
<1>2. \A m \in 1..Len(r) : r[m].n \in Nat
  <2>1. \A m \in 1..Len(r) : r[m] \in Reading
    BY ElementOfSeq
  <2>. QED
    BY <2>1 DEF Reading
<1>3. PICK f : /\ Width(r, n) = f[n] /\ f[0] = 0
               /\ \A m \in 1..n : f[m] = f[m - 1] + r[m].n
  BY <1>1, WidthFollows
<1>. DEFINE Bad == {m \in 0..n : ~(Width(r, m) = f[m] /\ f[m] \in Nat)}
<1>4. Bad = {}
  <2>1. SUFFICES ASSUME Bad # {} PROVE FALSE
    OBVIOUS
  <2>2. PICK m \in Bad : \A y \in Bad : m <= y
    <3>1. Bad \subseteq Nat
      BY <1>1
    <3>. QED
      BY <2>1, <3>1, Least
  <2>3. m \in 0..n /\ m \in Nat
    BY <1>1
  <2>4. PICK g : /\ Width(r, m) = g[m] /\ g[0] = 0
                 /\ \A l \in 1..m : g[l] = g[l - 1] + r[l].n
    BY <2>3, WidthFollows
  <2>. DEFINE Off == {l \in 0..m : g[l] # f[l] \/ f[l] \notin Nat}
  <2>5. PICK l \in Off : \A y \in Off : l <= y
    <3>1. Off \subseteq Nat /\ m \in Off
      BY <2>2, <2>3, <2>4
    <3>. QED
      BY <3>1, Least
  <2>6. l # 0
    BY <1>3, <2>4
  <2>7. l \in 1..m /\ l \in 1..n /\ l \in 1..Len(r) /\ l - 1 \in 0..m /\ l - 1 \notin Off
    BY <1>1, <2>3, <2>5, <2>6
  <2>8. g[l - 1] = f[l - 1] /\ f[l - 1] \in Nat
    BY <2>7
  <2>9. g[l] = f[l] /\ f[l] \in Nat
    <3>1. f[l] = f[l - 1] + r[l].n /\ g[l] = g[l - 1] + r[l].n
      BY <1>3, <2>4, <2>7
    <3>2. r[l].n \in Nat
      BY <1>2, <2>7
    <3>. QED
      BY <2>8, <3>1, <3>2
  <2>. QED
    BY <2>5, <2>9
<1>5. \A m \in 0..n : Width(r, m) = f[m] /\ f[m] \in Nat
  BY <1>4
<1>6. n \in 0..n /\ (n # 0 => n - 1 \in 0..n /\ n \in 1..n)
  BY <1>1
<1>7. Width(r, n) = IF n = 0 THEN 0 ELSE Width(r, n - 1) + r[n].n
  BY <1>3, <1>5, <1>6
<1>. DEFINE Less == {m \in Nat : m <= n /\ f[n - m] > f[n]}
<1>8. Less = {}
  <2>1. SUFFICES ASSUME Less # {} PROVE FALSE
    OBVIOUS
  <2>2. PICK m \in Less : \A y \in Less : m <= y
    <3>1. Less \subseteq Nat
      OBVIOUS
    <3>. QED
      BY <2>1, <3>1, Least
  <2>3. m \in Nat /\ m <= n /\ f[n - m] > f[n]
    BY <2>2
  <2>4. m # 0
    BY <1>1, <1>5, <1>6, <2>3
  <2>5. m - 1 \in Nat /\ m - 1 <= n /\ m - 1 \notin Less
    <3>1. m - 1 \in Nat /\ m - 1 <= n /\ ~(m <= m - 1)
      BY <1>1, <2>3, <2>4
    <3>. HIDE DEF Less
    <3>. QED
      BY <2>2, <3>1
  <2>. DEFINE l == n - m
  <2>6. l \in 0..n /\ l + 1 \in 1..n /\ l + 1 \in 0..n /\ l + 1 = n - (m - 1)
        /\ (l + 1) - 1 = l /\ l + 1 \in 1..Len(r)
    BY <1>1, <2>3, <2>4
  <2>7. ~(f[l + 1] > f[n])
    BY <2>5, <2>6
  <2>8. f[l] > f[n]
    BY <2>3
  <2>. HIDE DEF l
  <2>9. f[l + 1] = f[l] + r[l + 1].n /\ r[l + 1].n \in Nat
    BY <1>2, <1>3, <2>6
  <2>10. f[l] \in Nat /\ f[l + 1] \in Nat /\ f[n] \in Nat
    BY <1>5, <1>6, <2>6
  <2>. QED
    BY <2>7, <2>8, <2>9, <2>10
<1>9. ASSUME NEW m \in 0..n PROVE Width(r, m) <= Width(r, n)
  <2>1. n - m \in Nat /\ n - m <= n /\ n - (n - m) = m
    BY <1>1
  <2>2. n - m \notin Less
    BY <1>8
  <2>3. ~(f[m] > f[n])
    BY <2>1, <2>2
  <2>. QED
    BY <1>5, <1>6, <2>3
<1>. QED
  BY <1>5, <1>6, <1>7, <1>9

------------------------------------------------------------------------------
(* What a stage of reads takes. *)

Readings == Seq(Reading) \ {<<>>}

\* All of r fits, or one of its reads fails with its error.
LEMMA MissingFacts ==
    ASSUME NEW r \in Readings, bitpos_ \in Nat, total_bits_ \in Nat
    PROVE  /\ Missing(r) = {} <=> Fits(Width(r, Len(r)))
           /\ Missing(r) # {} => r[FirstMissing(r)].err \in Errors
<1>1. Len(r) \in Nat /\ Len(r) # 0 /\ DOMAIN r = 1..Len(r)
  BY LenProperties, EmptySeq DEF Readings
<1>2. r \in Seq(Reading) /\ Len(r) \in 0..Len(r) /\ Len(r) \in 1..Len(r)
  BY <1>1 DEF Readings
<1>3. \A k \in 0..Len(r) : Width(r, k) \in Nat /\ Width(r, k) <= Width(r, Len(r))
  BY <1>2, WidthFacts
<1>4. ASSUME Fits(Width(r, Len(r))) PROVE Missing(r) = {}
  <2>1. ASSUME NEW k \in DOMAIN r PROVE Fits(Width(r, k))
    <3>1. k \in 0..Len(r) /\ Len(r) \in 0..Len(r)
      BY <1>1
    <3>2. /\ Width(r, k) \in Nat /\ Width(r, k) <= Width(r, Len(r))
          /\ Width(r, Len(r)) \in Nat
      BY <1>3, <3>1
    <3>. QED
      BY <1>4, <3>2 DEF Fits
  <2>. QED
    BY <2>1 DEF Missing
<1>5. ASSUME Missing(r) = {} PROVE Fits(Width(r, Len(r)))
  BY <1>1, <1>2, <1>5 DEF Missing
<1>6. ASSUME Missing(r) # {} PROVE r[FirstMissing(r)].err \in Errors
  <2>1. Missing(r) \subseteq 1..Len(r) /\ Missing(r) \subseteq Nat
    BY <1>1 DEF Missing
  <2>2. \E k \in Missing(r) : \A m \in Missing(r) : k <= m
    BY <1>6, <2>1, Least
  <2>3. FirstMissing(r) \in Missing(r)
    BY <2>2 DEF FirstMissing
  <2>4. r[FirstMissing(r)] \in Reading
    BY <1>2, <2>1, <2>3, ElementOfSeq
  <2>. QED
    BY <2>4 DEF Reading
<1>. QED
  BY <1>4, <1>5, <1>6

\* Reads of given widths.
LEMMA ReadsFacts ==
    ASSUME NEW w \in Seq(Nat), w # <<>>, NEW err \in Errors
    PROVE  LET r == Reads(w, err)
           IN  /\ r \in Readings /\ Len(r) = Len(w)
               /\ \A k \in 1..Len(w) : r[k].n = w[k]
<1>. DEFINE r == Reads(w, err)
<1>1. Len(w) \in Nat /\ Len(w) # 0 /\ DOMAIN w = 1..Len(w)
  BY LenProperties, EmptySeq
<1>2. \A k \in 1..Len(w) : w[k] \in Nat
  BY ElementOfSeq
<1>3. r = [k \in 1..Len(w) |-> Read(w[k], err)]
  BY <1>1 DEF Reads
<1>4. \A k \in 1..Len(w) : Read(w[k], err) \in Reading
  BY <1>2 DEF Read, Reading
<1>5. r \in [1..Len(w) -> Reading] /\ DOMAIN r = 1..Len(w)
  BY <1>3, <1>4
<1>6. r \in Seq(Reading)
  BY <1>1, <1>5, SeqDef
<1>7. Len(r) = Len(w)
  BY <1>1, <1>5, <1>6, LenProperties
<1>8. \A k \in 1..Len(w) : r[k].n = w[k]
  BY <1>3 DEF Read
<1>9. r # <<>>
  BY <1>1, <1>7, EmptySeq
<1>. QED
  BY <1>6, <1>7, <1>8, <1>9 DEF Readings

\* A stage of reads that takes n bits, the last l of them by its last field.
Takes(st, n, l) ==
    /\ st.op = "get" /\ st.reads \in Readings
    /\ Width(st.reads, Len(st.reads)) = n
    /\ st.reads[Len(st.reads)].n = l

\* The width of a stage, one field at a time.
LEMMA GetFacts ==
    ASSUME NEW w \in Seq(Nat), w # <<>>, NEW err \in Errors
    PROVE  LET r == Reads(w, err)
           IN  /\ Get(w, err) = [op |-> "get", reads |-> r]
               /\ r \in Readings /\ Len(r) = Len(w) /\ r[Len(r)].n = w[Len(w)]
               /\ Width(r, 0) = 0
               /\ \A k \in 1..Len(w) : Width(r, k) = Width(r, k - 1) + w[k]
<1>. DEFINE r == Reads(w, err)
<1>1. /\ r \in Readings /\ Len(r) = Len(w)
      /\ \A k \in 1..Len(w) : r[k].n = w[k]
  BY ReadsFacts
<1>2. Get(w, err) = [op |-> "get", reads |-> r]
  BY DEF Get
<1>. HIDE DEF r
<1>3. Len(w) \in Nat /\ Len(w) # 0
  BY LenProperties, EmptySeq
<1>4. Len(w) \in 1..Len(w) /\ 0 \in 0..Len(r) /\ r \in Seq(Reading)
  BY <1>1, <1>3 DEF Readings
<1>5. ASSUME NEW k \in 1..Len(w) PROVE Width(r, k) = Width(r, k - 1) + w[k]
  <2>1. k \in 0..Len(r) /\ k # 0
    BY <1>1, <1>3
  <2>2. Width(r, k) = IF k = 0 THEN 0 ELSE Width(r, k - 1) + r[k].n
    BY <1>4, <2>1, WidthFacts
  <2>. QED
    BY <1>1, <2>1, <2>2
<1>6. Width(r, 0) = 0
  BY <1>4, WidthFacts
<1>. QED
  BY <1>1, <1>2, <1>4, <1>5, <1>6 DEF r

\* Stages of a few fields.
LEMMA ShortStages ==
    ASSUME NEW err \in Errors
    PROVE  /\ \A a \in Nat : Takes(Get(<<a>>, err), a, a)
           /\ \A a, b \in Nat : Takes(Get(<<a, b>>, err), a + b, b)
           /\ \A a, b, c \in Nat : Takes(Get(<<a, b, c>>, err), a + b + c, c)
<1>1. ASSUME NEW a \in Nat PROVE Takes(Get(<<a>>, err), a, a)
  <2>. DEFINE w == <<a>>
  <2>1. w \in Seq(Nat) /\ w # <<>> /\ Len(w) = 1 /\ w[1] = a
    OBVIOUS
  <2>. HIDE DEF w
  <2>. DEFINE r == Reads(w, err)
  <2>2. /\ Get(w, err) = [op |-> "get", reads |-> r]
        /\ r \in Readings /\ Len(r) = 1 /\ r[Len(r)].n = a /\ Width(r, 0) = 0
        /\ \A k \in 1..1 : Width(r, k) = Width(r, k - 1) + w[k]
    BY <2>1, GetFacts
  <2>. HIDE DEF r
  <2>3. Width(r, 1) = a
    BY <2>1, <2>2
  <2>4. Get(w, err).op = "get" /\ Get(w, err).reads = r
    BY <2>2
  <2>5. Takes(Get(w, err), a, a)
    BY <2>2, <2>3, <2>4, Zenon DEF Takes
  <2>. QED
    BY <2>5 DEF w
<1>2. ASSUME NEW a \in Nat, NEW b \in Nat PROVE Takes(Get(<<a, b>>, err), a + b, b)
  <2>. DEFINE w == <<a, b>>
  <2>1. w \in Seq(Nat) /\ w # <<>> /\ Len(w) = 2 /\ w[1] = a /\ w[2] = b
    OBVIOUS
  <2>. HIDE DEF w
  <2>. DEFINE r == Reads(w, err)
  <2>2. /\ Get(w, err) = [op |-> "get", reads |-> r]
        /\ r \in Readings /\ Len(r) = 2 /\ r[Len(r)].n = b /\ Width(r, 0) = 0
        /\ \A k \in 1..2 : Width(r, k) = Width(r, k - 1) + w[k]
    BY <2>1, GetFacts
  <2>. HIDE DEF r
  <2>3. Width(r, 1) = a /\ Width(r, 2) = a + b
    BY <2>1, <2>2
  <2>4. Get(w, err).op = "get" /\ Get(w, err).reads = r
    BY <2>2
  <2>5. Takes(Get(w, err), a + b, b)
    BY <2>2, <2>3, <2>4, Zenon DEF Takes
  <2>. QED
    BY <2>5 DEF w
<1>3. ASSUME NEW a \in Nat, NEW b \in Nat, NEW c \in Nat
      PROVE  Takes(Get(<<a, b, c>>, err), a + b + c, c)
  <2>. DEFINE w == <<a, b, c>>
  <2>1. w \in Seq(Nat) /\ w # <<>> /\ Len(w) = 3 /\ w[1] = a /\ w[2] = b /\ w[3] = c
    OBVIOUS
  <2>. HIDE DEF w
  <2>. DEFINE r == Reads(w, err)
  <2>2. /\ Get(w, err) = [op |-> "get", reads |-> r]
        /\ r \in Readings /\ Len(r) = 3 /\ r[Len(r)].n = c /\ Width(r, 0) = 0
        /\ \A k \in 1..3 : Width(r, k) = Width(r, k - 1) + w[k]
    BY <2>1, GetFacts
  <2>. HIDE DEF r
  <2>3. Width(r, 1) = a /\ Width(r, 2) = a + b /\ Width(r, 3) = a + b + c
    BY <2>1, <2>2
  <2>4. Get(w, err).op = "get" /\ Get(w, err).reads = r
    BY <2>2
  <2>5. Takes(Get(w, err), a + b + c, c)
    BY <2>2, <2>3, <2>4, Zenon DEF Takes
  <2>. QED
    BY <2>5 DEF w
<1>. QED
  BY <1>1, <1>2, <1>3

\* The long stages.
LEMMA LongStages ==
    /\ Takes(Get(<<12, 6, 1, 1, 1, 1, 38, 1, 1, 38, 2, 38>>, "invalid_1005_1006"), 140, 38)
    /\ Takes(Get(<<12, 16, 17, 5>>, "invalid_1013"), 50, 5)
    /\ Takes(Get(<<6, 10, 4, 2, 14, 8>>, "invalid_1019"), 44, 8)
    /\ Takes(Get(<<6, 5, 5, 6, 1>>, "invalid_1020"), 23, 1)
    /\ Takes(Get(<<6, 12, 10, 8>>, "invalid_1045_1046"), 36, 8)
    /\ Takes(Get(<<12, 30, 1, 3, 7, 2, 2, 1, 3, 64, 32>>, "invalid_msm_header"), 157, 32)
<1>1. Takes(Get(<<12, 6, 1, 1, 1, 1, 38, 1, 1, 38, 2, 38>>, "invalid_1005_1006"), 140, 38)
  <2>. DEFINE w == <<12, 6, 1, 1, 1, 1, 38, 1, 1, 38, 2, 38>>
              r == Reads(w, "invalid_1005_1006")
  <2>1. w \in Seq(Nat) /\ w # <<>> /\ Len(w) = 12 /\ "invalid_1005_1006" \in Errors
    BY DEF Errors
  <2>2. /\ w[1] = 12 /\ w[2] = 6 /\ w[3] = 1 /\ w[4] = 1 /\ w[5] = 1 /\ w[6] = 1
        /\ w[7] = 38 /\ w[8] = 1 /\ w[9] = 1 /\ w[10] = 38 /\ w[11] = 2 /\ w[12] = 38
    OBVIOUS
  <2>. HIDE DEF w
  <2>3. /\ Get(w, "invalid_1005_1006") = [op |-> "get", reads |-> r]
        /\ r \in Readings /\ Len(r) = 12 /\ r[Len(r)].n = w[12] /\ Width(r, 0) = 0
        /\ \A k \in 1..12 : Width(r, k) = Width(r, k - 1) + w[k]
    BY <2>1, GetFacts
  <2>. HIDE DEF r
  <2>4. /\ Width(r, 1) = 12 /\ Width(r, 2) = 18 /\ Width(r, 3) = 19
        /\ Width(r, 4) = 20 /\ Width(r, 5) = 21 /\ Width(r, 6) = 22
        /\ Width(r, 7) = 60 /\ Width(r, 8) = 61 /\ Width(r, 9) = 62
        /\ Width(r, 10) = 100 /\ Width(r, 11) = 102 /\ Width(r, 12) = 140
    BY <2>2, <2>3
  <2>5. Takes(Get(w, "invalid_1005_1006"), 140, 38)
    <3>1. Get(w, "invalid_1005_1006").op = "get" /\ Get(w, "invalid_1005_1006").reads = r
      BY <2>3
    <3>2. Width(r, Len(r)) = 140 /\ r[Len(r)].n = 38
      BY <2>2, <2>3, <2>4
    <3>. QED
      BY <2>3, <3>1, <3>2, Zenon DEF Takes
  <2>. QED
    BY <2>5 DEF w
<1>2. Takes(Get(<<12, 16, 17, 5>>, "invalid_1013"), 50, 5)
  <2>. DEFINE w == <<12, 16, 17, 5>>
              r == Reads(w, "invalid_1013")
  <2>1. w \in Seq(Nat) /\ w # <<>> /\ Len(w) = 4 /\ "invalid_1013" \in Errors
    BY DEF Errors
  <2>2. w[1] = 12 /\ w[2] = 16 /\ w[3] = 17 /\ w[4] = 5
    OBVIOUS
  <2>. HIDE DEF w
  <2>3. /\ Get(w, "invalid_1013") = [op |-> "get", reads |-> r]
        /\ r \in Readings /\ Len(r) = 4 /\ r[Len(r)].n = w[4] /\ Width(r, 0) = 0
        /\ \A k \in 1..4 : Width(r, k) = Width(r, k - 1) + w[k]
    BY <2>1, GetFacts
  <2>. HIDE DEF r
  <2>4. /\ Width(r, 1) = 12 /\ Width(r, 2) = 28 /\ Width(r, 3) = 45
        /\ Width(r, 4) = 50
    BY <2>2, <2>3
  <2>5. Takes(Get(w, "invalid_1013"), 50, 5)
    <3>1. Get(w, "invalid_1013").op = "get" /\ Get(w, "invalid_1013").reads = r
      BY <2>3
    <3>2. Width(r, Len(r)) = 50 /\ r[Len(r)].n = 5
      BY <2>2, <2>3, <2>4
    <3>. QED
      BY <2>3, <3>1, <3>2, Zenon DEF Takes
  <2>. QED
    BY <2>5 DEF w
<1>3. Takes(Get(<<6, 10, 4, 2, 14, 8>>, "invalid_1019"), 44, 8)
  <2>. DEFINE w == <<6, 10, 4, 2, 14, 8>>
              r == Reads(w, "invalid_1019")
  <2>1. w \in Seq(Nat) /\ w # <<>> /\ Len(w) = 6 /\ "invalid_1019" \in Errors
    BY DEF Errors
  <2>2. w[1] = 6 /\ w[2] = 10 /\ w[3] = 4 /\ w[4] = 2 /\ w[5] = 14 /\ w[6] = 8
    OBVIOUS
  <2>. HIDE DEF w
  <2>3. /\ Get(w, "invalid_1019") = [op |-> "get", reads |-> r]
        /\ r \in Readings /\ Len(r) = 6 /\ r[Len(r)].n = w[6] /\ Width(r, 0) = 0
        /\ \A k \in 1..6 : Width(r, k) = Width(r, k - 1) + w[k]
    BY <2>1, GetFacts
  <2>. HIDE DEF r
  <2>4. /\ Width(r, 1) = 6 /\ Width(r, 2) = 16 /\ Width(r, 3) = 20
        /\ Width(r, 4) = 22 /\ Width(r, 5) = 36 /\ Width(r, 6) = 44
    BY <2>2, <2>3
  <2>5. Takes(Get(w, "invalid_1019"), 44, 8)
    <3>1. Get(w, "invalid_1019").op = "get" /\ Get(w, "invalid_1019").reads = r
      BY <2>3
    <3>2. Width(r, Len(r)) = 44 /\ r[Len(r)].n = 8
      BY <2>2, <2>3, <2>4
    <3>. QED
      BY <2>3, <3>1, <3>2, Zenon DEF Takes
  <2>. QED
    BY <2>5 DEF w
<1>4. Takes(Get(<<6, 5, 5, 6, 1>>, "invalid_1020"), 23, 1)
  <2>. DEFINE w == <<6, 5, 5, 6, 1>>
              r == Reads(w, "invalid_1020")
  <2>1. w \in Seq(Nat) /\ w # <<>> /\ Len(w) = 5 /\ "invalid_1020" \in Errors
    BY DEF Errors
  <2>2. w[1] = 6 /\ w[2] = 5 /\ w[3] = 5 /\ w[4] = 6 /\ w[5] = 1
    OBVIOUS
  <2>. HIDE DEF w
  <2>3. /\ Get(w, "invalid_1020") = [op |-> "get", reads |-> r]
        /\ r \in Readings /\ Len(r) = 5 /\ r[Len(r)].n = w[5] /\ Width(r, 0) = 0
        /\ \A k \in 1..5 : Width(r, k) = Width(r, k - 1) + w[k]
    BY <2>1, GetFacts
  <2>. HIDE DEF r
  <2>4. /\ Width(r, 1) = 6 /\ Width(r, 2) = 11 /\ Width(r, 3) = 16
        /\ Width(r, 4) = 22 /\ Width(r, 5) = 23
    BY <2>2, <2>3
  <2>5. Takes(Get(w, "invalid_1020"), 23, 1)
    <3>1. Get(w, "invalid_1020").op = "get" /\ Get(w, "invalid_1020").reads = r
      BY <2>3
    <3>2. Width(r, Len(r)) = 23 /\ r[Len(r)].n = 1
      BY <2>2, <2>3, <2>4
    <3>. QED
      BY <2>3, <3>1, <3>2, Zenon DEF Takes
  <2>. QED
    BY <2>5 DEF w
<1>5. Takes(Get(<<6, 12, 10, 8>>, "invalid_1045_1046"), 36, 8)
  <2>. DEFINE w == <<6, 12, 10, 8>>
              r == Reads(w, "invalid_1045_1046")
  <2>1. w \in Seq(Nat) /\ w # <<>> /\ Len(w) = 4 /\ "invalid_1045_1046" \in Errors
    BY DEF Errors
  <2>2. w[1] = 6 /\ w[2] = 12 /\ w[3] = 10 /\ w[4] = 8
    OBVIOUS
  <2>. HIDE DEF w
  <2>3. /\ Get(w, "invalid_1045_1046") = [op |-> "get", reads |-> r]
        /\ r \in Readings /\ Len(r) = 4 /\ r[Len(r)].n = w[4] /\ Width(r, 0) = 0
        /\ \A k \in 1..4 : Width(r, k) = Width(r, k - 1) + w[k]
    BY <2>1, GetFacts
  <2>. HIDE DEF r
  <2>4. /\ Width(r, 1) = 6 /\ Width(r, 2) = 18 /\ Width(r, 3) = 28
        /\ Width(r, 4) = 36
    BY <2>2, <2>3
  <2>5. Takes(Get(w, "invalid_1045_1046"), 36, 8)
    <3>1. Get(w, "invalid_1045_1046").op = "get" /\ Get(w, "invalid_1045_1046").reads = r
      BY <2>3
    <3>2. Width(r, Len(r)) = 36 /\ r[Len(r)].n = 8
      BY <2>2, <2>3, <2>4
    <3>. QED
      BY <2>3, <3>1, <3>2, Zenon DEF Takes
  <2>. QED
    BY <2>5 DEF w
<1>6. Takes(Get(<<12, 30, 1, 3, 7, 2, 2, 1, 3, 64, 32>>, "invalid_msm_header"), 157, 32)
  <2>. DEFINE w == <<12, 30, 1, 3, 7, 2, 2, 1, 3, 64, 32>>
              r == Reads(w, "invalid_msm_header")
  <2>1. w \in Seq(Nat) /\ w # <<>> /\ Len(w) = 11 /\ "invalid_msm_header" \in Errors
    BY DEF Errors
  <2>2. /\ w[1] = 12 /\ w[2] = 30 /\ w[3] = 1 /\ w[4] = 3 /\ w[5] = 7 /\ w[6] = 2
        /\ w[7] = 2 /\ w[8] = 1 /\ w[9] = 3 /\ w[10] = 64 /\ w[11] = 32
    OBVIOUS
  <2>. HIDE DEF w
  <2>3. /\ Get(w, "invalid_msm_header") = [op |-> "get", reads |-> r]
        /\ r \in Readings /\ Len(r) = 11 /\ r[Len(r)].n = w[11] /\ Width(r, 0) = 0
        /\ \A k \in 1..11 : Width(r, k) = Width(r, k - 1) + w[k]
    BY <2>1, GetFacts
  <2>. HIDE DEF r
  <2>4. /\ Width(r, 1) = 12 /\ Width(r, 2) = 42 /\ Width(r, 3) = 43
        /\ Width(r, 4) = 46 /\ Width(r, 5) = 53 /\ Width(r, 6) = 55
        /\ Width(r, 7) = 57 /\ Width(r, 8) = 58 /\ Width(r, 9) = 61
        /\ Width(r, 10) = 125 /\ Width(r, 11) = 157
    BY <2>2, <2>3
  <2>5. Takes(Get(w, "invalid_msm_header"), 157, 32)
    <3>1. Get(w, "invalid_msm_header").op = "get" /\ Get(w, "invalid_msm_header").reads = r
      BY <2>3
    <3>2. Width(r, Len(r)) = 157 /\ r[Len(r)].n = 32
      BY <2>2, <2>3, <2>4
    <3>. QED
      BY <2>3, <3>1, <3>2, Zenon DEF Takes
  <2>. QED
    BY <2>5 DEF w
<1>. QED
  BY <1>1, <1>2, <1>3, <1>4, <1>5, <1>6

------------------------------------------------------------------------------
(* The stages of a message, and where the cursor is after each of them. *)

\* A stage of a parser: a text, or reads that are done once or repeatedly.
StageOf == [op : {"get", "repeat"}, reads : Readings] \cup {Text}

\* Joining short sequences.
LEMMA Joined ==
    /\ \A a, b : <<a>> \o <<b>> = <<a, b>>
    /\ \A a, b, c, d, e : <<a, b, c>> \o <<d, e>> = <<a, b, c, d, e>>
<1>1. ASSUME NEW a, NEW b PROVE <<a>> \o <<b>> = <<a, b>>
  <2>. DEFINE S == {a, b}
              x == <<a>> \o <<b>>
  <2>1. <<a>> \in Seq(S) /\ <<b>> \in Seq(S) /\ <<a, b>> \in Seq(S)
    OBVIOUS
  <2>2. /\ x \in Seq(S) /\ Len(x) = 2
        /\ \A k \in 1..2 : x[k] = IF k <= 1 THEN <<a>>[k] ELSE <<b>>[k - 1]
    BY <2>1, ConcatProperties
  <2>3. \A k \in 1..2 : x[k] = <<a, b>>[k]
    BY <2>2
  <2>4. Len(<<a, b>>) = 2
    OBVIOUS
  <2>. HIDE DEF x
  <2>5. x = <<a, b>>
    BY <2>1, <2>2, <2>3, <2>4, SeqEqual
  <2>. QED
    BY <2>5 DEF x
<1>2. ASSUME NEW a, NEW b, NEW c, NEW d, NEW e
      PROVE  <<a, b, c>> \o <<d, e>> = <<a, b, c, d, e>>
  <2>. DEFINE S == {a, b, c, d, e}
              x == <<a, b, c>> \o <<d, e>>
              y == <<a, b, c, d, e>>
  <2>1. <<a, b, c>> \in Seq(S) /\ <<d, e>> \in Seq(S) /\ y \in Seq(S)
    OBVIOUS
  <2>2. /\ x \in Seq(S) /\ Len(x) = 5
        /\ \A k \in 1..5 : x[k] = IF k <= 3 THEN <<a, b, c>>[k] ELSE <<d, e>>[k - 3]
    BY <2>1, ConcatProperties
  <2>3. \A k \in 1..5 : x[k] = y[k]
    <3>1. \A k \in 1..5 : k \in {1, 2, 3, 4, 5}
      OBVIOUS
    <3>. QED
      BY <2>2, <3>1
  <2>4. Len(y) = 5
    OBVIOUS
  <2>. HIDE DEF x, y
  <2>5. x = y
    BY <2>1, <2>2, <2>3, <2>4, SeqEqual
  <2>. QED
    BY <2>5 DEF x, y
<1>. QED
  BY <1>1, <1>2

\* Stages of reads and their repetitions are stages.
LEMMA StageFacts ==
    /\ \A st, n, l : Takes(st, n, l) /\ st = [op |-> "get", reads |-> st.reads]
                        => st \in StageOf
    /\ \A w, err : Get(w, err) = [op |-> "get", reads |-> Get(w, err).reads]
    /\ Repeat(Reads(<<12, 1, 16>>, "truncated_1013_announcements")) \in StageOf
    /\ Text \in StageOf
<1>1. Repeat(Reads(<<12, 1, 16>>, "truncated_1013_announcements")) \in StageOf
  <2>1. <<12, 1, 16>> \in Seq(Nat) /\ <<12, 1, 16>> # <<>>
    OBVIOUS
  <2>2. "truncated_1013_announcements" \in Errors
    BY DEF Errors
  <2>3. Reads(<<12, 1, 16>>, "truncated_1013_announcements") \in Readings
    BY <2>1, <2>2, ReadsFacts
  <2>. QED
    BY <2>3 DEF Repeat, StageOf
<1>2. ASSUME NEW st, NEW n, NEW l, Takes(st, n, l), st = [op |-> "get", reads |-> st.reads]
      PROVE  st \in StageOf
  BY <1>2 DEF Takes, StageOf
<1>3. \A w, err : Get(w, err) = [op |-> "get", reads |-> Get(w, err).reads]
  BY DEF Get
<1>. QED
  BY <1>1, <1>2, <1>3 DEF StageOf

\* The scripts of the parsers, stage by stage.
LEMMA Scripts ==
    /\ Stages(1005) = <<Get(<<12, 6, 1, 1, 1, 1, 38, 1, 1, 38, 2, 38>>, "invalid_1005_1006")>>
    /\ Stages(1006) = <<Get(<<12, 6, 1, 1, 1, 1, 38, 1, 1, 38, 2, 38>>, "invalid_1005_1006"),
                        Get(<<16>>, "missing_antenna_height")>>
    /\ Stages(1007) = <<Get(<<12, 8>>, "invalid_1007_1008"), Text,
                        Get(<<8>>, "missing_setup_id")>>
    /\ Stages(1008) = <<Get(<<12, 8>>, "invalid_1007_1008"), Text,
                        Get(<<8>>, "missing_setup_id"),
                        Get(<<8>>, "missing_serial_length"), Text>>
    /\ Stages(1033) = decode_1033 /\ Stages(1013) = decode_1013
    /\ Stages(1019) = decode_1019 /\ Stages(1020) = decode_1020
    /\ Stages(1045) = decode_1045_1046 /\ Stages(1046) = decode_1045_1046
    /\ Stages(1230) = decode_1230
<1>1. Stages(1005) = decode_1005_1006(1005) /\ Stages(1006) = decode_1005_1006(1006)
  BY DEF Stages, IsMsm
<1>2. Stages(1007) = decode_1007_1008(1007) /\ Stages(1008) = decode_1007_1008(1008)
  BY DEF Stages, IsMsm
<1>3. decode_1005_1006(1005)
        = <<Get(<<12, 6, 1, 1, 1, 1, 38, 1, 1, 38, 2, 38>>, "invalid_1005_1006")>>
  BY DEF decode_1005_1006
<1>4. decode_1005_1006(1006)
        = <<Get(<<12, 6, 1, 1, 1, 1, 38, 1, 1, 38, 2, 38>>, "invalid_1005_1006"),
            Get(<<16>>, "missing_antenna_height")>>
  BY Joined DEF decode_1005_1006
<1>5. decode_1007_1008(1007)
        = <<Get(<<12, 8>>, "invalid_1007_1008"), Text, Get(<<8>>, "missing_setup_id")>>
  BY DEF decode_1007_1008
<1>6. decode_1007_1008(1008)
        = <<Get(<<12, 8>>, "invalid_1007_1008"), Text, Get(<<8>>, "missing_setup_id"),
            Get(<<8>>, "missing_serial_length"), Text>>
  BY Joined DEF decode_1007_1008
<1>7. /\ Stages(1033) = decode_1033 /\ Stages(1013) = decode_1013
      /\ Stages(1019) = decode_1019 /\ Stages(1020) = decode_1020
      /\ Stages(1045) = decode_1045_1046 /\ Stages(1046) = decode_1045_1046
      /\ Stages(1230) = decode_1230
  BY DEF Stages, IsMsm
<1>. QED
  BY <1>1, <1>2, <1>3, <1>4, <1>5, <1>6, <1>7

\* The last binary digit of a number.
LEMMA LastDigit ==
    ASSUME NEW q \in Nat, NEW h \in Nat, 2 * h <= q, q <= 2 * h + 1
    PROVE  q = 2 * h + (q % 2)
<1>1. q = 2 * h \/ q = 2 * h + 1
  OBVIOUS
<1>2. (2 * h) % 2 = 0 /\ (2 * h + 1) % 2 = 1
  OBVIOUS
<1>. QED
  BY <1>1, <1>2

\* The first twelve bits, read one by one, are the type of the message.
LEMMA TypeFacts ==
    ASSUME payload \in Seq(0..255), Len(payload) >= 2
    PROVE  Type = TypeOf(payload) /\ Type \in Nat
<1>. DEFINE x == payload[1]
            y == payload[2]
<1>1. x \in 0..255 /\ y \in 0..255
  <2>1. 1 \in 1..Len(payload) /\ 2 \in 1..Len(payload)
    BY LenProperties
  <2>. QED
    BY <2>1, ElementOfSeq
<1>2. /\ 2^0 = 1 /\ 2^1 = 2 /\ 2^2 = 4 /\ 2^3 = 8
      /\ 2^4 = 16 /\ 2^5 = 32 /\ 2^6 = 64 /\ 2^7 = 128
  OBVIOUS
<1>. HIDE DEF x, y
<1>. PICK f : Digits(payload, 0, 12, f)
  <2>1. 12 \in Nat
    OBVIOUS
  <2>. QED
    BY <2>1, ValueFollows
<1>3. /\ Value(payload, 0, 12) = f[12] /\ f[0] = 0
      /\ \A m \in 1..12 : f[m] = 2 * f[m - 1] + Bit(payload, 0 + m - 1)
  BY Zenon DEF Digits
<1>. USE DEF x, y
<1>4. /\ Bit(payload, 0) = (x \div 128) % 2 /\ Bit(payload, 1) = (x \div 64) % 2
      /\ Bit(payload, 2) = (x \div 32) % 2 /\ Bit(payload, 3) = (x \div 16) % 2
      /\ Bit(payload, 4) = (x \div 8) % 2 /\ Bit(payload, 5) = (x \div 4) % 2
      /\ Bit(payload, 6) = (x \div 2) % 2 /\ Bit(payload, 7) = (x \div 1) % 2
      /\ Bit(payload, 8) = (y \div 128) % 2 /\ Bit(payload, 9) = (y \div 64) % 2
      /\ Bit(payload, 10) = (y \div 32) % 2 /\ Bit(payload, 11) = (y \div 16) % 2
  BY <1>2 DEF Bit
<1>. HIDE DEF x, y
<1>5. /\ f[1] = 2 * f[0] + Bit(payload, 0) /\ f[2] = 2 * f[1] + Bit(payload, 1)
      /\ f[3] = 2 * f[2] + Bit(payload, 2) /\ f[4] = 2 * f[3] + Bit(payload, 3)
      /\ f[5] = 2 * f[4] + Bit(payload, 4) /\ f[6] = 2 * f[5] + Bit(payload, 5)
      /\ f[7] = 2 * f[6] + Bit(payload, 6) /\ f[8] = 2 * f[7] + Bit(payload, 7)
      /\ f[9] = 2 * f[8] + Bit(payload, 8) /\ f[10] = 2 * f[9] + Bit(payload, 9)
      /\ f[11] = 2 * f[10] + Bit(payload, 10) /\ f[12] = 2 * f[11] + Bit(payload, 11)
  BY <1>3
\* Every binary digit doubles the number before it.
<1>6. \A z \in 0..255 :
        /\ z \div 128 = (z \div 128) % 2
        /\ z \div 64 = 2 * (z \div 128) + ((z \div 64) % 2)
        /\ z \div 32 = 2 * (z \div 64) + ((z \div 32) % 2)
        /\ z \div 16 = 2 * (z \div 32) + ((z \div 16) % 2)
        /\ z \div 8 = 2 * (z \div 16) + ((z \div 8) % 2)
        /\ z \div 4 = 2 * (z \div 8) + ((z \div 4) % 2)
        /\ z \div 2 = 2 * (z \div 4) + ((z \div 2) % 2)
        /\ z \div 1 = 2 * (z \div 2) + ((z \div 1) % 2) /\ z \div 1 = z
  <2>. TAKE z \in 0..255
  <2>1. z \div 128 = (z \div 128) % 2
    OBVIOUS
  <2>2. z \div 64 = 2 * (z \div 128) + ((z \div 64) % 2)
    <3>1. /\ z \div 64 \in Nat /\ z \div 128 \in Nat
          /\ 2 * (z \div 128) <= z \div 64
          /\ z \div 64 <= 2 * (z \div 128) + 1
      OBVIOUS
    <3>. QED
      BY <3>1, LastDigit
  <2>3. z \div 32 = 2 * (z \div 64) + ((z \div 32) % 2)
    <3>1. /\ z \div 32 \in Nat /\ z \div 64 \in Nat
          /\ 2 * (z \div 64) <= z \div 32
          /\ z \div 32 <= 2 * (z \div 64) + 1
      OBVIOUS
    <3>. QED
      BY <3>1, LastDigit
  <2>4. z \div 16 = 2 * (z \div 32) + ((z \div 16) % 2)
    <3>1. /\ z \div 16 \in Nat /\ z \div 32 \in Nat
          /\ 2 * (z \div 32) <= z \div 16
          /\ z \div 16 <= 2 * (z \div 32) + 1
      OBVIOUS
    <3>. QED
      BY <3>1, LastDigit
  <2>5. z \div 8 = 2 * (z \div 16) + ((z \div 8) % 2)
    <3>1. /\ z \div 8 \in Nat /\ z \div 16 \in Nat
          /\ 2 * (z \div 16) <= z \div 8
          /\ z \div 8 <= 2 * (z \div 16) + 1
      OBVIOUS
    <3>. QED
      BY <3>1, LastDigit
  <2>6. z \div 4 = 2 * (z \div 8) + ((z \div 4) % 2)
    <3>1. /\ z \div 4 \in Nat /\ z \div 8 \in Nat
          /\ 2 * (z \div 8) <= z \div 4
          /\ z \div 4 <= 2 * (z \div 8) + 1
      OBVIOUS
    <3>. QED
      BY <3>1, LastDigit
  <2>7. z \div 2 = 2 * (z \div 4) + ((z \div 2) % 2)
    <3>1. /\ z \div 2 \in Nat /\ z \div 4 \in Nat
          /\ 2 * (z \div 4) <= z \div 2
          /\ z \div 2 <= 2 * (z \div 4) + 1
      OBVIOUS
    <3>. QED
      BY <3>1, LastDigit
  <2>8. z \div 1 = 2 * (z \div 2) + ((z \div 1) % 2)
    <3>1. /\ z \div 1 \in Nat /\ z \div 2 \in Nat
          /\ 2 * (z \div 2) <= z \div 1
          /\ z \div 1 <= 2 * (z \div 2) + 1
      OBVIOUS
    <3>. QED
      BY <3>1, LastDigit
  <2>. QED
    BY <2>1, <2>2, <2>3, <2>4, <2>5, <2>6, <2>7, <2>8
<1>7. \A z \in 0..255 : /\ z \div 128 \in Nat /\ z \div 64 \in Nat /\ z \div 32 \in Nat
                       /\ z \div 16 \in Nat
  OBVIOUS
<1>8. f[8] = x
  <2>1. f[1] = x \div 128
    <3>1. x \div 128 = (x \div 128) % 2 /\ x \div 128 \in Nat
      BY <1>1, <1>6, <1>7
    <3>2. f[1] = 2 * 0 + Bit(payload, 0) /\ Bit(payload, 0) = (x \div 128) % 2
      BY <1>3, <1>4, <1>5
    <3>. QED
      BY <3>1, <3>2
  <2>2. f[2] = x \div 64
    <3>1. x \div 64 = 2 * (x \div 128) + ((x \div 64) % 2)
      BY <1>1, <1>6
    <3>2. f[2] = 2 * f[1] + Bit(payload, 1) /\ Bit(payload, 1) = (x \div 64) % 2
      BY <1>4, <1>5
    <3>. QED
      BY <2>1, <3>1, <3>2
  <2>3. f[3] = x \div 32
    <3>1. x \div 32 = 2 * (x \div 64) + ((x \div 32) % 2)
      BY <1>1, <1>6
    <3>2. f[3] = 2 * f[2] + Bit(payload, 2) /\ Bit(payload, 2) = (x \div 32) % 2
      BY <1>4, <1>5
    <3>. QED
      BY <2>2, <3>1, <3>2
  <2>4. f[4] = x \div 16
    <3>1. x \div 16 = 2 * (x \div 32) + ((x \div 16) % 2)
      BY <1>1, <1>6
    <3>2. f[4] = 2 * f[3] + Bit(payload, 3) /\ Bit(payload, 3) = (x \div 16) % 2
      BY <1>4, <1>5
    <3>. QED
      BY <2>3, <3>1, <3>2
  <2>5. f[5] = x \div 8
    <3>1. x \div 8 = 2 * (x \div 16) + ((x \div 8) % 2)
      BY <1>1, <1>6
    <3>2. f[5] = 2 * f[4] + Bit(payload, 4) /\ Bit(payload, 4) = (x \div 8) % 2
      BY <1>4, <1>5
    <3>. QED
      BY <2>4, <3>1, <3>2
  <2>6. f[6] = x \div 4
    <3>1. x \div 4 = 2 * (x \div 8) + ((x \div 4) % 2)
      BY <1>1, <1>6
    <3>2. f[6] = 2 * f[5] + Bit(payload, 5) /\ Bit(payload, 5) = (x \div 4) % 2
      BY <1>4, <1>5
    <3>. QED
      BY <2>5, <3>1, <3>2
  <2>7. f[7] = x \div 2
    <3>1. x \div 2 = 2 * (x \div 4) + ((x \div 2) % 2)
      BY <1>1, <1>6
    <3>2. f[7] = 2 * f[6] + Bit(payload, 6) /\ Bit(payload, 6) = (x \div 2) % 2
      BY <1>4, <1>5
    <3>. QED
      BY <2>6, <3>1, <3>2
  <2>8. f[8] = x \div 1
    <3>1. x \div 1 = 2 * (x \div 2) + ((x \div 1) % 2)
      BY <1>1, <1>6
    <3>2. f[8] = 2 * f[7] + Bit(payload, 7) /\ Bit(payload, 7) = (x \div 1) % 2
      BY <1>4, <1>5
    <3>. QED
      BY <2>7, <3>1, <3>2
  <2>. QED
    BY <1>1, <1>6, <2>8
<1>9. f[12] = 16 * x + y \div 16
  <2>1. f[9] = 2 * x + y \div 128
    BY <1>1, <1>4, <1>5, <1>6, <1>8
  <2>2. f[10] = 4 * x + y \div 64
    <3>1. y \div 64 = 2 * (y \div 128) + ((y \div 64) % 2)
      BY <1>1, <1>6
    <3>2. f[10] = 2 * f[9] + Bit(payload, 9) /\ Bit(payload, 9) = (y \div 64) % 2
      BY <1>4, <1>5
    <3>. QED
      <4>1. \A a, b, c \in Nat : 2 * (2 * a + b) + c = 4 * a + (2 * b + c)
        OBVIOUS
      <4>2. x \in Nat /\ y \div 128 \in Nat /\ (y \div 64) % 2 \in Nat
        BY <1>1, <1>7
      <4>3. f[10] = 2 * (2 * x + y \div 128) + ((y \div 64) % 2)
        BY <2>1, <3>2
      <4>. QED
        BY <3>1, <4>1, <4>2, <4>3
  <2>3. f[11] = 8 * x + y \div 32
    <3>1. y \div 32 = 2 * (y \div 64) + ((y \div 32) % 2)
      BY <1>1, <1>6
    <3>2. f[11] = 2 * f[10] + Bit(payload, 10) /\ Bit(payload, 10) = (y \div 32) % 2
      BY <1>4, <1>5
    <3>. QED
      <4>1. \A a, b, c \in Nat : 2 * (4 * a + b) + c = 8 * a + (2 * b + c)
        OBVIOUS
      <4>2. x \in Nat /\ y \div 64 \in Nat /\ (y \div 32) % 2 \in Nat
        BY <1>1, <1>7
      <4>3. f[11] = 2 * (4 * x + y \div 64) + ((y \div 32) % 2)
        BY <2>2, <3>2
      <4>. QED
        BY <3>1, <4>1, <4>2, <4>3
  <2>4. f[12] = 16 * x + y \div 16
    <3>1. y \div 16 = 2 * (y \div 32) + ((y \div 16) % 2)
      BY <1>1, <1>6
    <3>2. f[12] = 2 * f[11] + Bit(payload, 11) /\ Bit(payload, 11) = (y \div 16) % 2
      BY <1>4, <1>5
    <3>. QED
      <4>1. \A a, b, c \in Nat : 2 * (8 * a + b) + c = 16 * a + (2 * b + c)
        OBVIOUS
      <4>2. x \in Nat /\ y \div 32 \in Nat /\ (y \div 16) % 2 \in Nat
        BY <1>1, <1>7
      <4>3. f[12] = 2 * (8 * x + y \div 32) + ((y \div 16) % 2)
        BY <2>3, <3>2
      <4>. QED
        BY <3>1, <4>1, <4>2, <4>3
  <2>. QED
    BY <2>4
<1>10. 16 * x + y \div 16 \in Nat
  BY <1>1, <1>7
<1>. QED
  BY <1>3, <1>9, <1>10 DEF Type, TypeOf, x, y

Script == Stages(Type)

\* The beginnings of the later texts of 1033: their lengths are at these places.
RxType == AfterText(24, 8)
RxFw == AfterText(RxType, 0)
RxSn == AfterText(RxFw, 0)
RxLast == AfterText(RxSn, 0)

\* Where the cursor is after each stage, by the payload alone.
Places(t) ==
    CASE t \in {1005, 1006} -> <<152, 168>>
      [] t \in {1007, 1008} ->
            <<32, AfterText(24, 0), AfterText(24, 8), AfterText(24, 16),
              AfterText(AfterText(24, 8), 0)>>
      [] t = 1033 ->
            <<32, AfterText(24, 0), AfterText(24, 16), RxFw, AfterText(RxType, 8),
              RxSn, AfterText(RxFw, 8), RxLast, AfterText(RxSn, 8), AfterText(RxLast, 0)>>
      [] t = 1013 -> <<62>>
      [] t = 1019 -> <<56>>
      [] t = 1020 -> <<35>>
      [] t \in {1045, 1046} -> <<48>>
      [] t = 1230 -> <<28>>
      [] IsMsm(t) -> <<169>>
      [] OTHER -> <<>>

Place(n) == IF n = 0 THEN 12 ELSE Places(Type)[n]

\* The fields of the first n stages are there.
Upto(n) == \A m \in 1..n : Script[m].op = "get" => Has(Place(m))

\* Stage n begins where the stage before it ends; the length of a text is the
\* field before it.
Adjoins(n) ==
    /\ Place(n - 1) \in Nat
    /\ \/ \E k, l \in Nat : /\ Takes(Script[n], k, l) /\ k >= 8 /\ l <= k
                           /\ Place(n) = Place(n - 1) + k
       \/ /\ Script[n] = Text /\ n > 1 /\ Place(n - 1) >= 8
          /\ \E k \in Nat : Takes(Script[n - 1], k, 8)
          /\ Place(n) = Place(n - 1) + 8 * Value(payload, Place(n - 1) - 8, 8)

\* A length that lies in the payload is a number.
LEMMA LengthFacts ==
    ASSUME payload \in Seq(0..255), NEW k \in Nat, Has(k + 8)
    PROVE  Value(payload, k, 8) \in Nat
  BY ValueFacts DEF Has, total_bits_

\* Messages of one stage.
LEMMA OneStage ==
    ASSUME NEW st, NEW k \in Nat, NEW l \in Nat, Script = <<st>>, Takes(st, k, l),
           k >= 8, l <= k, Places(Type)[1] = 12 + k
    PROVE  Adjoins(1) /\ Upto(0) /\ (Upto(1) <=> Has(12 + k)) /\ Len(Script) = 1
<1>1. Len(Script) = 1 /\ Script[1] = st /\ Place(0) = 12 /\ Place(1) = 12 + k
  BY DEF Place
<1>2. Adjoins(1)
  BY <1>1 DEF Adjoins
<1>3. st.op = "get"
  BY DEF Takes
<1>4. Upto(0) /\ (Upto(1) <=> Has(12 + k))
  BY <1>1, <1>3 DEF Upto
<1>. QED
  BY <1>1, <1>2, <1>4

\* The stages of a message lie side by side, as far as they are there.
Charted ==
    /\ Script \in Seq(StageOf)
    /\ \A n \in 1..Len(Script) :
         Upto(n - 1) => Adjoins(n) \/ (Script[n].op = "repeat" /\ Type = 1013)

\* Sequences of stages.
LEMMA StageSequences ==
    ASSUME NEW a \in StageOf
    PROVE  <<a>> \in Seq(StageOf)
  OBVIOUS

\* A stage of reads is a stage.
LEMMA GetsAreStages ==
    ASSUME NEW w, NEW err, NEW n, NEW l, Takes(Get(w, err), n, l)
    PROVE  Get(w, err) \in StageOf /\ Get(w, err).op = "get" /\ Get(w, err) # Text
<1>1. Get(w, err).op = "get"
  BY DEF Get
<1>2. Text.op = "text"
  BY DEF Text
<1>. QED
  BY <1>1, <1>2, StageFacts

\* A message of one stage is charted, and needs what the stage needs.
LEMMA OneStageCharted ==
    ASSUME NEW st, NEW k \in Nat, NEW l \in Nat, NEW m, Script = <<st>>, Takes(st, k, l),
           st \in StageOf, k >= 8, l <= k, m = 12 + k, Places(Type)[1] = m
    PROVE  Charted /\ (Upto(Len(Script)) <=> Has(m))
<1>1. Adjoins(1) /\ Upto(0) /\ (Upto(1) <=> Has(12 + k)) /\ Len(Script) = 1
  BY OneStage
<1>2. Script \in Seq(StageOf)
  BY StageSequences
<1>. QED
  BY <1>1, <1>2 DEF Charted

\* Messages of one stage, and what they need.
LEMMA FlatCharted ==
    ASSUME payload \in Seq(0..255), Len(payload) >= 2,
           Type \in {1005, 1019, 1020, 1045, 1046, 1230}
    PROVE  Charted /\ (Whole <=> Upto(Len(Script)))
<1>1. TypeOf(payload) = Type /\ Has(16)
  BY TypeFacts, LenProperties DEF Has, total_bits_
<1>2. Takes(Get(<<12, 1, 3>>, "invalid_1230"), 16, 3)
  <2>1. "invalid_1230" \in Errors /\ 12 + 1 + 3 = 16
    BY DEF Errors
  <2>2. Takes(Get(<<12, 1, 3>>, "invalid_1230"), 12 + 1 + 3, 3)
    BY <2>1, ShortStages
  <2>. QED
    BY <2>1, <2>2
<1>3. CASE Type = 1005
  <2>. DEFINE st == Get(<<12, 6, 1, 1, 1, 1, 38, 1, 1, 38, 2, 38>>, "invalid_1005_1006")
  <2>1. Script = <<st>>
    BY <1>3, Scripts DEF Script
  <2>2. Takes(st, 140, 38) /\ st \in StageOf
    BY LongStages, GetsAreStages
  <2>. HIDE DEF st
  <2>3. Places(Type)[1] = 152
    BY <1>3 DEF Places, IsMsm
  <2>4. Charted /\ (Upto(Len(Script)) <=> Has(152))
    <3>1. 140 \in Nat /\ 38 \in Nat /\ 140 >= 8 /\ 38 <= 140 /\ 152 = 12 + 140
      OBVIOUS
    <3>. QED
      BY <2>1, <2>2, <2>3, <3>1, OneStageCharted
  <2>5. Whole <=> Has(152)
    BY <1>1, <1>3 DEF Whole
  <2>. QED
    BY <2>4, <2>5
<1>4. CASE Type = 1019
  <2>. DEFINE st == Get(<<6, 10, 4, 2, 14, 8>>, "invalid_1019")
  <2>1. Script = <<st>>
    BY <1>4, Scripts DEF Script, decode_1019
  <2>2. Takes(st, 44, 8) /\ st \in StageOf
    BY LongStages, GetsAreStages
  <2>. HIDE DEF st
  <2>3. Places(Type)[1] = 56
    BY <1>4 DEF Places, IsMsm
  <2>4. Charted /\ (Upto(Len(Script)) <=> Has(56))
    <3>1. 44 \in Nat /\ 8 \in Nat /\ 44 >= 8 /\ 8 <= 44 /\ 56 = 12 + 44
      OBVIOUS
    <3>. QED
      BY <2>1, <2>2, <2>3, <3>1, OneStageCharted
  <2>5. Whole <=> Has(56)
    BY <1>1, <1>4 DEF Whole
  <2>. QED
    BY <2>4, <2>5
<1>5. CASE Type = 1020
  <2>. DEFINE st == Get(<<6, 5, 5, 6, 1>>, "invalid_1020")
  <2>1. Script = <<st>>
    BY <1>5, Scripts DEF Script, decode_1020
  <2>2. Takes(st, 23, 1) /\ st \in StageOf
    BY LongStages, GetsAreStages
  <2>. HIDE DEF st
  <2>3. Places(Type)[1] = 35
    BY <1>5 DEF Places, IsMsm
  <2>4. Charted /\ (Upto(Len(Script)) <=> Has(35))
    <3>1. 23 \in Nat /\ 1 \in Nat /\ 23 >= 8 /\ 1 <= 23 /\ 35 = 12 + 23
      OBVIOUS
    <3>. QED
      BY <2>1, <2>2, <2>3, <3>1, OneStageCharted
  <2>5. Whole <=> Has(35)
    BY <1>1, <1>5 DEF Whole
  <2>. QED
    BY <2>4, <2>5
<1>6. CASE Type = 1045
  <2>. DEFINE st == Get(<<6, 12, 10, 8>>, "invalid_1045_1046")
  <2>1. Script = <<st>>
    BY <1>6, Scripts DEF Script, decode_1045_1046
  <2>2. Takes(st, 36, 8) /\ st \in StageOf
    BY LongStages, GetsAreStages
  <2>. HIDE DEF st
  <2>3. Places(Type)[1] = 48
    BY <1>6 DEF Places, IsMsm
  <2>4. Charted /\ (Upto(Len(Script)) <=> Has(48))
    <3>1. 36 \in Nat /\ 8 \in Nat /\ 36 >= 8 /\ 8 <= 36 /\ 48 = 12 + 36
      OBVIOUS
    <3>. QED
      BY <2>1, <2>2, <2>3, <3>1, OneStageCharted
  <2>5. Whole <=> Has(48)
    BY <1>1, <1>6 DEF Whole
  <2>. QED
    BY <2>4, <2>5
<1>7. CASE Type = 1046
  <2>. DEFINE st == Get(<<6, 12, 10, 8>>, "invalid_1045_1046")
  <2>1. Script = <<st>>
    BY <1>7, Scripts DEF Script, decode_1045_1046
  <2>2. Takes(st, 36, 8) /\ st \in StageOf
    BY LongStages, GetsAreStages
  <2>. HIDE DEF st
  <2>3. Places(Type)[1] = 48
    BY <1>7 DEF Places, IsMsm
  <2>4. Charted /\ (Upto(Len(Script)) <=> Has(48))
    <3>1. 36 \in Nat /\ 8 \in Nat /\ 36 >= 8 /\ 8 <= 36 /\ 48 = 12 + 36
      OBVIOUS
    <3>. QED
      BY <2>1, <2>2, <2>3, <3>1, OneStageCharted
  <2>5. Whole <=> Has(48)
    BY <1>1, <1>7 DEF Whole
  <2>. QED
    BY <2>4, <2>5
<1>8. CASE Type = 1230
  <2>. DEFINE st == Get(<<12, 1, 3>>, "invalid_1230")
  <2>1. Script = <<st>>
    BY <1>8, Scripts DEF Script, decode_1230
  <2>2. Takes(st, 16, 3) /\ st \in StageOf
    BY <1>2, GetsAreStages
  <2>. HIDE DEF st
  <2>3. Places(Type)[1] = 28
    BY <1>8 DEF Places, IsMsm
  <2>4. Charted /\ (Upto(Len(Script)) <=> Has(28))
    <3>1. 16 \in Nat /\ 3 \in Nat /\ 16 >= 8 /\ 3 <= 16 /\ 28 = 12 + 16
      OBVIOUS
    <3>. QED
      BY <2>1, <2>2, <2>3, <3>1, OneStageCharted
  <2>5. Whole <=> Has(28)
    BY <1>1, <1>8 DEF Whole
  <2>. QED
    BY <2>4, <2>5
<1>. QED
  BY <1>3, <1>4, <1>5, <1>6, <1>7, <1>8

\* The header of an MSM.
LEMMA MsmCharted ==
    ASSUME payload \in Seq(0..255), Len(payload) >= 2, IsMsm(Type)
    PROVE  /\ Charted /\ Len(Script) = 1 /\ (Upto(1) <=> Has(169))
           /\ Place(1) = 169 /\ Takes(Script[1], 157, 32)
<1>. DEFINE st == Get(<<12, 30, 1, 3, 7, 2, 2, 1, 3, 64, 32>>, "invalid_msm_header")
<1>1. Script = <<st>>
  BY DEF Script, Stages, IsMsm, msm_header
<1>2. Takes(st, 157, 32)
  BY LongStages
<1>3. st = [op |-> "get", reads |-> st.reads]
  BY DEF Get
<1>. HIDE DEF st
<1>4. Places(Type) = <<169>>
  BY DEF Places, IsMsm
<1>5. Places(Type)[1] = 12 + 157 /\ Place(1) = 169
  BY <1>4 DEF Place
<1>6. Adjoins(1) /\ Upto(0) /\ (Upto(1) <=> Has(169)) /\ Len(Script) = 1
  BY <1>1, <1>2, <1>5, OneStage
<1>7. Script \in Seq(StageOf) /\ Script[1] = st
  BY <1>1, <1>2, <1>3, StageFacts, StageSequences
<1>. QED
  BY <1>2, <1>5, <1>6, <1>7 DEF Charted


\* The length of a text that follows the place n is a number.
LEMMA TextPlaces ==
    ASSUME payload \in Seq(0..255), NEW at \in Nat, NEW n \in Nat, Has(at + 8)
    PROVE  AfterText(at, n) \in Nat /\ AfterText(at, n) >= at + 8 + n
           /\ AfterText(at, n) = AfterText(at, 0) + n
           /\ AfterText(at, 0) = at + 8 + 8 * Value(payload, at, 8)
<1>1. Value(payload, at, 8) \in Nat
  BY LengthFacts
<1>. QED
  BY <1>1 DEF AfterText

\* Stages of one or two short fields.
LEMMA ShortTakes ==
    /\ Takes(Get(<<16>>, "missing_antenna_height"), 16, 16)
    /\ Takes(Get(<<12, 8>>, "invalid_1007_1008"), 20, 8)
    /\ Takes(Get(<<8>>, "missing_setup_id"), 8, 8)
    /\ Takes(Get(<<8>>, "missing_serial_length"), 8, 8)
    /\ Takes(Get(<<12, 8>>, "invalid_1033"), 20, 8)
    /\ Takes(Get(<<8, 8>>, "invalid_1033_fields"), 16, 8)
    /\ Takes(Get(<<8>>, "invalid_1033_rx_type"), 8, 8)
    /\ Takes(Get(<<8>>, "invalid_1033_rx_fw"), 8, 8)
    /\ Takes(Get(<<8>>, "invalid_1033_rx_sn"), 8, 8)
<1>1. /\ "missing_antenna_height" \in Errors /\ "invalid_1007_1008" \in Errors
      /\ "missing_setup_id" \in Errors /\ "missing_serial_length" \in Errors
      /\ "invalid_1033" \in Errors /\ "invalid_1033_fields" \in Errors
      /\ "invalid_1033_rx_type" \in Errors /\ "invalid_1033_rx_fw" \in Errors
      /\ "invalid_1033_rx_sn" \in Errors
  BY DEF Errors
<1>2. \A err \in Errors : /\ Takes(Get(<<16>>, err), 16, 16)
                          /\ Takes(Get(<<8>>, err), 8, 8)
  BY ShortStages
<1>3. ASSUME NEW err \in Errors
      PROVE  Takes(Get(<<12, 8>>, err), 20, 8) /\ Takes(Get(<<8, 8>>, err), 16, 8)
  <2>1. 12 + 8 = 20 /\ 8 + 8 = 16
    OBVIOUS
  <2>2. Takes(Get(<<12, 8>>, err), 12 + 8, 8) /\ Takes(Get(<<8, 8>>, err), 8 + 8, 8)
    BY ShortStages
  <2>. QED
    BY <2>1, <2>2
<1>. QED
  BY <1>1, <1>2, <1>3

\* Message 1006.
LEMMA Charted1006 ==
    ASSUME payload \in Seq(0..255), Len(payload) >= 2, Type = 1006
    PROVE  Charted /\ (Whole <=> Upto(Len(Script)))
<1>. DEFINE a == Get(<<12, 6, 1, 1, 1, 1, 38, 1, 1, 38, 2, 38>>, "invalid_1005_1006")
            b == Get(<<16>>, "missing_antenna_height")
<1>1. Script = <<a, b>>
  BY Scripts DEF Script
<1>2. Takes(a, 140, 38) /\ Takes(b, 16, 16)
  BY LongStages, ShortTakes
<1>3. a \in StageOf /\ a.op = "get" /\ b \in StageOf /\ b.op = "get"
  BY <1>2, GetsAreStages
<1>. HIDE DEF a, b
<1>4. Place(0) = 12 /\ Place(1) = 152 /\ Place(2) = 168
  BY DEF Place, Places, IsMsm
<1>5. Len(Script) = 2 /\ Script[1] = a /\ Script[2] = b /\ Script \in Seq(StageOf)
  BY <1>1, <1>3
<1>6. Adjoins(1)
  BY <1>2, <1>4, <1>5 DEF Adjoins
<1>7. Adjoins(2)
  BY <1>2, <1>4, <1>5 DEF Adjoins
<1>8. Upto(2) <=> Has(152) /\ Has(168)
  BY <1>3, <1>4, <1>5 DEF Upto
<1>9. total_bits_ \in Nat /\ TypeOf(payload) = 1006
  BY TypeFacts, LenProperties DEF total_bits_
<1>10. Whole <=> Has(16) /\ Has(168)
  BY <1>9 DEF Whole
<1>. QED
  BY <1>5, <1>6, <1>7, <1>8, <1>9, <1>10 DEF Charted, Has

\* Messages 1007 and 1008: the description of the antenna.
LEMMA Charted1007 ==
    ASSUME payload \in Seq(0..255), Len(payload) >= 2, Type = 1007
    PROVE  Charted /\ (Whole <=> Upto(Len(Script)))
<1>. DEFINE a == Get(<<12, 8>>, "invalid_1007_1008")
            c == Get(<<8>>, "missing_setup_id")
<1>1. Script = <<a, Text, c>>
  BY Scripts DEF Script
<1>2. Takes(a, 20, 8) /\ Takes(c, 8, 8)
  BY ShortTakes
<1>3. /\ a \in StageOf /\ a.op = "get" /\ c \in StageOf /\ c.op = "get"
      /\ Text \in StageOf /\ Text.op # "get"
  BY <1>2, GetsAreStages, StageFacts DEF Text
<1>. HIDE DEF a, c
<1>4. /\ Place(0) = 12 /\ Place(1) = 32 /\ Place(2) = AfterText(24, 0)
      /\ Place(3) = AfterText(24, 8)
  BY DEF Place, Places, IsMsm
<1>5. Len(Script) = 3 /\ Script[1] = a /\ Script[2] = Text /\ Script[3] = c
  BY <1>1
<1>6. Script \in Seq(StageOf)
  BY <1>1, <1>3
<1>7. Adjoins(1)
  BY <1>2, <1>4, <1>5 DEF Adjoins
<1>8. ASSUME Has(32) PROVE Adjoins(2) /\ Adjoins(3)
  <2>1. /\ AfterText(24, 0) \in Nat /\ AfterText(24, 8) = AfterText(24, 0) + 8
        /\ AfterText(24, 0) = 24 + 8 + 8 * Value(payload, 24, 8)
    BY <1>8, TextPlaces
  <2>2. Value(payload, 24, 8) \in Nat
    BY <1>8, LengthFacts
  <2>3. Adjoins(2)
    <3>1. 2 - 1 = 1 /\ 32 - 8 = 24 /\ 2 > 1 /\ 20 \in Nat
      OBVIOUS
    <3>2. Takes(Script[1], 20, 8) /\ Script[2] = Text
      BY <1>2, <1>5, Zenon
    <3>3. Place(1) \in Nat /\ Place(1) >= 8
      BY <1>4
    <3>4. Place(2) = 32 + 8 * Value(payload, 24, 8)
      BY <1>4, <2>1, <2>2
    <3>5. Place(2) = Place(1) + 8 * Value(payload, Place(1) - 8, 8)
      BY <1>4, <3>1, <3>4, Zenon
    <3>. QED
      BY <3>1, <3>2, <3>3, <3>5, Zenon DEF Adjoins
  <2>4. Adjoins(3)
    BY <1>2, <1>4, <1>5, <2>1 DEF Adjoins
  <2>. QED
    BY <2>3, <2>4
<1>9. /\ Upto(1) <=> Has(32)
      /\ Upto(2) <=> Has(32)
      /\ Upto(3) <=> Has(32) /\ Has(AfterText(24, 8))
  BY <1>3, <1>4, <1>5 DEF Upto
<1>10. total_bits_ \in Nat /\ TypeOf(payload) = 1007
  BY TypeFacts, LenProperties DEF total_bits_
<1>11. Whole <=> Has(16) /\ Has(32) /\ Has(AfterText(24, 8))
  BY <1>10 DEF Whole, WholeDescriptor
<1>12. ASSUME NEW n \in 1..Len(Script), Upto(n - 1) PROVE Adjoins(n)
  <2>1. n = 1 \/ n = 2 \/ n = 3
    BY <1>5
  <2>2. n = 2 => Upto(1)
    BY <1>12
  <2>3. n = 3 => Upto(2)
    BY <1>12
  <2>. QED
    BY <1>7, <1>8, <1>9, <2>1, <2>2, <2>3
<1>. QED
  BY <1>5, <1>6, <1>9, <1>10, <1>11, <1>12 DEF Charted, Has

\* Message 1008: two texts, the last of which may be cut short.
LEMMA Charted1008 ==
    ASSUME payload \in Seq(0..255), Len(payload) >= 2, Type = 1008
    PROVE  Charted /\ (Whole <=> Upto(Len(Script)))
<1>. DEFINE a == Get(<<12, 8>>, "invalid_1007_1008")
            c == Get(<<8>>, "missing_setup_id")
            d == Get(<<8>>, "missing_serial_length")
<1>1. Script = <<a, Text, c, d, Text>>
  BY Scripts DEF Script
<1>2. /\ Takes(a, 20, 8) /\ Takes(c, 8, 8) /\ Takes(d, 8, 8)
  BY ShortTakes
<1>3. /\ a \in StageOf /\ a.op = "get"
      /\ c \in StageOf /\ c.op = "get"
      /\ d \in StageOf /\ d.op = "get"
      /\ Text \in StageOf /\ Text.op # "get"
  BY <1>2, GetsAreStages, StageFacts DEF Text
<1>. HIDE DEF a, c, d
<1>4. /\ Place(0) = 12 /\ Place(1) = 32
      /\ Place(2) = AfterText(24, 0)
      /\ Place(3) = AfterText(24, 8)
      /\ Place(4) = AfterText(24, 16)
      /\ Place(5) = AfterText(AfterText(24, 8), 0)
  BY DEF Place, Places, IsMsm
<1>5. /\ Len(Script) = 5 /\ Script[1] = a
      /\ Script[2] = Text
      /\ Script[3] = c
      /\ Script[4] = d
      /\ Script[5] = Text
  BY <1>1
<1>6. Script \in Seq(StageOf)
  BY <1>1, <1>3
<1>7. Adjoins(1)
  BY <1>2, <1>4, <1>5 DEF Adjoins
<1>8. ASSUME Has(32) PROVE Adjoins(2) /\ Adjoins(3) /\ Adjoins(4)
  <2>1. /\ AfterText(24, 0) \in Nat /\ AfterText(24, 8) = AfterText(24, 0) + 8
        /\ AfterText(24, 16) = AfterText(24, 0) + 16
        /\ AfterText(24, 0) = 24 + 8 + 8 * Value(payload, 24, 8)
    BY <1>8, TextPlaces
  <2>2. Value(payload, 24, 8) \in Nat
    BY <1>8, LengthFacts
  <2>3. Adjoins(2)
    <3>1. 2 - 1 = 1 /\ 32 - 8 = 24 /\ 2 > 1 /\ 20 \in Nat
      OBVIOUS
    <3>2. Takes(Script[1], 20, 8) /\ Script[2] = Text
      BY <1>2, <1>5, Zenon
    <3>3. Place(1) \in Nat /\ Place(1) >= 8
      BY <1>4
    <3>4. Place(2) = 32 + 8 * Value(payload, 24, 8)
      BY <1>4, <2>1, <2>2
    <3>5. Place(2) = Place(1) + 8 * Value(payload, Place(1) - 8, 8)
      BY <1>4, <3>1, <3>4, Zenon
    <3>. QED
      BY <3>1, <3>2, <3>3, <3>5, Zenon DEF Adjoins
  <2>4. Adjoins(3)
    BY <1>2, <1>4, <1>5, <2>1 DEF Adjoins
  <2>5. Adjoins(4)
    BY <1>2, <1>4, <1>5, <2>1 DEF Adjoins
  <2>. QED
    BY <2>3, <2>4, <2>5
<1>9. ASSUME Has(32), Has(AfterText(24, 16)) PROVE Adjoins(5)
  <2>. DEFINE at == AfterText(24, 8)
  <2>1. /\ at \in Nat /\ at + 8 = AfterText(24, 16)
    <3>1. /\ AfterText(24, 0) \in Nat /\ AfterText(24, 8) = AfterText(24, 0) + 8
          /\ AfterText(24, 16) = AfterText(24, 0) + 16
      BY <1>9, TextPlaces
    <3>. QED
      BY <3>1
  <2>. HIDE DEF at
  <2>2. /\ AfterText(at, 0) = at + 8 + 8 * Value(payload, at, 8)
        /\ Place(5) = AfterText(at, 0)
    BY <1>4, <1>9, <2>1, TextPlaces DEF at
  <2>3. Place(4) = at + 8
    BY <1>4, <2>1
  <2>. QED
    BY <1>2, <1>5, <2>1, <2>2, <2>3 DEF Adjoins
<1>10. /\ Upto(1) <=> Has(32)
       /\ Upto(2) <=> Has(32)
       /\ Upto(3) <=> Has(32) /\ Has(AfterText(24, 8))
       /\ Upto(4) <=> Has(32) /\ Has(AfterText(24, 8)) /\ Has(AfterText(24, 16))
       /\ Upto(5) <=> Upto(4)
  BY <1>3, <1>4, <1>5 DEF Upto
<1>11. total_bits_ \in Nat /\ TypeOf(payload) = 1008
  BY TypeFacts, LenProperties DEF total_bits_
<1>12. Whole <=> Has(16) /\ Has(32) /\ Has(AfterText(24, 8)) /\ Has(AfterText(24, 16))
  BY <1>11 DEF Whole, WholeDescriptor
<1>13. ASSUME NEW n \in 1..Len(Script), Upto(n - 1) PROVE Adjoins(n)
  <2>1. n = 1 \/ n = 2 \/ n = 3 \/ n = 4 \/ n = 5
    BY <1>5
  <2>2. (n = 2 => Upto(1)) /\ (n = 3 => Upto(2)) /\ (n = 4 => Upto(3)) /\ (n = 5 => Upto(4))
    BY <1>13
  <2>. QED
    BY <1>7, <1>8, <1>9, <1>10, <2>1, <2>2
<1>. QED
  BY <1>5, <1>6, <1>10, <1>11, <1>12, <1>13 DEF Charted, Has

\* Message 1033: five texts, each after the length of the text before it.
LEMMA Charted1033 ==
    ASSUME payload \in Seq(0..255), Len(payload) >= 2, Type = 1033
    PROVE  Charted /\ (Whole <=> Upto(Len(Script)))
<1>. DEFINE a == Get(<<12, 8>>, "invalid_1033")
            b == Get(<<8, 8>>, "invalid_1033_fields")
            c == Get(<<8>>, "invalid_1033_rx_type")
            d == Get(<<8>>, "invalid_1033_rx_fw")
            e == Get(<<8>>, "invalid_1033_rx_sn")
<1>1. Script = <<a, Text, b, Text, c, Text, d, Text, e, Text>>
  BY Scripts DEF Script, decode_1033
<1>2. /\ Takes(a, 20, 8) /\ Takes(b, 16, 8) /\ Takes(c, 8, 8)
      /\ Takes(d, 8, 8) /\ Takes(e, 8, 8)
  BY ShortTakes
<1>3. /\ a \in StageOf /\ a.op = "get"
      /\ b \in StageOf /\ b.op = "get"
      /\ c \in StageOf /\ c.op = "get"
      /\ d \in StageOf /\ d.op = "get"
      /\ e \in StageOf /\ e.op = "get"
      /\ Text \in StageOf /\ Text.op # "get"
  BY <1>2, GetsAreStages, StageFacts DEF Text
<1>. HIDE DEF a, b, c, d, e
<1>4. /\ Place(0) = 12 /\ Place(1) = 32
      /\ Place(2) = AfterText(24, 0)
      /\ Place(3) = AfterText(24, 16)
      /\ Place(4) = RxFw
      /\ Place(5) = AfterText(RxType, 8)
      /\ Place(6) = RxSn
      /\ Place(7) = AfterText(RxFw, 8)
      /\ Place(8) = RxLast
      /\ Place(9) = AfterText(RxSn, 8)
      /\ Place(10) = AfterText(RxLast, 0)
  BY DEF Place, Places, IsMsm
<1>5. /\ Len(Script) = 10 /\ Script[1] = a
      /\ Script[2] = Text
      /\ Script[3] = b
      /\ Script[4] = Text
      /\ Script[5] = c
      /\ Script[6] = Text
      /\ Script[7] = d
      /\ Script[8] = Text
      /\ Script[9] = e
      /\ Script[10] = Text
  BY <1>1
<1>6. Script \in Seq(StageOf)
  BY <1>1, <1>3
<1>7. Adjoins(1)
  BY <1>2, <1>4, <1>5 DEF Adjoins
<1>8. ASSUME Has(32)
      PROVE  Adjoins(2) /\ Adjoins(3) /\ RxType \in Nat /\ RxType + 8 = AfterText(24, 16)
  <2>1. /\ AfterText(24, 0) \in Nat /\ AfterText(24, 8) = AfterText(24, 0) + 8
        /\ AfterText(24, 16) = AfterText(24, 0) + 16
        /\ AfterText(24, 0) = 24 + 8 + 8 * Value(payload, 24, 8)
    BY <1>8, TextPlaces
  <2>2. Value(payload, 24, 8) \in Nat
    BY <1>8, LengthFacts
  <2>3. Adjoins(2)
    <3>1. 2 - 1 = 1 /\ 32 - 8 = 24 /\ 2 > 1 /\ 20 \in Nat
      OBVIOUS
    <3>2. Takes(Script[1], 20, 8) /\ Script[2] = Text
      BY <1>2, <1>5, Zenon
    <3>3. Place(1) \in Nat /\ Place(1) >= 8
      BY <1>4
    <3>4. Place(2) = 32 + 8 * Value(payload, 24, 8)
      BY <1>4, <2>1, <2>2
    <3>5. Place(2) = Place(1) + 8 * Value(payload, Place(1) - 8, 8)
      BY <1>4, <3>1, <3>4, Zenon
    <3>. QED
      BY <3>1, <3>2, <3>3, <3>5, Zenon DEF Adjoins
  <2>4. Adjoins(3)
    BY <1>2, <1>4, <1>5, <2>1 DEF Adjoins
  <2>. QED
    BY <2>1, <2>3, <2>4 DEF RxType
<1>9. ASSUME RxType \in Nat, Place(3) = RxType + 8, Has(RxType + 8)
      PROVE  /\ Adjoins(4) /\ Adjoins(5)
             /\ RxFw \in Nat /\ Place(5) = RxFw + 8
  <2>1. /\ RxFw \in Nat /\ AfterText(RxType, 8) = RxFw + 8
        /\ RxFw = RxType + 8 + 8 * Value(payload, RxType, 8)
    BY <1>9, TextPlaces DEF RxFw
  <2>2. Place(4) = RxFw /\ Place(5) = RxFw + 8
    BY <1>4, <2>1
  <2>3. Adjoins(4)
    <3>1. 4 - 1 = 3 /\ Place(3) - 8 = RxType /\ Place(3) \in Nat /\ Place(3) >= 8
      BY <1>9
    <3>2. Place(4) = Place(3) + 8 * Value(payload, Place(3) - 8, 8)
      BY <1>9, <2>1, <2>2, <3>1
    <3>. QED
      BY <1>2, <1>5, <3>1, <3>2 DEF Adjoins
  <2>4. Adjoins(5)
    BY <1>2, <1>5, <2>1, <2>2 DEF Adjoins
  <2>. QED
    BY <2>1, <2>2, <2>3, <2>4
<1>10. ASSUME RxFw \in Nat, Place(5) = RxFw + 8, Has(RxFw + 8)
      PROVE  /\ Adjoins(6) /\ Adjoins(7)
             /\ RxSn \in Nat /\ Place(7) = RxSn + 8
  <2>1. /\ RxSn \in Nat /\ AfterText(RxFw, 8) = RxSn + 8
        /\ RxSn = RxFw + 8 + 8 * Value(payload, RxFw, 8)
    BY <1>10, TextPlaces DEF RxSn
  <2>2. Place(6) = RxSn /\ Place(7) = RxSn + 8
    BY <1>4, <2>1
  <2>3. Adjoins(6)
    <3>1. 6 - 1 = 5 /\ Place(5) - 8 = RxFw /\ Place(5) \in Nat /\ Place(5) >= 8
      BY <1>10
    <3>2. Place(6) = Place(5) + 8 * Value(payload, Place(5) - 8, 8)
      BY <1>10, <2>1, <2>2, <3>1
    <3>. QED
      BY <1>2, <1>5, <3>1, <3>2 DEF Adjoins
  <2>4. Adjoins(7)
    BY <1>2, <1>5, <2>1, <2>2 DEF Adjoins
  <2>. QED
    BY <2>1, <2>2, <2>3, <2>4
<1>11. ASSUME RxSn \in Nat, Place(7) = RxSn + 8, Has(RxSn + 8)
      PROVE  /\ Adjoins(8) /\ Adjoins(9)
             /\ RxLast \in Nat /\ Place(9) = RxLast + 8
  <2>1. /\ RxLast \in Nat /\ AfterText(RxSn, 8) = RxLast + 8
        /\ RxLast = RxSn + 8 + 8 * Value(payload, RxSn, 8)
    BY <1>11, TextPlaces DEF RxLast
  <2>2. Place(8) = RxLast /\ Place(9) = RxLast + 8
    BY <1>4, <2>1
  <2>3. Adjoins(8)
    <3>1. 8 - 1 = 7 /\ Place(7) - 8 = RxSn /\ Place(7) \in Nat /\ Place(7) >= 8
      BY <1>11
    <3>2. Place(8) = Place(7) + 8 * Value(payload, Place(7) - 8, 8)
      BY <1>11, <2>1, <2>2, <3>1
    <3>. QED
      BY <1>2, <1>5, <3>1, <3>2 DEF Adjoins
  <2>4. Adjoins(9)
    BY <1>2, <1>5, <2>1, <2>2 DEF Adjoins
  <2>. QED
    BY <2>1, <2>2, <2>3, <2>4
<1>12. ASSUME RxLast \in Nat, Place(9) = RxLast + 8, Has(RxLast + 8) PROVE Adjoins(10)
  <2>1. AfterText(RxLast, 0) = RxLast + 8 + 8 * Value(payload, RxLast, 8)
    BY <1>12, TextPlaces
  <2>2. 10 - 1 = 9 /\ Place(9) - 8 = RxLast /\ Place(9) \in Nat /\ Place(9) >= 8
    <3>1. RxLast \in Nat /\ Place(9) = RxLast + 8
      BY <1>12, Zenon
    <3>2. 10 - 1 = 9
      OBVIOUS
    <3>3. \A p : \A r \in Nat : p = r + 8 => p - 8 = r /\ p \in Nat /\ p >= 8
      OBVIOUS
    <3>. QED
      BY <3>1, <3>2, <3>3, Zenon
  <2>3. Place(10) = Place(9) + 8 * Value(payload, Place(9) - 8, 8)
    <3>1. Value(payload, RxLast, 8) \in Nat
      BY <1>12, LengthFacts
    <3>. QED
      BY <1>4, <1>12, <2>1, <2>2, <3>1
  <2>. QED
    BY <1>2, <1>5, <2>2, <2>3 DEF Adjoins
<1>13. /\ Upto(1) <=> Has(32)
       /\ Upto(2) <=> Has(32)
       /\ Upto(3) <=> Has(32) /\ Has(AfterText(24, 16))
       /\ Upto(4) <=> Upto(3)
       /\ Upto(5) <=> Upto(3) /\ Has(AfterText(RxType, 8))
       /\ Upto(6) <=> Upto(5)
       /\ Upto(7) <=> Upto(5) /\ Has(AfterText(RxFw, 8))
       /\ Upto(8) <=> Upto(7)
       /\ Upto(9) <=> Upto(7) /\ Has(AfterText(RxSn, 8))
       /\ Upto(10) <=> Upto(9)
  BY <1>3, <1>4, <1>5 DEF Upto
<1>14. total_bits_ \in Nat /\ TypeOf(payload) = 1033
  BY TypeFacts, LenProperties DEF total_bits_
<1>15. Whole <=> Has(16) /\ Upto(9)
  <2>1. Whole1033 <=> /\ Has(32) /\ Has(AfterText(24, 16)) /\ Has(AfterText(RxType, 8))
                      /\ Has(AfterText(RxFw, 8)) /\ Has(AfterText(RxSn, 8))
    BY DEF Whole1033, RxType, RxFw, RxSn
  <2>2. Whole <=> Has(16) /\ Whole1033
    BY <1>14 DEF Whole
  <2>. QED
    BY <1>13, <2>1, <2>2
<1>16. /\ Place(3) = AfterText(24, 16) /\ Place(5) = AfterText(RxType, 8)
       /\ Place(7) = AfterText(RxFw, 8) /\ Place(9) = AfterText(RxSn, 8)
  BY <1>4
<1>17. /\ Upto(1) => Adjoins(2) /\ Adjoins(3)
       /\ Upto(3) => Adjoins(4) /\ Adjoins(5)
       /\ Upto(5) => Adjoins(6) /\ Adjoins(7)
       /\ Upto(7) => Adjoins(8) /\ Adjoins(9)
       /\ Upto(9) => Adjoins(10)
  BY <1>8, <1>9, <1>10, <1>11, <1>12, <1>13, <1>16
<1>18. ASSUME NEW n \in 1..Len(Script), Upto(n - 1) PROVE Adjoins(n)
  <2>1. \/ n = 1 \/ n = 2 \/ n = 3 \/ n = 4 \/ n = 5
        \/ n = 6 \/ n = 7 \/ n = 8 \/ n = 9 \/ n = 10
    BY <1>5
  <2>2. /\ n = 2 => Upto(1)
        /\ n = 3 => Upto(2)
        /\ n = 4 => Upto(3)
        /\ n = 5 => Upto(4)
        /\ n = 6 => Upto(5)
        /\ n = 7 => Upto(6)
        /\ n = 8 => Upto(7)
        /\ n = 9 => Upto(8)
        /\ n = 10 => Upto(9)
    BY <1>18
  <2>. QED
    BY <1>7, <1>13, <1>17, <2>1, <2>2
<1>. QED
  BY <1>5, <1>6, <1>13, <1>14, <1>15, <1>18 DEF Charted, Has

\* Message 1013: a list whose length is the field before it.
LEMMA Charted1013 ==
    ASSUME payload \in Seq(0..255), Len(payload) >= 2, Type = 1013
    PROVE  /\ Charted /\ Len(Script) = 2 /\ (Upto(1) <=> Has(62)) /\ (Upto(2) <=> Has(62))
           /\ Place(1) = 62 /\ Takes(Script[1], 50, 5)
           /\ Script[2] = Repeat(Reads(<<12, 1, 16>>, "truncated_1013_announcements"))
<1>. DEFINE a == Get(<<12, 16, 17, 5>>, "invalid_1013")
            b == Repeat(Reads(<<12, 1, 16>>, "truncated_1013_announcements"))
<1>1. Script = <<a, b>>
  BY Scripts DEF Script, decode_1013
<1>2. Takes(a, 50, 5)
  BY LongStages
<1>3. a \in StageOf /\ a.op = "get" /\ b \in StageOf /\ b.op = "repeat"
  BY <1>2, GetsAreStages, StageFacts DEF Repeat
<1>. HIDE DEF a, b
<1>4. Place(0) = 12 /\ Place(1) = 62
  BY DEF Place, Places, IsMsm
<1>5. Len(Script) = 2 /\ Script[1] = a /\ Script[2] = b /\ Script \in Seq(StageOf)
  BY <1>1, <1>3
<1>6. Adjoins(1)
  BY <1>2, <1>4, <1>5 DEF Adjoins
<1>7. (Upto(1) <=> Has(62)) /\ (Upto(2) <=> Has(62))
  BY <1>3, <1>4, <1>5 DEF Upto
<1>8. Charted
  <2>1. \A n \in 1..Len(Script) : n = 1 \/ n = 2
    BY <1>5
  <2>2. ASSUME NEW n \in 1..Len(Script)
        PROVE  Adjoins(n) \/ (Script[n].op = "repeat" /\ Type = 1013)
    BY <1>3, <1>5, <1>6, <2>1
  <2>. QED
    BY <1>5, <2>2 DEF Charted
<1>. QED
  BY <1>2, <1>4, <1>5, <1>7, <1>8 DEF b

\* The types that have a parser.
Flat == {1005, 1019, 1020, 1045, 1046, 1230}

\* A type without a parser.
LEMMA NoneCharted ==
    ASSUME payload \in Seq(0..255), Len(payload) >= 2, ~IsMsm(Type),
           Type \notin Flat \cup {1006, 1007, 1008, 1033, 1013}
    PROVE  Charted /\ (Whole <=> Upto(Len(Script)))
<1>1. TypeOf(payload) = Type /\ Has(16)
  BY TypeFacts, LenProperties DEF Has, total_bits_
<1>2. Script = <<>>
  BY DEF Script, Stages, Flat
<1>3. Whole
  BY <1>1 DEF Whole, Flat, IsMsm
<1>4. Len(Script) = 0 /\ Script \in Seq(StageOf)
  BY <1>2, EmptySeq
<1>. QED
  BY <1>3, <1>4 DEF Charted, Upto

\* Every message is charted; one without a list and without loops is whole if all
\* its stages are there.
LEMMA AllCharted ==
    ASSUME payload \in Seq(0..255), Len(payload) >= 2
    PROVE  /\ Charted
           /\ Type # 1013 /\ ~IsMsm(Type) => (Whole <=> Upto(Len(Script)))
           /\ Type = 1013 => (Whole <=> Has(62) /\ Has(62 + 29 * Value(payload, 57, 5)))
           /\ IsMsm(Type) => (Whole <=> Has(169) /\ Has(SatsAt(payload)) /\ Has(MsmEnd(payload)))
<1>1. TypeOf(payload) = Type /\ Has(16) /\ Type \in Nat
  BY TypeFacts, LenProperties DEF Has, total_bits_
<1>2. CASE IsMsm(Type)
  <2>1. Charted
    BY <1>2, MsmCharted
  <2>2. Type # 1013
    BY <1>2 DEF IsMsm
  <2>3. Whole <=> Has(169) /\ Has(SatsAt(payload)) /\ Has(MsmEnd(payload))
    BY <1>1, <1>2 DEF Whole, IsMsm
  <2>. QED
    BY <1>2, <2>1, <2>2, <2>3
<1>3. CASE Type = 1013
  <2>1. Charted
    BY <1>3, Charted1013
  <2>2. ~IsMsm(Type)
    BY <1>3 DEF IsMsm
  <2>3. Whole <=> Has(62) /\ Has(62 + 29 * Value(payload, 57, 5))
    BY <1>1, <1>3 DEF Whole
  <2>. QED
    BY <1>3, <2>1, <2>2, <2>3
<1>4. CASE ~IsMsm(Type) /\ Type # 1013
  <2>1. Charted /\ (Whole <=> Upto(Len(Script)))
    BY <1>4, FlatCharted, Charted1006, Charted1007, Charted1008, Charted1033, NoneCharted
       DEF Flat
  <2>. QED
    BY <1>4, <2>1
<1>. QED
  BY <1>2, <1>3, <1>4

------------------------------------------------------------------------------
(* The masks of an MSM and the widths of its parts. *)

\* A mask has at most as many members as bits.
LEMMA MaskFacts ==
    ASSUME NEW p, NEW k, NEW n \in Nat
    PROVE  /\ Mask(p, k, n) \subseteq 1..n /\ IsFiniteSet(Mask(p, k, n))
           /\ Cardinality(Mask(p, k, n)) \in Nat
<1>1. Mask(p, k, n) \subseteq 1..n
  BY DEF Mask
<1>2. IsFiniteSet(1..n)
  BY FS_Interval
<1>. QED
  BY <1>1, <1>2, FS_Subset, FS_CardinalityType

\* The product of numbers is a number.
LEMMA Products ==
    /\ \A a, b \in Nat : a * b \in Nat
    /\ \A a, b, w \in Nat : a <= b => a * w <= b * w
    /\ \A a, w \in Nat : (a + 1) * w = a * w + w
    /\ \A w \in Nat : 0 * w = 0
<1>1. \A a, b \in Nat : a * b \in Nat
  OBVIOUS
<1>2. \A a, w \in Nat : (a + 1) * w = a * w + w
  OBVIOUS
<1>3. ASSUME NEW a \in Nat, NEW b \in Nat, NEW w \in Nat, a <= b PROVE a * w <= b * w
  <2>1. \A d \in Nat : (a + d) * w = a * w + d * w
    OBVIOUS
  <2>2. b - a \in Nat /\ a + (b - a) = b
    BY <1>3
  <2>3. b * w = a * w + (b - a) * w
    BY <2>1, <2>2
  <2>4. a * w \in Nat /\ b * w \in Nat /\ (b - a) * w \in Nat
    BY <1>1, <2>2
  <2>. QED
    BY <2>3, <2>4
<1>. QED
  BY <1>1, <1>2, <1>3

\* The numbers an MSM payload announces.
LEMMA LayoutFacts ==
    /\ Cardinality(Sats(payload)) \in Nat /\ Cardinality(Sigs(payload)) \in Nat
    /\ CellBits(payload) \in Nat /\ SatWidth(payload) \in {18, 36}
    /\ SatsAt(payload) = 169 + CellBits(payload)
    /\ CellsAt(payload)
         = SatsAt(payload) + Cardinality(Sats(payload)) * SatWidth(payload)
    /\ CellsAt(payload) \in Nat /\ CellsAt(payload) >= SatsAt(payload)
    /\ Cardinality(CellSet(payload)) \in Nat
<1>1. 32 \in Nat /\ 64 \in Nat
  OBVIOUS
<1>2. Cardinality(Sats(payload)) \in Nat /\ Cardinality(Sigs(payload)) \in Nat
  BY <1>1, MaskFacts DEF Sats, Sigs
<1>3. CellBits(payload) \in Nat
  BY <1>2, Products DEF CellBits
<1>4. SatWidth(payload) \in {18, 36}
  BY DEF SatWidth
<1>5. Cardinality(Sats(payload)) * SatWidth(payload) \in Nat
  BY <1>2, <1>4, Products
<1>6. Cardinality(CellSet(payload)) \in Nat
  BY <1>3, MaskFacts DEF CellSet
<1>7. /\ SatsAt(payload) = 169 + CellBits(payload)
      /\ CellsAt(payload)
           = SatsAt(payload) + Cardinality(Sats(payload)) * SatWidth(payload)
  BY DEF SatsAt, CellsAt
<1>. QED
  BY <1>2, <1>3, <1>4, <1>5, <1>6, <1>7

\* The cells whose bits are among the first j of the mask.
CellsBefore(j) == {c \in 0..(j - 1) : Bit(payload, 169 + c) = 1}

\* One more bit of the mask.
LEMMA CellsBeforeFacts ==
    ASSUME NEW j \in Nat
    PROVE  /\ IsFiniteSet(CellsBefore(j)) /\ Cardinality(CellsBefore(j)) \in Nat
           /\ CellsBefore(j) \subseteq 0..(j - 1)
           /\ IF Bit(payload, 169 + j) = 1
              THEN /\ CellsBefore(j + 1) = CellsBefore(j) \cup {j}
                   /\ Cardinality(CellsBefore(j + 1)) = Cardinality(CellsBefore(j)) + 1
              ELSE CellsBefore(j + 1) = CellsBefore(j)
<1>1. CellsBefore(j) \subseteq 0..(j - 1) /\ IsFiniteSet(0..(j - 1))
  BY FS_Interval DEF CellsBefore
<1>2. IsFiniteSet(CellsBefore(j)) /\ Cardinality(CellsBefore(j)) \in Nat
  BY <1>1, FS_Subset, FS_CardinalityType
<1>3. CASE Bit(payload, 169 + j) = 1
  <2>1. CellsBefore(j + 1) = CellsBefore(j) \cup {j}
    BY <1>3 DEF CellsBefore
  <2>2. j \notin CellsBefore(j)
    BY <1>1
  <2>3. Cardinality(CellsBefore(j) \cup {j}) = Cardinality(CellsBefore(j)) + 1
    BY <1>2, <2>2, FS_AddElement
  <2>. QED
    BY <1>1, <1>2, <1>3, <2>1, <2>3
<1>4. CASE Bit(payload, 169 + j) # 1
  <2>1. CellsBefore(j + 1) = CellsBefore(j)
    BY <1>4 DEF CellsBefore
  <2>. QED
    BY <1>1, <1>2, <1>4, <2>1
<1>. QED
  BY <1>3, <1>4

\* Before the end of the mask there are at most as many cells as in all of it.
LEMMA CellsBeforeEnd ==
    /\ Cardinality(CellsBefore(CellBits(payload))) = Cardinality(CellSet(payload))
    /\ \A j \in 0..CellBits(payload) :
         Cardinality(CellsBefore(j)) <= Cardinality(CellSet(payload))
<1>. DEFINE N == CellBits(payload)
<1>1. N \in Nat
  BY LayoutFacts
<1>. HIDE DEF N
<1>2. IsFiniteSet(CellsBefore(N)) /\ IsFiniteSet(CellSet(payload))
  BY <1>1, CellsBeforeFacts, MaskFacts DEF CellSet, N
<1>3. CellSet(payload) = {m \in 1..N : Bit(payload, 169 + m - 1) = 1}
  BY DEF CellSet, Mask, N
<1>4. Cardinality(CellSet(payload)) = Cardinality(CellsBefore(N))
  <2>. DEFINE f == [m \in CellSet(payload) |-> m - 1]
  <2>1. \A m \in CellSet(payload) : m \in 1..N /\ m - 1 \in CellsBefore(N)
    BY <1>1, <1>3 DEF CellsBefore
  <2>2. f \in [CellSet(payload) -> CellsBefore(N)]
    BY <2>1
  <2>3. \A a, b \in CellSet(payload) : f[a] = f[b] => a = b
    BY <1>1, <2>1
  <2>4. ASSUME NEW c \in CellsBefore(N) PROVE \E m \in CellSet(payload) : f[m] = c
    <3>1. c \in 0..(N - 1) /\ Bit(payload, 169 + c) = 1
      BY DEF CellsBefore
    <3>2. c + 1 \in 1..N /\ 169 + (c + 1) - 1 = 169 + c
      BY <1>1, <3>1
    <3>3. c + 1 \in CellSet(payload)
      BY <1>3, <3>1, <3>2
    <3>. QED
      BY <3>1, <3>3
  <2>. HIDE DEF f
  <2>5. f \in Bijection(CellSet(payload), CellsBefore(N))
    BY <2>2, <2>3, <2>4 DEF Bijection, Injection, Surjection, IsInjective
  <2>6. ExistsBijection(CellSet(payload), CellsBefore(N))
    BY <2>5 DEF ExistsBijection
  <2>. QED
    BY <1>2, <2>6, FS_Bijection
<1>5. ASSUME NEW j \in 0..N PROVE Cardinality(CellsBefore(j)) <= Cardinality(CellsBefore(N))
  <2>1. CellsBefore(j) \subseteq CellsBefore(N)
    BY <1>1 DEF CellsBefore
  <2>. QED
    BY <1>2, <2>1, FS_Subset
<1>. QED
  BY <1>4, <1>5 DEF N

\* One more element.
LEMMA Longer ==
    ASSUME NEW S, NEW x \in Seq(S), NEW a \in S, NEW y, y = x \o <<a>>
    PROVE  /\ y \in Seq(S) /\ Len(y) = Len(x) + 1 /\ y # <<>> /\ y[Len(x) + 1] = a
           /\ \A k \in 1..Len(x) : y[k] = x[k]
<1>1. <<a>> \in Seq(S) /\ Len(<<a>>) = 1 /\ <<a>>[1] = a /\ Len(x) \in Nat
  BY LenProperties
<1>2. /\ y \in Seq(S) /\ Len(y) = Len(x) + 1
      /\ \A k \in 1..(Len(x) + 1) : y[k] = IF k <= Len(x) THEN x[k] ELSE <<a>>[k - Len(x)]
  BY <1>1, ConcatProperties
<1>3. y[Len(x) + 1] = a
  <2>1. Len(x) + 1 \in 1..(Len(x) + 1) /\ ~(Len(x) + 1 <= Len(x))
        /\ (Len(x) + 1) - Len(x) = 1
    BY <1>1
  <2>. QED
    BY <1>1, <1>2, <2>1
<1>4. \A k \in 1..Len(x) : y[k] = x[k]
  BY <1>1, <1>2
<1>5. y # <<>>
  BY <1>1, <1>2, EmptySeq
<1>. QED
  BY <1>2, <1>3, <1>4, <1>5

\* Two numbers and three.
LEMMA TwoAndThree ==
    ASSUME NEW a \in Nat, NEW b \in Nat, NEW c \in Nat, NEW d \in Nat, NEW e \in Nat
    PROVE  LET w == <<a, b>> \o <<c, d, e>>
           IN  /\ w \in Seq(Nat) /\ Len(w) = 5 /\ w # <<>>
               /\ w[1] + w[2] + w[3] + w[4] + w[5] = a + b + c + d + e
<1>. DEFINE w == <<a, b>> \o <<c, d, e>>
<1>1. /\ <<a, b>> \in Seq(Nat) /\ Len(<<a, b>>) = 2
      /\ <<c, d, e>> \in Seq(Nat) /\ Len(<<c, d, e>>) = 3
  OBVIOUS
<1>2. /\ w \in Seq(Nat) /\ Len(w) = 5
      /\ \A k \in 1..5 : w[k] = IF k <= 2 THEN <<a, b>>[k] ELSE <<c, d, e>>[k - 2]
  BY <1>1, ConcatProperties
<1>. HIDE DEF w
<1>3. w[1] = a /\ w[2] = b /\ w[3] = c /\ w[4] = d /\ w[5] = e
  <2>1. w[1] = <<a, b>>[1] /\ w[2] = <<a, b>>[2]
    BY <1>2
  <2>2. w[3] = <<c, d, e>>[1] /\ w[4] = <<c, d, e>>[2] /\ w[5] = <<c, d, e>>[3]
    BY <1>2
  <2>. QED
    BY <2>1, <2>2
<1>4. w # <<>>
  <2>1. Len(<<>>) = 0
    OBVIOUS
  <2>2. Len(w) = 5
    BY <1>2, Zenon
  <2>. QED
    BY <2>1, <2>2
<1>5. /\ w \in Seq(Nat) /\ Len(w) = 5 /\ w # <<>>
      /\ w[1] + w[2] + w[3] + w[4] + w[5] = a + b + c + d + e
  BY <1>2, <1>3, <1>4
<1>. QED
  BY <1>5, Zenon DEF w

\* The width of up to six reads.
LEMMA SumOfWidths ==
    ASSUME NEW r \in Readings
    PROVE  /\ Len(r) = 2 => Width(r, 2) = r[1].n + r[2].n
           /\ Len(r) = 4 => Width(r, 4) = r[1].n + r[2].n + r[3].n + r[4].n
           /\ Len(r) >= 5 => Width(r, 5) = r[1].n + r[2].n + r[3].n + r[4].n + r[5].n
           /\ Len(r) = 6 => Width(r, 6) = Width(r, 5) + r[6].n
<1>1. r \in Seq(Reading) /\ Len(r) \in Nat
  BY LenProperties DEF Readings
<1>2. ASSUME NEW k \in 1..Len(r)
      PROVE  Width(r, k) = Width(r, k - 1) + r[k].n /\ r[k].n \in Nat /\ Width(r, k) \in Nat
  <2>1. k \in 0..Len(r) /\ k # 0
    BY <1>1
  <2>2. Width(r, k) = Width(r, k - 1) + r[k].n /\ Width(r, k) \in Nat
    BY <1>1, <2>1, WidthFacts
  <2>3. r[k] \in Reading
    BY <1>1, ElementOfSeq
  <2>. QED
    BY <2>2, <2>3 DEF Reading
<1>3. Width(r, 0) = 0
  BY <1>1, WidthFacts
<1>4. \A k \in 1..6 : Len(r) >= k => k \in 1..Len(r)
  BY <1>1
<1>5. ASSUME Len(r) >= 2
      PROVE  Width(r, 2) = r[1].n + r[2].n /\ r[1].n \in Nat /\ r[2].n \in Nat
  <2>1. Width(r, 1) = Width(r, 0) + r[1].n /\ r[1].n \in Nat
    BY <1>1, <1>2, <1>5
  <2>2. Width(r, 2) = Width(r, 1) + r[2].n /\ r[2].n \in Nat
    BY <1>1, <1>2, <1>5
  <2>. QED
    BY <1>3, <2>1, <2>2
<1>6. ASSUME Len(r) >= 4
      PROVE  /\ Width(r, 4) = r[1].n + r[2].n + r[3].n + r[4].n
             /\ r[3].n \in Nat /\ r[4].n \in Nat
  <2>1. Width(r, 3) = Width(r, 2) + r[3].n /\ r[3].n \in Nat
    BY <1>1, <1>2, <1>6
  <2>2. Width(r, 4) = Width(r, 3) + r[4].n /\ r[4].n \in Nat
    BY <1>1, <1>2, <1>6
  <2>3. Len(r) >= 2
    BY <1>1, <1>6
  <2>. QED
    BY <1>5, <2>1, <2>2, <2>3
<1>7. ASSUME Len(r) >= 5
      PROVE  Width(r, 5) = r[1].n + r[2].n + r[3].n + r[4].n + r[5].n
  <2>1. Width(r, 5) = Width(r, 4) + r[5].n
    BY <1>1, <1>2, <1>7
  <2>2. Len(r) >= 4
    BY <1>1, <1>7
  <2>. QED
    BY <1>6, <2>1, <2>2
<1>8. Len(r) = 6 => Width(r, 6) = Width(r, 5) + r[6].n
  BY <1>1, <1>2
<1>. QED
  BY <1>1, <1>5, <1>6, <1>7, <1>8

\* The level of an MSM.
LEMMA LevelFacts ==
    ASSUME payload \in Seq(0..255), Len(payload) >= 2, IsMsm(Type)
    PROVE  /\ Level(payload) = Type % 10 /\ Level(payload) \in {4, 5, 6, 7}
           /\ WithPhaseRate(Type) <=> Level(payload) \in {5, 7}
           /\ HiRes(Type) <=> Level(payload) \in {6, 7}
<1>1. Level(payload) = Type % 10
  BY TypeFacts DEF Level
<1>2. Type % 10 \in 4..7
  BY DEF IsMsm
<1>. QED
  BY <1>1, <1>2 DEF WithPhaseRate, HiRes

\* The reads of one satellite.
LEMMA SatDataFacts ==
    ASSUME payload \in Seq(0..255), Len(payload) >= 2, IsMsm(Type)
    PROVE  sat_data \in Readings /\ Width(sat_data, Len(sat_data)) = SatWidth(payload)
<1>. DEFINE a == Read(8, "truncated_msm_sat_data")
            b == Read(4, "truncated_msm_sat_ext_info")
            c == Read(10, "truncated_msm_rough_range_mod")
            d == Read(14, "truncated_msm_rate")
<1>1. /\ a \in Reading /\ b \in Reading /\ c \in Reading /\ d \in Reading
      /\ a.n = 8 /\ b.n = 4 /\ c.n = 10 /\ d.n = 14
  BY DEF Read, Reading, Errors
<1>. DEFINE r == <<a>> \o (IF WithPhaseRate(Type) THEN <<b>> ELSE <<>>) \o <<c>>
                 \o (IF WithPhaseRate(Type) THEN <<d>> ELSE <<>>)
<1>2. sat_data = r
  BY DEF sat_data
<1>. HIDE DEF a, b, c, d
<1>3. CASE WithPhaseRate(Type)
  <2>1. r = <<a>> \o <<b>> \o <<c>> \o <<d>>
    BY <1>3
  <2>. HIDE DEF r
  <2>2. /\ <<a>> \in Seq(Reading) /\ Len(<<a>>) = 1 /\ <<a>>[1] = a
        /\ <<b>> \in Seq(Reading) /\ Len(<<b>>) = 1 /\ <<b>>[1] = b
        /\ <<c>> \in Seq(Reading) /\ Len(<<c>>) = 1 /\ <<c>>[1] = c
        /\ <<d>> \in Seq(Reading) /\ Len(<<d>>) = 1 /\ <<d>>[1] = d
    BY <1>1
  <2>. DEFINE x == <<a>> \o <<b>>
              y == x \o <<c>>
  <2>3. x \in Seq(Reading) /\ Len(x) = 2 /\ x[1] = a /\ x[2] = b
    BY <1>1, <2>2, Longer
  <2>4. y = x \o <<c>> /\ r = y \o <<d>>
    BY <2>1
  <2>. HIDE DEF x, y
  <2>5. y \in Seq(Reading) /\ Len(y) = 3 /\ y[1] = a /\ y[2] = b /\ y[3] = c
    <3>1. /\ y \in Seq(Reading) /\ Len(y) = Len(x) + 1 /\ y[Len(x) + 1] = c
          /\ \A k \in 1..Len(x) : y[k] = x[k]
      BY <1>1, <2>3, <2>4, Longer
    <3>. QED
      BY <2>3, <3>1
  <2>7. /\ r \in Seq(Reading) /\ Len(r) = 4 /\ r[1] = a /\ r[2] = b /\ r[3] = c /\ r[4] = d
        /\ r # <<>>
    <3>1. /\ r \in Seq(Reading) /\ Len(r) = Len(y) + 1 /\ r[Len(y) + 1] = d /\ r # <<>>
          /\ \A k \in 1..Len(y) : r[k] = y[k]
      BY <1>1, <2>4, <2>5, Longer
    <3>. QED
      BY <2>5, <3>1
  <2>8. r \in Readings
    BY <2>7 DEF Readings
  <2>9. Width(r, 4) = 36
    BY <1>1, <2>7, <2>8, SumOfWidths
  <2>10. SatWidth(payload) = 36
    BY <1>3, LevelFacts DEF SatWidth
  <2>. QED
    BY <1>2, <2>7, <2>8, <2>9, <2>10
<1>4. CASE ~WithPhaseRate(Type)
  <2>1. r = <<a>> \o <<>> \o <<c>> \o <<>>
    BY <1>4
  <2>2. <<a>> \o <<>> \o <<c>> \o <<>> = <<a, c>>
    <3>1. <<a>> \in Seq({a, c}) /\ <<a, c>> \in Seq({a, c})
      OBVIOUS
    <3>2. <<a>> \o <<>> = <<a>> /\ <<a, c>> \o <<>> = <<a, c>>
      BY <3>1, ConcatEmptySeq
    <3>. QED
      BY <3>2, Joined
  <2>. HIDE DEF r
  <2>3. r \in Readings /\ Len(r) = 2 /\ r[1] = a /\ r[2] = c
    BY <1>1, <2>1, <2>2 DEF Readings
  <2>4. Width(r, 2) = 18
    BY <1>1, <2>3, SumOfWidths
  <2>5. SatWidth(payload) = 18
    BY <1>4, LevelFacts DEF SatWidth
  <2>. QED
    BY <1>2, <2>3, <2>4, <2>5
<1>. QED
  BY <1>3, <1>4

\* The reads of one cell.
LEMMA CellDataFacts ==
    ASSUME payload \in Seq(0..255), Len(payload) >= 2, IsMsm(Type)
    PROVE  /\ cell_data \in Readings /\ Width(cell_data, Len(cell_data)) = CellWidth(payload)
           /\ CellWidth(payload) \in {48, 63, 65, 80}
<1>. DEFINE e == "truncated_msm_cell_data"
            f == Read(15, "truncated_msm_phase_rate")
            w == <<pr_bits, cp_bits>>
                 \o (IF HiRes(Type) THEN <<10, 1, 10>> ELSE <<4, 1, 6>>)
            q == Reads(w, e)
<1>1. e \in Errors /\ f \in Reading /\ f.n = 15
  BY DEF Read, Reading, Errors
<1>2. cell_data = q \o (IF WithPhaseRate(Type) THEN <<f>> ELSE <<>>)
  BY DEF cell_data
<1>3. /\ w \in Seq(Nat) /\ Len(w) = 5 /\ w # <<>>
      /\ w[1] + w[2] + w[3] + w[4] + w[5] = IF HiRes(Type) THEN 65 ELSE 48
  <2>1. w = IF HiRes(Type) THEN <<20, 24>> \o <<10, 1, 10>> ELSE <<15, 22>> \o <<4, 1, 6>>
    BY DEF pr_bits, cp_bits
  <2>2. CASE HiRes(Type)
    <3>1. w = <<20, 24>> \o <<10, 1, 10>>
      BY <2>1, <2>2
    <3>2. 20 + 24 + 10 + 1 + 10 = 65
      OBVIOUS
    <3>. HIDE DEF w
    <3>. QED
      BY <2>2, <3>1, <3>2, TwoAndThree
  <2>3. CASE ~HiRes(Type)
    <3>1. w = <<15, 22>> \o <<4, 1, 6>>
      BY <2>1, <2>3
    <3>2. 15 + 22 + 4 + 1 + 6 = 48
      OBVIOUS
    <3>. HIDE DEF w
    <3>. QED
      BY <2>3, <3>1, <3>2, TwoAndThree
  <2>. QED
    BY <2>2, <2>3
<1>. HIDE DEF w, e, f
<1>4. q \in Readings /\ Len(q) = 5 /\ \A k \in 1..5 : q[k].n = w[k]
  <2>1. /\ q \in Readings /\ Len(q) = Len(w)
        /\ \A k \in 1..Len(w) : q[k].n = w[k]
    BY <1>1, <1>3, ReadsFacts, Zenon
  <2>. QED
    BY <1>3, <2>1
<1>. HIDE DEF q
<1>5. Width(q, 5) = IF HiRes(Type) THEN 65 ELSE 48
  <2>1. Width(q, 5) = q[1].n + q[2].n + q[3].n + q[4].n + q[5].n
    BY <1>4, SumOfWidths
  <2>. QED
    BY <1>3, <1>4, <2>1
<1>6. CASE ~WithPhaseRate(Type)
  <2>1. cell_data = q
    BY <1>2, <1>4, <1>6, ConcatEmptySeq DEF Readings
  <2>2. CellWidth(payload) = IF HiRes(Type) THEN 65 ELSE 48
    BY <1>6, LevelFacts DEF CellWidth
  <2>. QED
    BY <1>4, <1>5, <2>1, <2>2
<1>7. CASE WithPhaseRate(Type)
  <2>. DEFINE r == q \o <<f>>
  <2>1. cell_data = r /\ r = q \o <<f>>
    BY <1>2, <1>7
  <2>. HIDE DEF r
  <2>2. /\ r \in Seq(Reading) /\ Len(r) = 6 /\ r[6] = f /\ r # <<>>
        /\ \A k \in 1..5 : r[k] = q[k]
    <3>1. q \in Seq(Reading)
      BY <1>4 DEF Readings
    <3>2. /\ r \in Seq(Reading) /\ Len(r) = Len(q) + 1 /\ r[Len(q) + 1] = f /\ r # <<>>
          /\ \A k \in 1..Len(q) : r[k] = q[k]
      BY <1>1, <2>1, <3>1, Longer
    <3>. QED
      BY <1>4, <3>2
  <2>3. r \in Readings
    BY <2>2 DEF Readings
  <2>4. Width(r, 6) = (IF HiRes(Type) THEN 65 ELSE 48) + 15
    <3>1. Width(r, 5) = r[1].n + r[2].n + r[3].n + r[4].n + r[5].n
      BY <2>2, <2>3, SumOfWidths
    <3>2. Width(q, 5) = q[1].n + q[2].n + q[3].n + q[4].n + q[5].n
      BY <1>4, SumOfWidths
    <3>3. Width(r, 6) = Width(r, 5) + r[6].n
      BY <2>2, <2>3, SumOfWidths
    <3>. QED
      BY <1>1, <1>5, <2>2, <3>1, <3>2, <3>3
  <2>5. CellWidth(payload) = (IF HiRes(Type) THEN 65 ELSE 48) + 15
    BY <1>7, LevelFacts DEF CellWidth
  <2>. QED
    BY <2>1, <2>2, <2>3, <2>4, <2>5
<1>. QED
  BY <1>6, <1>7

------------------------------------------------------------------------------
(* The inductive invariant. *)

\* The cursor is at p, or so near the end of the payload, which p is beyond,
\* that nothing of a byte or more can be read.
Behind(p) == bitpos_ = p \/ (p > total_bits_ /\ bitpos_ + 8 > total_bits_)

\* n stages are done, and the others are left.
AtStage(n) ==
    /\ n \in 0..Len(Script) /\ (Type = 1013 => n < 2)
    /\ todo \in Seq(StageOf) /\ Len(todo) = Len(Script) - n
    /\ \A m \in 1..Len(todo) : todo[m] = Script[n + m]
    /\ Place(n) \in Nat /\ Behind(Place(n)) /\ Upto(n)
    /\ \A k, l \in Nat : n > 0 /\ Takes(Script[n], k, l) /\ l <= 30
                           => last = Value(payload, Place(n) - l, l)

Announcement == [op |-> "get",
                 reads |-> Reads(<<12, 1, 16>>, "truncated_1013_announcements")]

\* What is left of the list of 1013.
InList ==
    /\ Type = 1013 /\ Has(62) /\ todo \in Seq({Announcement})
    /\ bitpos_ + 29 * Len(todo) = 62 + 29 * Value(payload, 57, 5)

\* The loops of decode_msm.
Loops ==
    /\ pc \in {"start", "read"} =>
         i = 0 /\ sat_ids = {} /\ sig_ids = {} /\ cell_present = {} /\ sats = <<>> /\ cells = <<>>
    /\ pc \in {"cell_mask", "sat", "cell", "report"} =>
         IsMsm(Type) /\ Has(169) /\ sat_ids = Sats(payload) /\ sig_ids = Sigs(payload)
    /\ pc = "cell_mask" =>
         /\ i <= CellBits(payload) /\ bitpos_ = 169 + i
         /\ cell_present = CellsBefore(i) /\ sats = <<>> /\ cells = <<>>
    /\ pc = "sat" =>
         /\ i <= Cardinality(sat_ids) /\ Has(SatsAt(payload))
         /\ bitpos_ = SatsAt(payload) + i * SatWidth(payload)
         /\ cell_present = CellsBefore(CellBits(payload)) /\ Len(sats) = i /\ cells = <<>>
    /\ pc = "cell" =>
         /\ i <= CellBits(payload) /\ Has(SatsAt(payload))
         /\ bitpos_ = CellsAt(payload) + Cardinality(CellsBefore(i)) * CellWidth(payload)
         /\ cell_present = CellsBefore(CellBits(payload))
         /\ Len(cells) = Cardinality(CellsBefore(i))
    /\ pc = "report" => Has(SatsAt(payload)) /\ Has(MsmEnd(payload))

IndInv ==
    /\ TypeOK
    /\ sats \in Seq([whole : Nat, mod : Nat])
    /\ cells \in Seq([sat_idx : Nat, sig_idx : Nat, fine : Nat])
    /\ pc # "done" => error = "none"
    /\ pc \notin {"start", "done"} => Len(payload) >= 2
    /\ pc = "read" => InList \/ \E n \in Nat : AtStage(n)
    /\ Loops
    /\ ErrorIffTruncated

\* What only depends on the payload stays as it is.
LEMMA Frame ==
    ASSUME payload' = payload
    PROVE  /\ Type' = Type /\ Script' = Script /\ total_bits_' = total_bits_
           /\ \A n : Place(n)' = Place(n)
           /\ \A n : Has(n)' <=> Has(n)
           /\ \A n : Upto(n)' <=> Upto(n)
           /\ Whole' <=> Whole
           /\ \A j : CellsBefore(j)' = CellsBefore(j)
<1>1. Type' = Type /\ total_bits_' = total_bits_
  BY DEF Type, total_bits_
<1>2. Script' = Script
  BY <1>1 DEF Script
<1>3. \A at, n : AfterText(at, n)' = AfterText(at, n)
  BY DEF AfterText
<1>4. RxType' = RxType
  BY <1>3 DEF RxType
<1>5. RxFw' = RxFw
  BY <1>3, <1>4 DEF RxFw, AfterText
<1>6. RxSn' = RxSn
  BY <1>3, <1>5 DEF RxSn, AfterText
<1>7. RxLast' = RxLast
  BY <1>3, <1>6 DEF RxLast, AfterText
<1>8. \A n : Has(n)' <=> Has(n)
  BY <1>1 DEF Has
<1>9. \A t : Places(t)' = Places(t)
  BY <1>4, <1>5, <1>6, <1>7, Zenon DEF Places, AfterText
<1>10. \A n : Place(n)' = Place(n)
  BY <1>1, <1>9 DEF Place
<1>11. \A n : Upto(n)' <=> Upto(n)
  BY <1>2, <1>8, <1>10 DEF Upto
<1>12. Whole' <=> Whole
  <2>1. WholeDescriptor' <=> WholeDescriptor
    BY <1>1, Zenon DEF WholeDescriptor, Has, AfterText
  <2>2. Whole1033' <=> Whole1033
    BY <1>1, Zenon DEF Whole1033, Has, AfterText
  <2>3. /\ TypeOf(payload)' = TypeOf(payload)
        /\ Value(payload, 57, 5)' = Value(payload, 57, 5)
        /\ SatsAt(payload)' = SatsAt(payload) /\ MsmEnd(payload)' = MsmEnd(payload)
    OBVIOUS
  <2>4. AfterText(24, 16)' = AfterText(24, 16)
    BY <1>3
  <2>. QED
    BY <1>1, <2>1, <2>2, <2>3, <2>4 DEF Whole, Has
<1>13. \A j : CellsBefore(j)' = CellsBefore(j)
  BY DEF CellsBefore
<1>. QED
  BY <1>1, <1>2, <1>8, <1>10, <1>11, <1>12, <1>13

------------------------------------------------------------------------------
(* The steps of the straight-line reads. *)

\* What the invariant says of the cursor.
LEMMA CursorFacts ==
    ASSUME IndInv
    PROVE  /\ payload \in Seq(0..255) /\ Len(payload) \in Nat /\ total_bits_ \in Nat
           /\ total_bits_ = 8 * Len(payload)
           /\ bitpos_ \in Nat /\ bitpos_ <= total_bits_ /\ last \in Nat
<1>1. payload \in Seq(0..255) /\ bitpos_ \in 0..total_bits_ /\ last \in Nat
  BY DEF IndInv, TypeOK
<1>2. Len(payload) \in Nat
  BY <1>1, LenProperties
<1>3. total_bits_ = 8 * Len(payload)
  BY DEF total_bits_
<1>. QED
  BY <1>1, <1>2, <1>3

\* What a stage of k bits does, the last l of which are its last field.
LEMMA GetEffect ==
    ASSUME payload \in Seq(0..255), bitpos_ \in Nat, total_bits_ \in Nat,
           NEW r \in Readings, NEW k \in Nat, NEW l \in Nat,
           Width(r, Len(r)) = k, r[Len(r)].n = l, l <= k
    PROVE  /\ Taken(r) => bitpos_' = bitpos_ + k /\ bitpos_ + k <= total_bits_
           /\ Failed(r) => /\ ~(bitpos_ + k <= total_bits_)
                           /\ error' \in Errors /\ pc' = "done"
           /\ At(r, Len(r)) = bitpos_ + k - l
           /\ bitpos_ + k <= total_bits_ => Value(payload, bitpos_ + k - l, l) \in Nat
<1>1. Missing(r) = {} <=> bitpos_ + k <= total_bits_
  BY MissingFacts DEF Fits
<1>2. Missing(r) # {} => r[FirstMissing(r)].err \in Errors
  BY MissingFacts
<1>3. Taken(r) => bitpos_' = bitpos_ + k /\ bitpos_ + k <= total_bits_
  BY <1>1 DEF Taken
<1>4. Failed(r) => ~(bitpos_ + k <= total_bits_) /\ error' \in Errors /\ pc' = "done"
  BY <1>1, <1>2 DEF Failed
<1>5. At(r, Len(r)) = bitpos_ + k - l
  <2>1. r \in Seq(Reading) /\ Len(r) \in Nat /\ Len(r) # 0
    BY LenProperties, EmptySeq DEF Readings
  <2>2. Len(r) \in 0..Len(r) /\ Len(r) - 1 \in 0..Len(r)
    BY <2>1
  <2>3. Width(r, Len(r)) = Width(r, Len(r) - 1) + r[Len(r)].n
    BY <2>1, <2>2, WidthFacts
  <2>4. Width(r, Len(r) - 1) \in Nat
    BY <2>1, <2>2, WidthFacts
  <2>. QED
    BY <2>3, <2>4 DEF At
<1>6. ASSUME bitpos_ + k <= total_bits_ PROVE Value(payload, bitpos_ + k - l, l) \in Nat
  <2>1. bitpos_ + k - l \in Nat /\ (bitpos_ + k - l) + l <= 8 * Len(payload)
    BY <1>6 DEF total_bits_
  <2>. QED
    BY <2>1, ValueFacts
<1>. QED
  BY <1>3, <1>4, <1>5, <1>6

\* A message that is all there has all its stages.
LEMMA WholeUpto ==
    ASSUME payload \in Seq(0..255), Len(payload) >= 2, Whole
    PROVE  Upto(Len(Script))
<1>1. CASE Type = 1013
  BY <1>1, AllCharted, Charted1013
<1>2. CASE IsMsm(Type)
  BY <1>2, AllCharted, MsmCharted
<1>3. CASE Type # 1013 /\ ~IsMsm(Type)
  BY <1>3, AllCharted
<1>. QED
  BY <1>1, <1>2, <1>3

\* The stage before the list of 1013 is no list, and texts and gets differ.
LEMMA StageKinds ==
    ASSUME NEW n \in Nat, AtStage(n), todo # <<>>, payload \in Seq(0..255), Len(payload) >= 2
    PROVE  /\ n + 1 \in 1..Len(Script) /\ Head(todo) = Script[n + 1]
           /\ Script[n + 1] \in StageOf
           /\ Tail(todo) \in Seq(StageOf) /\ Len(Tail(todo)) = Len(Script) - (n + 1)
           /\ \A m \in 1..Len(Tail(todo)) : Tail(todo)[m] = Script[(n + 1) + m]
           /\ Adjoins(n + 1) \/ (Script[n + 1].op = "repeat" /\ Type = 1013)
<1>1. /\ n \in 0..Len(Script) /\ todo \in Seq(StageOf) /\ Len(todo) = Len(Script) - n
      /\ \A m \in 1..Len(todo) : todo[m] = Script[n + m]
      /\ Upto(n)
  BY DEF AtStage
<1>2. Charted
  BY AllCharted
<1>3. Script \in Seq(StageOf) /\ Len(Script) \in Nat /\ Len(todo) \in Nat
  BY <1>1, <1>2, LenProperties DEF Charted
<1>4. Len(todo) # 0
  BY <1>1, EmptySeq
<1>5. n + 1 \in 1..Len(Script) /\ (n + 1) - 1 = n /\ 1 \in 1..Len(todo)
  BY <1>1, <1>3, <1>4
<1>6. Head(todo) = todo[1] /\ todo[1] = Script[n + 1]
  BY <1>1, <1>5, HeadTailProperties
<1>7. Script[n + 1] \in StageOf
  BY <1>3, <1>5, ElementOfSeq
<1>8. /\ Tail(todo) \in Seq(StageOf) /\ Len(Tail(todo)) = Len(todo) - 1
      /\ \A m \in 1..Len(Tail(todo)) : Tail(todo)[m] = todo[m + 1]
  BY <1>1, HeadTailProperties
<1>9. ASSUME NEW m \in 1..Len(Tail(todo)) PROVE Tail(todo)[m] = Script[(n + 1) + m]
  <2>1. m + 1 \in 1..Len(todo) /\ n + (m + 1) = (n + 1) + m
    BY <1>3, <1>4, <1>8
  <2>. QED
    BY <1>1, <1>8, <2>1
<1>10. Adjoins(n + 1) \/ (Script[n + 1].op = "repeat" /\ Type = 1013)
  <2>1. Upto((n + 1) - 1) => Adjoins(n + 1) \/ (Script[n + 1].op = "repeat" /\ Type = 1013)
    BY <1>2, <1>5 DEF Charted
  <2>. QED
    BY <1>1, <1>5, <2>1
<1>11. Len(Tail(todo)) = Len(Script) - (n + 1)
  BY <1>1, <1>3, <1>8
<1>. QED
  BY <1>5, <1>6, <1>7, <1>8, <1>9, <1>10, <1>11

\* The steps that leave the masks and the loops alone.
LEMMA MsmKept ==
    ASSUME IndInv, UNCHANGED <<payload, msmVars>>,
           pc' \in {"start", "read", "done"}, pc \in {"start", "read"},
           bitpos_' \in Nat, bitpos_' <= total_bits_, last' \in Nat, text' \in Seq(Nat)
    PROVE  /\ TypeOK' /\ Loops'
           /\ sats' \in Seq([whole : Nat, mod : Nat])
           /\ cells' \in Seq([sat_idx : Nat, sig_idx : Nat, fine : Nat])
<1>1. /\ payload' = payload /\ i' = i /\ sat_ids' = sat_ids /\ sig_ids' = sig_ids
      /\ cell_present' = cell_present /\ sats' = sats /\ cells' = cells
  BY DEF msmVars
<1>2. total_bits_' = total_bits_
  BY <1>1, Frame
<1>3. max_cells' = max_cells
  BY <1>1 DEF max_cells
<1>4. bitpos_' \in 0..total_bits_'
  BY <1>2, CursorFacts
<1>5. TypeOK'
  BY <1>1, <1>3, <1>4 DEF IndInv, TypeOK
<1>6. Loops'
  BY <1>1 DEF IndInv, Loops
<1>. QED
  BY <1>1, <1>5, <1>6 DEF IndInv

\* decode() finds the parser.
LEMMA DecodeStep == IndInv /\ decode => IndInv'
<1>. SUFFICES ASSUME IndInv, decode PROVE IndInv'
  OBVIOUS
<1>1. /\ payload' = payload /\ last' = last /\ text' = text /\ UNCHANGED msmVars
      /\ pc = "start" /\ error = "none"
  BY DEF decode, IndInv
<1>2. /\ payload \in Seq(0..255) /\ Len(payload) \in Nat /\ total_bits_ = 8 * Len(payload)
      /\ bitpos_ \in Nat /\ bitpos_ <= total_bits_ /\ last \in Nat /\ text \in Seq(Nat)
  BY CursorFacts DEF IndInv, TypeOK
<1>3. CASE Len(payload) < 2
  <2>1. error' = "payload_too_short" /\ pc' = "done" /\ bitpos_' = bitpos_
    BY <1>2, <1>3 DEF decode
  <2>2. ~Whole
    BY <1>2, <1>3 DEF Whole, Has
  <2>3. TypeOK' /\ Loops'
        /\ sats' \in Seq([whole : Nat, mod : Nat])
        /\ cells' \in Seq([sat_idx : Nat, sig_idx : Nat, fine : Nat])
    BY <1>1, <1>2, <2>1, MsmKept
  <2>4. ErrorIffTruncated'
    BY <1>1, <2>1, <2>2, Frame DEF ErrorIffTruncated
  <2>. QED
    BY <2>1, <2>3, <2>4 DEF IndInv
<1>4. CASE Len(payload) >= 2
  <2>1. error' = error /\ pc' = "read" /\ bitpos_' = 12 /\ todo' = Script
    BY <1>2, <1>4 DEF decode, Script
  <2>2. TypeOK' /\ Loops'
        /\ sats' \in Seq([whole : Nat, mod : Nat])
        /\ cells' \in Seq([sat_idx : Nat, sig_idx : Nat, fine : Nat])
    BY <1>1, <1>2, <1>4, <2>1, MsmKept
  <2>3. Script \in Seq(StageOf) /\ Len(Script) \in Nat
    BY <1>2, <1>4, AllCharted, LenProperties DEF Charted
  <2>4. AtStage(0)'
    <3>1. Script' = Script /\ (Place(0))' = Place(0) /\ (Upto(0)' <=> Upto(0)) /\ Type' = Type
      BY <1>1, Frame
    <3>2. Place(0) = 12 /\ Upto(0)
      BY DEF Place, Upto
    <3>3. Behind(Place(0))'
      BY <2>1, <3>1, <3>2 DEF Behind
    <3>4. 0 \in 0..Len(Script) /\ Len(Script) = Len(Script) - 0
          /\ \A m \in 1..Len(Script) : Script[m] = Script[0 + m]
      BY <2>3
    <3>. QED
      BY <2>1, <2>3, <3>1, <3>2, <3>3, <3>4 DEF AtStage
  <2>5. ErrorIffTruncated'
    BY <2>1 DEF ErrorIffTruncated
  <2>. QED
    BY <1>1, <1>4, <2>1, <2>2, <2>4, <2>5 DEF IndInv
<1>. QED
  BY <1>2, <1>3, <1>4

\* A read that fails ends the parser, and the message is not whole.
LEMMA FailedStep ==
    ASSUME IndInv, pc = "read", UNCHANGED <<payload, text, msmVars, bitpos_, last, todo>>,
           error' \in Errors, pc' = "done", ~Whole
    PROVE  IndInv'
<1>1. payload' = payload /\ text' = text /\ bitpos_' = bitpos_ /\ last' = last
  OBVIOUS
<1>2. /\ bitpos_ \in Nat /\ bitpos_ <= total_bits_ /\ last \in Nat /\ text \in Seq(Nat)
  BY CursorFacts DEF IndInv, TypeOK
<1>3. TypeOK' /\ Loops'
      /\ sats' \in Seq([whole : Nat, mod : Nat])
      /\ cells' \in Seq([sat_idx : Nat, sig_idx : Nat, fine : Nat])
  BY <1>1, <1>2, MsmKept
<1>4. error' # "none"
  BY DEF Errors
<1>5. ErrorIffTruncated'
  BY <1>1, <1>4, Frame DEF ErrorIffTruncated
<1>. QED
  BY <1>3, <1>5 DEF IndInv

\* A read of the straight-line part that succeeds.
LEMMA ReadStep ==
    ASSUME IndInv, pc = "read", UNCHANGED <<payload, pc, msmVars, error>>,
           bitpos_' \in Nat, bitpos_' <= total_bits_, last' \in Nat, text' \in Seq(Nat),
           InList' \/ \E n \in Nat : AtStage(n)'
    PROVE  IndInv'
<1>1. TypeOK' /\ Loops'
      /\ sats' \in Seq([whole : Nat, mod : Nat])
      /\ cells' \in Seq([sat_idx : Nat, sig_idx : Nat, fine : Nat])
  BY MsmKept
<1>2. ErrorIffTruncated'
  BY DEF ErrorIffTruncated
<1>. QED
  BY <1>1, <1>2 DEF IndInv

\* The stage that is reached.
LEMMA Reached ==
    ASSUME payload' = payload, NEW m \in Nat, m \in 0..Len(Script), Type = 1013 => m < 2,
           todo' \in Seq(StageOf), Len(todo') = Len(Script) - m,
           \A j \in 1..Len(todo') : todo'[j] = Script[m + j],
           Place(m) \in Nat, bitpos_' = Place(m) \/ (Place(m) > total_bits_ /\ bitpos_' + 8 > total_bits_),
           Upto(m),
           \A k, l \in Nat : m > 0 /\ Takes(Script[m], k, l) /\ l <= 30
                               => last' = Value(payload, Place(m) - l, l)
    PROVE  AtStage(m)'
<1>1. /\ Script' = Script /\ (Place(m))' = Place(m) /\ (Upto(m)' <=> Upto(m))
      /\ Type' = Type /\ total_bits_' = total_bits_
  BY Frame
<1>2. Behind(Place(m))'
  BY <1>1 DEF Behind
<1>3. \A k, l \in Nat : m > 0 /\ Takes(Script[m], k, l)' /\ l <= 30
                           => last' = Value(payload, Place(m) - l, l)'
  BY <1>1 DEF Takes
<1>. QED
  BY <1>1, <1>2, <1>3 DEF AtStage

\* The value of the last field of a stage.
LEMMA LastField ==
    ASSUME IndInv, NEW r \in Readings, NEW k \in Nat, NEW l \in Nat,
           Width(r, Len(r)) = k, r[Len(r)].n = l, l <= k, Taken(r),
           last' = IF r[Len(r)].n <= 30
                   THEN Value(payload, At(r, Len(r)), r[Len(r)].n) ELSE 0
    PROVE  /\ last' \in Nat
           /\ l <= 30 => last' = Value(payload, bitpos_ + k - l, l)
<1>1. /\ bitpos_ + k <= total_bits_ /\ At(r, Len(r)) = bitpos_ + k - l
      /\ Value(payload, bitpos_ + k - l, l) \in Nat
  BY CursorFacts, GetEffect
<1>. QED
  BY <1>1

\* A stage of reads, between texts.
LEMMA GetStep ==
    ASSUME IndInv, GetFields, NEW n \in Nat, AtStage(n)
    PROVE  IndInv'
<1>. DEFINE r == Script[n + 1].reads
<1>1. /\ pc = "read" /\ todo # <<>> /\ Head(todo).op = "get"
      /\ payload' = payload /\ text' = text /\ UNCHANGED msmVars
  BY DEF GetFields, Stage
<1>2. /\ payload \in Seq(0..255) /\ total_bits_ \in Nat
      /\ bitpos_ \in Nat /\ bitpos_ <= total_bits_ /\ Len(payload) >= 2 /\ text \in Seq(Nat)
  BY <1>1, CursorFacts DEF IndInv, TypeOK
<1>3. /\ n + 1 \in 1..Len(Script) /\ Head(todo) = Script[n + 1]
      /\ Tail(todo) \in Seq(StageOf) /\ Len(Tail(todo)) = Len(Script) - (n + 1)
      /\ \A m \in 1..Len(Tail(todo)) : Tail(todo)[m] = Script[(n + 1) + m]
      /\ Adjoins(n + 1) \/ (Script[n + 1].op = "repeat" /\ Type = 1013)
  BY <1>1, <1>2, StageKinds
<1>4. Script[n + 1].op = "get" /\ Script[n + 1] # Text
  BY <1>1, <1>3 DEF Text
<1>5. Adjoins(n + 1)
  BY <1>3, <1>4
<1>6. PICK k \in Nat, l \in Nat : /\ Takes(Script[n + 1], k, l) /\ k >= 8 /\ l <= k
                                 /\ Place(n + 1) = Place(n) + k
  BY <1>4, <1>5 DEF Adjoins
<1>7. r \in Readings /\ Width(r, Len(r)) = k /\ r[Len(r)].n = l
  BY <1>6 DEF Takes
<1>8. /\ Place(n) \in Nat /\ Behind(Place(n)) /\ Upto(n) /\ n \in 0..Len(Script)
      /\ Type = 1013 => n < 2
  BY DEF AtStage
<1>9. \/ /\ Taken(r)
         /\ last' = IF r[Len(r)].n <= 30
                    THEN Value(payload, At(r, Len(r)), r[Len(r)].n) ELSE 0
         /\ todo' = Tail(todo) /\ UNCHANGED <<pc, error>>
      \/ Failed(r) /\ UNCHANGED <<bitpos_, last, todo>>
  BY <1>3 DEF GetFields
<1>. HIDE DEF r
<1>10. ASSUME Failed(r), UNCHANGED <<bitpos_, last, todo>> PROVE IndInv'
  <2>1. ~(bitpos_ + k <= total_bits_) /\ error' \in Errors /\ pc' = "done"
    BY <1>2, <1>6, <1>7, <1>10, GetEffect
  <2>2. ~Has(Place(n + 1))
    BY <1>2, <1>6, <1>8, <2>1 DEF Has, Behind
  <2>3. ~Upto(Len(Script))
    BY <1>3, <1>4, <2>2 DEF Upto
  <2>4. ~Whole
    BY <1>2, <2>3, WholeUpto
  <2>. QED
    BY <1>1, <1>10, <2>1, <2>4, FailedStep
<1>11. ASSUME Taken(r),
              last' = IF r[Len(r)].n <= 30
                      THEN Value(payload, At(r, Len(r)), r[Len(r)].n) ELSE 0,
              todo' = Tail(todo), UNCHANGED <<pc, error>>
       PROVE  IndInv'
  <2>1. bitpos_' = bitpos_ + k /\ bitpos_ + k <= total_bits_
    BY <1>2, <1>6, <1>7, <1>11, GetEffect
  <2>2. /\ last' \in Nat
        /\ l <= 30 => last' = Value(payload, bitpos_ + k - l, l)
    BY <1>6, <1>7, <1>11, LastField
  <2>3. bitpos_ = Place(n) /\ Has(Place(n + 1)) /\ Place(n + 1) \in Nat /\ bitpos_' = Place(n + 1)
    BY <1>2, <1>6, <1>8, <2>1 DEF Behind, Has
  <2>4. Upto(n + 1)
    <3>1. \A m \in 1..(n + 1) : m \in 1..n \/ m = n + 1
      OBVIOUS
    <3>. QED
      BY <1>8, <2>3, <3>1 DEF Upto
  <2>5. AtStage(n + 1)'
    <3>3. n + 1 \in 0..Len(Script)
      BY <1>3
    <3>4. Type = 1013 => n + 1 < 2
      <4>1. ASSUME Type = 1013 PROVE n + 1 # 2
        BY <1>2, <1>4, <4>1, Charted1013 DEF Repeat
      <4>. QED
        BY <1>8, <4>1
    <3>5. ASSUME NEW k1 \in Nat, NEW l1 \in Nat, Takes(Script[n + 1], k1, l1), l1 <= 30
          PROVE  last' = Value(payload, Place(n + 1) - l1, l1)
      <4>1. l1 = l
        BY <1>6, <3>5 DEF Takes
      <4>2. Place(n + 1) = bitpos_ + k
        BY <1>6, <2>3
      <4>3. l <= 30
        BY <3>5, <4>1, Zenon
      <4>4. last' = Value(payload, bitpos_ + k - l, l)
        BY <2>2, <4>3, Zenon
      <4>5. Place(n + 1) - l1 = bitpos_ + k - l
        BY <1>2, <4>1, <4>2
      <4>6. Value(payload, Place(n + 1) - l1, l1) = Value(payload, bitpos_ + k - l, l)
        BY <4>1, <4>5
      <4>. QED
        BY <4>4, <4>6
    <3>6. /\ Len(todo') = Len(Script) - (n + 1) /\ todo' \in Seq(StageOf)
          /\ \A m \in 1..Len(todo') : todo'[m] = Script[(n + 1) + m]
      <4>1. todo' = Tail(todo)
        BY <1>11
      <4>2. Tail(todo) \in Seq(StageOf) /\ Len(Tail(todo)) = Len(Script) - (n + 1)
        BY <1>3
      <4>3. \A m \in 1..Len(Tail(todo)) : Tail(todo)[m] = Script[(n + 1) + m]
        BY <1>3
      <4>. QED
        BY <4>1, <4>2, <4>3
    <3>7. n + 1 \in Nat
      OBVIOUS
    <3>. QED
      BY <1>1, <2>3, <2>4, <3>3, <3>4, <3>5, <3>6, <3>7, Reached
  <2>6. n + 1 \in Nat
    OBVIOUS
  <2>7. bitpos_' \in Nat /\ bitpos_' <= total_bits_ /\ text' \in Seq(Nat)
    BY <1>1, <1>2, <2>1
  <2>. QED
    BY <1>1, <1>11, <2>2, <2>5, <2>6, <2>7, ReadStep
<1>. QED
  BY <1>9, <1>10, <1>11

\* An announcement of 1013.
LEMMA ListStep ==
    ASSUME IndInv, GetFields, InList
    PROVE  IndInv'
<1>. DEFINE r == Announcement.reads
            count == Value(payload, 57, 5)
<1>1. /\ pc = "read" /\ todo # <<>>
      /\ payload' = payload /\ text' = text /\ UNCHANGED msmVars
  BY DEF GetFields, Stage
<1>2. /\ payload \in Seq(0..255) /\ total_bits_ \in Nat
      /\ bitpos_ \in Nat /\ bitpos_ <= total_bits_ /\ Len(payload) >= 2 /\ text \in Seq(Nat)
  BY <1>1, CursorFacts DEF IndInv, TypeOK
<1>3. /\ Type = 1013 /\ Has(62) /\ todo \in Seq({Announcement})
      /\ bitpos_ + 29 * Len(todo) = 62 + 29 * count
  BY DEF InList
<1>4. /\ Head(todo) = Announcement /\ Tail(todo) \in Seq({Announcement})
      /\ Len(Tail(todo)) = Len(todo) - 1 /\ Len(todo) \in Nat /\ Len(todo) # 0
  BY <1>1, <1>3, HeadTailProperties, LenProperties, EmptySeq
<1>5. count \in Nat
  <2>1. 57 + 5 <= 8 * Len(payload)
    BY <1>3 DEF Has, total_bits_
  <2>. QED
    BY <1>2, <2>1, ValueFacts
<1>6. r \in Readings /\ Width(r, Len(r)) = 29 /\ r[Len(r)].n = 16
  <2>1. "truncated_1013_announcements" \in Errors /\ 12 + 1 + 16 = 29
    BY DEF Errors
  <2>2. Takes(Get(<<12, 1, 16>>, "truncated_1013_announcements"), 12 + 1 + 16, 16)
    BY <2>1, ShortStages
  <2>3. Announcement = Get(<<12, 1, 16>>, "truncated_1013_announcements")
    BY DEF Announcement, Get
  <2>. QED
    BY <2>1, <2>2, <2>3 DEF Takes
<1>7. \/ /\ Taken(r)
         /\ last' = IF r[Len(r)].n <= 30
                    THEN Value(payload, At(r, Len(r)), r[Len(r)].n) ELSE 0
         /\ todo' = Tail(todo) /\ UNCHANGED <<pc, error>>
      \/ Failed(r) /\ UNCHANGED <<bitpos_, last, todo>>
  BY <1>4 DEF GetFields
<1>. HIDE DEF r, count
<1>8. ASSUME Failed(r), UNCHANGED <<bitpos_, last, todo>> PROVE IndInv'
  <2>1. ~(bitpos_ + 29 <= total_bits_) /\ error' \in Errors /\ pc' = "done"
    BY <1>2, <1>6, <1>8, GetEffect
  <2>2. ~Has(62 + 29 * count)
    BY <1>2, <1>3, <1>4, <1>5, <2>1 DEF Has
  <2>3. ~Whole
    BY <1>2, <1>3, <2>2, AllCharted DEF count
  <2>. QED
    BY <1>1, <1>8, <2>1, <2>3, FailedStep
<1>9. ASSUME Taken(r),
             last' = IF r[Len(r)].n <= 30
                     THEN Value(payload, At(r, Len(r)), r[Len(r)].n) ELSE 0,
             todo' = Tail(todo), UNCHANGED <<pc, error>>
      PROVE  IndInv'
  <2>1. bitpos_' = bitpos_ + 29 /\ bitpos_ + 29 <= total_bits_
    <3>1. 29 \in Nat /\ 16 \in Nat /\ 16 <= 29
      OBVIOUS
    <3>2. Taken(r) => bitpos_' = bitpos_ + 29 /\ bitpos_ + 29 <= total_bits_
      BY <1>2, <1>6, <3>1, GetEffect
    <3>. QED
      BY <1>9, <3>2
  <2>2. last' \in Nat
    <3>1. 29 \in Nat /\ 16 \in Nat /\ 16 <= 29
      OBVIOUS
    <3>. QED
      BY <1>6, <1>9, <3>1, LastField
  <2>3. InList'
    <3>1. bitpos_' + 29 * Len(todo') = 62 + 29 * count
      BY <1>2, <1>3, <1>4, <1>5, <1>9, <2>1
    <3>2. Type' = Type /\ (Has(62)' <=> Has(62))
      BY <1>1, Frame
    <3>. QED
      BY <1>1, <1>3, <1>4, <1>9, <3>1, <3>2 DEF InList, count, Announcement
  <2>4. bitpos_' \in Nat /\ bitpos_' <= total_bits_ /\ text' \in Seq(Nat)
    BY <1>1, <1>2, <2>1
  <2>. QED
    BY <1>1, <1>9, <2>2, <2>3, <2>4, ReadStep
<1>. QED
  BY <1>7, <1>8, <1>9

\* A text: what of it is there is read.
LEMMA TextStep ==
    ASSUME IndInv, read_ascii, NEW n \in Nat, AtStage(n)
    PROVE  IndInv'
<1>. DEFINE V == Value(payload, Place(n) - 8, 8)
            left == (total_bits_ - bitpos_) \div 8
<1>1. /\ pc = "read" /\ todo # <<>> /\ Head(todo).op = "text"
      /\ UNCHANGED <<payload, pc, msmVars, error>> /\ last' = last /\ payload' = payload
      /\ bitpos_' = bitpos_ + 8 * Readable /\ text' = Append(text, Readable)
      /\ todo' = Tail(todo)
  BY DEF read_ascii, Stage
<1>2. /\ payload \in Seq(0..255) /\ total_bits_ \in Nat /\ last \in Nat
      /\ bitpos_ \in Nat /\ bitpos_ <= total_bits_ /\ Len(payload) >= 2 /\ text \in Seq(Nat)
  BY <1>1, CursorFacts DEF IndInv, TypeOK
<1>3. /\ n + 1 \in 1..Len(Script) /\ Head(todo) = Script[n + 1]
      /\ Tail(todo) \in Seq(StageOf) /\ Len(Tail(todo)) = Len(Script) - (n + 1)
      /\ \A m \in 1..Len(Tail(todo)) : Tail(todo)[m] = Script[(n + 1) + m]
      /\ Adjoins(n + 1) \/ (Script[n + 1].op = "repeat" /\ Type = 1013)
  BY <1>1, <1>2, StageKinds
<1>4. Script[n + 1].op = "text" /\ ~\E k, l \in Nat : Takes(Script[n + 1], k, l)
  BY <1>1, <1>3 DEF Takes
<1>5. /\ Place(n) \in Nat /\ Behind(Place(n)) /\ Upto(n) /\ n \in 0..Len(Script)
      /\ Type = 1013 => n < 2
      /\ \A k, l \in Nat : n > 0 /\ Takes(Script[n], k, l) /\ l <= 30
                             => last = Value(payload, Place(n) - l, l)
  BY DEF AtStage
<1>6. /\ n > 0 /\ Place(n) >= 8 /\ Place(n + 1) = Place(n) + 8 * V
      /\ \E k \in Nat : Takes(Script[n], k, 8)
  <2>1. Adjoins(n + 1) /\ (n + 1) - 1 = n
    BY <1>3, <1>4
  <2>. QED
    BY <1>4, <2>1 DEF Adjoins
<1>7. last = V
  <2>1. PICK k \in Nat : Takes(Script[n], k, 8)
    BY <1>6
  <2>2. 8 \in Nat /\ 8 <= 30
    OBVIOUS
  <2>. QED
    BY <1>5, <1>6, <2>1, <2>2
<1>8. Has(Place(n))
  <2>1. Script[n].op = "get"
    BY <1>6 DEF Takes
  <2>2. n \in 1..n
    BY <1>6
  <2>. QED
    BY <1>5, <2>1, <2>2 DEF Upto
<1>. HIDE DEF V
<1>9. bitpos_ = Place(n)
  BY <1>2, <1>5, <1>8 DEF Behind, Has
<1>10. /\ left \in Nat /\ 8 * left <= total_bits_ - bitpos_ /\ total_bits_ - bitpos_ < 8 * left + 8
  BY <1>2
<1>11. Readable = IF last <= left THEN last ELSE left
  BY DEF Readable
<1>. HIDE DEF left
<1>12. Readable \in Nat /\ bitpos_' \in Nat /\ bitpos_' <= total_bits_
  BY <1>1, <1>2, <1>10, <1>11
<1>13. text' \in Seq(Nat)
  BY <1>1, <1>2, <1>12, AppendProperties
<1>14. /\ Place(n + 1) \in Nat
       /\ bitpos_' = Place(n + 1) \/ (Place(n + 1) > total_bits_ /\ bitpos_' + 8 > total_bits_)
  <2>1. Place(n + 1) = bitpos_ + 8 * last
    BY <1>6, <1>7, <1>9
  <2>2. CASE last <= left
    BY <1>1, <1>2, <1>11, <2>1, <2>2
  <2>3. CASE ~(last <= left)
    <3>1. bitpos_' = bitpos_ + 8 * left /\ last >= left + 1
      BY <1>1, <1>2, <1>10, <1>11, <2>3
    <3>. QED
      BY <1>2, <1>10, <2>1, <3>1
  <2>. QED
    BY <2>2, <2>3
<1>15. Upto(n + 1)
  <2>1. \A m \in 1..(n + 1) : m \in 1..n \/ m = n + 1
    OBVIOUS
  <2>. QED
    BY <1>4, <1>5, <2>1 DEF Upto
<1>16. Type = 1013 => n + 1 < 2
  <2>1. ASSUME Type = 1013 PROVE n + 1 # 2
    BY <1>2, <1>4, <2>1, Charted1013 DEF Repeat
  <2>. QED
    BY <1>5, <2>1
<1>17. AtStage(n + 1)'
  <2>1. n + 1 \in Nat /\ n + 1 \in 0..Len(Script)
    BY <1>3
  <2>2. todo' \in Seq(StageOf) /\ Len(todo') = Len(Script) - (n + 1)
    BY <1>1, <1>3
  <2>3. \A m \in 1..Len(todo') : todo'[m] = Script[(n + 1) + m]
    BY <1>1, <1>3
  <2>4. \A k, l \in Nat : n + 1 > 0 /\ Takes(Script[n + 1], k, l) /\ l <= 30
                            => last' = Value(payload, Place(n + 1) - l, l)
    BY <1>4
  <2>. QED
    BY <1>1, <1>14, <1>15, <1>16, <2>1, <2>2, <2>3, <2>4, Reached
<1>18. n + 1 \in Nat /\ last' \in Nat
  BY <1>1, <1>2
<1>. QED
  BY <1>1, <1>12, <1>13, <1>17, <1>18, ReadStep

\* The list of 1013 begins.
LEMMA RepeatStep ==
    ASSUME IndInv, Announcements, NEW n \in Nat, AtStage(n)
    PROVE  IndInv'
<1>1. /\ pc = "read" /\ todo # <<>> /\ Head(todo).op = "repeat"
      /\ UNCHANGED <<payload, pc, msmVars, error>> /\ last' = last /\ payload' = payload
      /\ bitpos_' = bitpos_ /\ text' = text
      /\ todo' = [k \in 1..last |-> [op |-> "get", reads |-> Head(todo).reads]]
  BY DEF Announcements, Stage
<1>2. /\ payload \in Seq(0..255) /\ total_bits_ \in Nat /\ last \in Nat
      /\ bitpos_ \in Nat /\ bitpos_ <= total_bits_ /\ Len(payload) >= 2 /\ text \in Seq(Nat)
  BY <1>1, CursorFacts DEF IndInv, TypeOK
<1>3. /\ n + 1 \in 1..Len(Script) /\ Head(todo) = Script[n + 1]
      /\ Adjoins(n + 1) \/ (Script[n + 1].op = "repeat" /\ Type = 1013)
  BY <1>1, <1>2, StageKinds
<1>4. Type = 1013
  <2>1. Script[n + 1].op = "repeat"
    BY <1>1, <1>3
  <2>2. ~Adjoins(n + 1)
    BY <2>1 DEF Adjoins, Takes, Text
  <2>. QED
    BY <1>3, <2>2
<1>5. /\ Len(Script) = 2 /\ (Upto(1) <=> Has(62)) /\ Place(1) = 62 /\ Takes(Script[1], 50, 5)
      /\ Script[2] = Repeat(Reads(<<12, 1, 16>>, "truncated_1013_announcements"))
  BY <1>2, <1>4, Charted1013
<1>6. n = 1
  <2>1. Script[1].op = "get"
    BY <1>5 DEF Takes
  <2>2. n + 1 # 1
    BY <1>1, <1>3, <2>1
  <2>. QED
    BY <1>3, <1>5, <2>2
<1>7. Has(62) /\ bitpos_ = 62 /\ last = Value(payload, 57, 5)
  <2>1. /\ Behind(Place(1)) /\ Upto(1)
        /\ \A k, l \in Nat : Takes(Script[1], k, l) /\ l <= 30
                             => last = Value(payload, Place(1) - l, l)
    BY <1>6 DEF AtStage
  <2>2. Has(62) /\ bitpos_ = 62
    BY <1>2, <1>5, <2>1 DEF Behind, Has
  <2>3. 50 \in Nat /\ 5 \in Nat /\ 5 <= 30 /\ 62 - 5 = 57
    OBVIOUS
  <2>4. last = Value(payload, 62 - 5, 5)
    BY <1>5, <2>1, <2>3
  <2>. QED
    BY <2>2, <2>3, <2>4
<1>8. Head(todo) = Repeat(Reads(<<12, 1, 16>>, "truncated_1013_announcements"))
  BY <1>3, <1>5, <1>6
<1>9. [op |-> "get", reads |-> Head(todo).reads] = Announcement
  BY <1>8 DEF Repeat, Announcement
<1>10. todo' = [k \in 1..last |-> Announcement]
  BY <1>1, <1>9
<1>11. todo' \in Seq({Announcement}) /\ Len(todo') = last
  <2>1. todo' \in [1..last -> {Announcement}] /\ DOMAIN todo' = 1..last
    BY <1>10
  <2>2. todo' \in Seq({Announcement})
    BY <1>2, <2>1, SeqDef
  <2>. QED
    BY <1>2, <2>1, <2>2, LenProperties
<1>12. InList'
  <2>1. Type' = Type /\ (Has(62)' <=> Has(62)) /\ Announcement' = Announcement
    BY <1>1, Frame DEF Announcement
  <2>2. bitpos_' + 29 * Len(todo') = 62 + 29 * Value(payload, 57, 5)
    BY <1>1, <1>7, <1>11
  <2>. QED
    BY <1>1, <1>4, <1>7, <1>11, <2>1, <2>2 DEF InList
<1>13. bitpos_' \in Nat /\ bitpos_' <= total_bits_ /\ text' \in Seq(Nat) /\ last' \in Nat
  BY <1>1, <1>2
<1>. QED
  BY <1>1, <1>12, <1>13, ReadStep

\* Nothing is left to read.
LEMMA EndStep == IndInv /\ EndOfReads => IndInv'
<1>. SUFFICES ASSUME IndInv, EndOfReads PROVE IndInv'
  OBVIOUS
<1>1. /\ pc = "read" /\ todo = <<>> /\ ~IsMsm(Type) /\ pc' = "done" /\ error' = error
      /\ UNCHANGED <<payload, msmVars>> /\ payload' = payload
      /\ bitpos_' = bitpos_ /\ text' = text /\ last' = last
  BY DEF EndOfReads
<1>2. /\ payload \in Seq(0..255) /\ total_bits_ \in Nat /\ last \in Nat
      /\ bitpos_ \in Nat /\ bitpos_ <= total_bits_ /\ Len(payload) >= 2 /\ text \in Seq(Nat)
      /\ error = "none"
  BY <1>1, CursorFacts DEF IndInv, TypeOK
<1>3. Len(todo) = 0
  BY <1>1
<1>4. Whole
  <2>1. CASE InList
    <3>1. Type = 1013 /\ Has(62) /\ bitpos_ + 29 * 0 = 62 + 29 * Value(payload, 57, 5)
      BY <1>3, <2>1 DEF InList
    <3>2. Has(62 + 29 * Value(payload, 57, 5))
      BY <1>2, <3>1 DEF Has
    <3>. QED
      BY <1>2, <3>1, <3>2, AllCharted
  <2>2. ASSUME NEW n \in Nat, AtStage(n) PROVE Whole
    <3>1. n \in 0..Len(Script) /\ (Type = 1013 => n < 2) /\ Len(todo) = Len(Script) - n /\ Upto(n)
      BY <2>2 DEF AtStage
    <3>2. Len(Script) \in Nat
      BY <1>2, AllCharted, LenProperties DEF Charted
    <3>3. n = Len(Script)
      BY <1>3, <3>1, <3>2
    <3>4. Type # 1013
      <4>1. Type = 1013 => Len(Script) = 2
        BY <1>2, Charted1013
      <4>. QED
        BY <3>1, <3>3, <4>1
    <3>. QED
      BY <1>1, <1>2, <3>1, <3>3, <3>4, AllCharted
  <2>. QED
    BY <1>1, <2>1, <2>2 DEF IndInv
<1>5. TypeOK' /\ Loops'
      /\ sats' \in Seq([whole : Nat, mod : Nat])
      /\ cells' \in Seq([sat_idx : Nat, sig_idx : Nat, fine : Nat])
  BY <1>1, <1>2, MsmKept
<1>6. ErrorIffTruncated'
  BY <1>1, <1>2, <1>4, Frame DEF ErrorIffTruncated
<1>. QED
  BY <1>1, <1>5, <1>6 DEF IndInv

------------------------------------------------------------------------------
(* The steps of decode_msm. *)

\* What the invariant says in the loops, and of the widths.
LEMMA MsmFacts ==
    ASSUME IndInv, pc \in {"cell_mask", "sat", "cell", "report"}
    PROVE  /\ payload \in Seq(0..255) /\ Len(payload) >= 2 /\ IsMsm(Type) /\ error = "none"
           /\ sat_ids = Sats(payload) /\ sig_ids = Sigs(payload) /\ max_cells = CellBits(payload)
           /\ i \in Nat
<1>1. /\ IsMsm(Type) /\ sat_ids = Sats(payload) /\ sig_ids = Sigs(payload)
      /\ Len(payload) >= 2 /\ error = "none"
  BY DEF IndInv, Loops
<1>2. max_cells = CellBits(payload)
  BY <1>1 DEF max_cells, CellBits
<1>. QED
  BY <1>1, <1>2, CursorFacts DEF IndInv, TypeOK

\* A read of the loops that fails ends the parser.
LEMMA MsmFailed ==
    ASSUME IndInv, pc \in {"cell_mask", "sat", "cell"},
           UNCHANGED <<payload, bitpos_, last, text, i, sat_ids, sig_ids, cell_present,
                       sats, cells>>,
           error' \in Errors, pc' = "done", ~Whole
    PROVE  IndInv'
<1>1. /\ payload' = payload /\ bitpos_' = bitpos_ /\ last' = last /\ text' = text /\ i' = i
      /\ sat_ids' = sat_ids /\ sig_ids' = sig_ids /\ cell_present' = cell_present
      /\ sats' = sats /\ cells' = cells
  OBVIOUS
<1>2. total_bits_' = total_bits_ /\ max_cells' = max_cells
  BY <1>1, Frame DEF max_cells
<1>3. TypeOK'
  BY <1>1, <1>2 DEF IndInv, TypeOK
<1>4. error' # "none"
  BY DEF Errors
<1>5. ErrorIffTruncated'
  BY <1>1, <1>4, Frame DEF ErrorIffTruncated
<1>6. Loops'
  BY DEF Loops
<1>. QED
  BY <1>1, <1>3, <1>5, <1>6 DEF IndInv

\* A step within the loops or to the next of them.
LEMMA MsmStep ==
    ASSUME IndInv, pc \in {"cell_mask", "sat", "cell"},
           UNCHANGED <<payload, last, text, sat_ids, sig_ids, error>>,
           pc' \in {"cell_mask", "sat", "cell", "report"},
           bitpos_' \in Nat, bitpos_' <= total_bits_, i' \in Nat,
           cell_present' \subseteq 0..(max_cells - 1),
           sats' \in Seq([whole : Nat, mod : Nat]),
           cells' \in Seq([sat_idx : Nat, sig_idx : Nat, fine : Nat]),
           Len(sats') <= Cardinality(sat_ids), Len(cells') <= Cardinality(cell_present'),
           Loops'
    PROVE  IndInv'
<1>1. /\ payload' = payload /\ last' = last /\ text' = text /\ error' = error
      /\ sat_ids' = sat_ids /\ sig_ids' = sig_ids
  OBVIOUS
<1>2. total_bits_' = total_bits_ /\ max_cells' = max_cells
  BY <1>1, Frame DEF max_cells
<1>3. bitpos_' \in 0..total_bits_'
  BY <1>2, CursorFacts
<1>4. TypeOK'
  BY <1>1, <1>2, <1>3 DEF IndInv, TypeOK
<1>5. ErrorIffTruncated'
  BY DEF ErrorIffTruncated
<1>6. error = "none" /\ Len(payload) >= 2
  BY MsmFacts
<1>. QED
  BY <1>1, <1>4, <1>5, <1>6 DEF IndInv

\* The masks.
LEMMA MasksStep == IndInv /\ MsmMasks => IndInv'
<1>. SUFFICES ASSUME IndInv, MsmMasks PROVE IndInv'
  OBVIOUS
<1>1. /\ pc = "read" /\ todo = <<>> /\ IsMsm(Type) /\ pc' = "cell_mask" /\ error' = error
      /\ sat_ids' = Mask(payload, bitpos_ - 96, 64)
      /\ sig_ids' = Mask(payload, bitpos_ - 32, 32)
      /\ payload' = payload /\ bitpos_' = bitpos_ /\ text' = text /\ last' = last /\ i' = i
      /\ cell_present' = cell_present /\ sats' = sats /\ cells' = cells
  BY DEF MsmMasks
<1>2. /\ payload \in Seq(0..255) /\ total_bits_ \in Nat /\ last \in Nat
      /\ bitpos_ \in Nat /\ bitpos_ <= total_bits_ /\ Len(payload) >= 2 /\ text \in Seq(Nat)
      /\ error = "none" /\ i = 0 /\ cell_present = {} /\ sats = <<>> /\ cells = <<>>
  BY <1>1, CursorFacts DEF IndInv, TypeOK, Loops
<1>3. bitpos_ = 169 /\ Has(169)
  <2>1. ~InList
    BY <1>1 DEF InList, IsMsm
  <2>2. PICK n \in Nat : AtStage(n)
    BY <1>1, <2>1 DEF IndInv
  <2>3. Len(Script) = 1 /\ (Upto(1) <=> Has(169)) /\ Place(1) = 169
    BY <1>1, <1>2, MsmCharted
  <2>4. /\ n \in 0..1 /\ Len(todo) = 1 - n /\ Upto(n) /\ Behind(Place(n))
    BY <2>2, <2>3 DEF AtStage
  <2>5. Len(todo) = 0
    BY <1>1
  <2>6. n = 1
    BY <2>4, <2>5
  <2>. QED
    BY <1>2, <2>3, <2>4, <2>6 DEF Behind, Has
<1>4. sat_ids' = Sats(payload) /\ sig_ids' = Sigs(payload)
  BY <1>1, <1>3 DEF Sats, Sigs
<1>5. /\ Sats(payload) \subseteq 1..64 /\ Sigs(payload) \subseteq 1..32
      /\ Cardinality(Sats(payload)) \in Nat
  <2>1. 64 \in Nat /\ 32 \in Nat
    OBVIOUS
  <2>. QED
    BY <2>1, MaskFacts DEF Sats, Sigs
<1>6. /\ total_bits_' = total_bits_ /\ Type' = Type /\ (Has(169)' <=> Has(169))
      /\ CellsBefore(0)' = CellsBefore(0)
  BY <1>1, Frame
<1>7. Len(<<>>) = 0 /\ Cardinality({}) = 0
  BY FS_EmptySet
<1>8. bitpos_' \in 0..total_bits_'
  BY <1>1, <1>2, <1>6
<1>9. TypeOK'
  BY <1>1, <1>2, <1>4, <1>5, <1>7, <1>8 DEF IndInv, TypeOK
<1>10. CellsBefore(0) = {} /\ CellBits(payload) \in Nat
  BY LayoutFacts DEF CellsBefore
<1>11. Loops'
  <2>1. i' <= CellBits(payload)' /\ bitpos_' = 169 + i'
    BY <1>1, <1>2, <1>3, <1>10
  <2>2. cell_present' = CellsBefore(i)'
    BY <1>1, <1>2, <1>6, <1>10
  <2>. QED
    BY <1>1, <1>2, <1>3, <1>4, <1>6, <2>1, <2>2 DEF Loops
<1>12. ErrorIffTruncated'
  BY <1>1 DEF ErrorIffTruncated
<1>. QED
  BY <1>1, <1>2, <1>9, <1>11, <1>12 DEF IndInv

\* The bits of the cell mask.
LEMMA CellMaskStep == IndInv /\ CellMaskBit => IndInv'
<1>. SUFFICES ASSUME IndInv, CellMaskBit PROVE IndInv'
  OBVIOUS
<1>. DEFINE r == <<Read(1, "invalid_msm_cell_mask")>>
            N == CellBits(payload)
<1>1. /\ pc = "cell_mask" /\ UNCHANGED <<payload, last, text, sat_ids, sig_ids, sats, cells>>
      /\ payload' = payload /\ sat_ids' = sat_ids /\ sig_ids' = sig_ids
      /\ sats' = sats /\ cells' = cells
  BY DEF CellMaskBit
<1>2. /\ payload \in Seq(0..255) /\ total_bits_ \in Nat /\ bitpos_ \in Nat
      /\ bitpos_ <= total_bits_ /\ Len(payload) >= 2 /\ IsMsm(Type) /\ i \in Nat
      /\ max_cells = N /\ error = "none" /\ sat_ids = Sats(payload)
      /\ sig_ids = Sigs(payload)
  BY <1>1, CursorFacts, MsmFacts
<1>3. /\ i <= N /\ bitpos_ = 169 + i /\ cell_present = CellsBefore(i)
      /\ sats = <<>> /\ cells = <<>> /\ Has(169)
  BY <1>1 DEF IndInv, Loops
<1>4. /\ N \in Nat /\ SatsAt(payload) = 169 + N
      /\ Cardinality(Sats(payload)) \in Nat
  BY LayoutFacts
<1>5. r \in Readings /\ Width(r, Len(r)) = 1 /\ r[Len(r)].n = 1
  <2>1. "invalid_msm_cell_mask" \in Errors
    BY DEF Errors
  <2>2. Read(1, "invalid_msm_cell_mask") \in Reading /\ Read(1, "invalid_msm_cell_mask").n = 1
    BY <2>1 DEF Read, Reading
  <2>3. r \in Seq(Reading) /\ Len(r) = 1 /\ r[1].n = 1 /\ r # <<>>
    BY <2>2
  <2>. HIDE DEF r
  <2>4. r \in Readings
    BY <2>3 DEF Readings
  <2>5. Width(r, 1) = Width(r, 0) + r[1].n /\ Width(r, 0) = 0
    <3>1. 1 \in 0..Len(r) /\ 0 \in 0..Len(r) /\ 1 # 0 /\ 1 - 1 = 0
      BY <2>3
    <3>. QED
      BY <2>3, <3>1, WidthFacts
  <2>. QED
    BY <2>3, <2>4, <2>5
<1>6. \/ /\ i < N /\ Taken(r) /\ i' = i + 1 /\ UNCHANGED <<pc, error>>
         /\ cell_present' = IF Bit(payload, bitpos_) = 1
                            THEN cell_present \cup {i} ELSE cell_present
      \/ i < N /\ Failed(r) /\ UNCHANGED <<bitpos_, i, cell_present>>
      \/ /\ i = N /\ i' = 0 /\ pc' = "sat" /\ UNCHANGED <<bitpos_, cell_present, error>>
  BY <1>2 DEF CellMaskBit, Iterate, NextLoop
<1>. HIDE DEF r, N
<1>7. /\ total_bits_' = total_bits_ /\ Type' = Type /\ \A n : Has(n)' <=> Has(n)
      /\ \A j : CellsBefore(j)' = CellsBefore(j)
      /\ CellBits(payload)' = N /\ SatsAt(payload)' = SatsAt(payload)
      /\ SatWidth(payload)' = SatWidth(payload)
      /\ Sats(payload)' = Sats(payload) /\ Sigs(payload)' = Sigs(payload)
  BY <1>1, Frame DEF N
<1>8. 1 \in Nat /\ 1 <= 1 /\ Len(<<>>) = 0
  OBVIOUS
<1>9. CASE i < N /\ Failed(r) /\ UNCHANGED <<bitpos_, i, cell_present>>
  <2>1. ~(bitpos_ + 1 <= total_bits_) /\ error' \in Errors /\ pc' = "done"
    BY <1>2, <1>5, <1>8, <1>9, GetEffect
  <2>2. ~Has(SatsAt(payload))
    BY <1>2, <1>3, <1>4, <1>9, <2>1 DEF Has
  <2>3. ~Whole
    BY <1>2, <2>2, AllCharted
  <2>. QED
    BY <1>1, <1>9, <2>1, <2>3, MsmFailed
<1>10. CASE /\ i < N /\ Taken(r) /\ i' = i + 1 /\ UNCHANGED <<pc, error>>
            /\ cell_present' = IF Bit(payload, bitpos_) = 1
                               THEN cell_present \cup {i} ELSE cell_present
  <2>1. bitpos_' = bitpos_ + 1 /\ bitpos_ + 1 <= total_bits_
    BY <1>2, <1>5, <1>8, <1>10, GetEffect
  <2>2. cell_present' = CellsBefore(i + 1) /\ i + 1 \in Nat
    <3>1. IF Bit(payload, 169 + i) = 1 THEN CellsBefore(i + 1) = CellsBefore(i) \cup {i}
          ELSE CellsBefore(i + 1) = CellsBefore(i)
      BY <1>2, CellsBeforeFacts
    <3>2. Bit(payload, bitpos_) = Bit(payload, 169 + i)
      BY <1>3
    <3>3. cell_present' = CellsBefore(i + 1)
      BY <1>3, <1>10, <3>1, <3>2
    <3>. QED
      BY <1>2, <3>3
  <2>3. cell_present' \subseteq 0..(max_cells - 1) /\ Cardinality(cell_present') \in Nat
    <3>1. CellsBefore(i + 1) \subseteq 0..((i + 1) - 1) /\ Cardinality(CellsBefore(i + 1)) \in Nat
      BY <2>2, CellsBeforeFacts
    <3>2. 0..((i + 1) - 1) \subseteq 0..(max_cells - 1)
      BY <1>2, <1>4, <1>10
    <3>. QED
      BY <2>2, <3>1, <3>2
  <2>4. Loops'
    <3>1. i' <= N /\ bitpos_' = 169 + i'
      BY <1>2, <1>3, <1>4, <1>10, <2>1
    <3>2. cell_present' = CellsBefore(i')
      BY <1>10, <2>2
    <3>3. cell_present' = CellsBefore(i)'
      BY <1>1, <3>2 DEF CellsBefore
    <3>. QED
      BY <1>1, <1>2, <1>3, <1>7, <1>10, <3>1, <3>3 DEF Loops
  <2>. QED
    BY <1>1, <1>2, <1>3, <1>4, <1>8, <1>10, <2>1, <2>2, <2>3, <2>4, MsmStep DEF IndInv
<1>11. CASE i = N /\ i' = 0 /\ pc' = "sat" /\ UNCHANGED <<bitpos_, cell_present, error>>
  <2>1. Has(SatsAt(payload)) /\ bitpos_ = SatsAt(payload)
    BY <1>2, <1>3, <1>4, <1>11 DEF Has
  <2>2. Loops'
    <3>1. bitpos_' = SatsAt(payload) + i' * SatWidth(payload)
      <4>1. SatWidth(payload) \in Nat
        BY LayoutFacts
      <4>. QED
        BY <1>4, <1>11, <2>1, <4>1, Products
    <3>2. i' <= Cardinality(sat_ids') /\ Len(sats') = i'
      BY <1>1, <1>2, <1>3, <1>4, <1>8, <1>11
    <3>3. cell_present' = CellsBefore(CellBits(payload))'
      BY <1>1, <1>3, <1>11 DEF CellsBefore, N
    <3>. QED
      BY <1>1, <1>2, <1>3, <1>7, <1>11, <2>1, <3>1, <3>2, <3>3 DEF Loops
  <2>3. /\ cell_present' \subseteq 0..(max_cells - 1) /\ Cardinality(cell_present') \in Nat
    BY <1>2, <1>3, <1>11, CellsBeforeFacts DEF IndInv, TypeOK
  <2>. QED
    BY <1>1, <1>2, <1>3, <1>4, <1>8, <1>11, <2>2, <2>3, MsmStep DEF IndInv
<1>. QED
  BY <1>6, <1>9, <1>10, <1>11

\* The last read of a stage is no wider than the stage.
LEMMA LastIsPart ==
    ASSUME NEW r \in Readings
    PROVE  \E l \in Nat : r[Len(r)].n = l /\ l <= Width(r, Len(r))
<1>1. r \in Seq(Reading) /\ Len(r) \in Nat /\ Len(r) # 0
  BY LenProperties, EmptySeq DEF Readings
<1>2. Len(r) \in 1..Len(r) /\ Len(r) \in 0..Len(r) /\ Len(r) - 1 \in 0..Len(r)
  BY <1>1
<1>3. r[Len(r)] \in Reading
  BY <1>1, <1>2, ElementOfSeq
<1>4. Width(r, Len(r)) = Width(r, Len(r) - 1) + r[Len(r)].n
  BY <1>1, <1>2, WidthFacts
<1>5. Width(r, Len(r) - 1) \in Nat
  BY <1>1, <1>2, WidthFacts
<1>6. r[Len(r)].n \in Nat
  BY <1>3 DEF Reading
<1>. QED
  BY <1>4, <1>5, <1>6

\* The data of the satellites.
LEMMA SatStep == IndInv /\ SatData => IndInv'
<1>. SUFFICES ASSUME IndInv, SatData PROVE IndInv'
  OBVIOUS
<1>. DEFINE N == CellBits(payload)
            W == SatWidth(payload)
            C == Cardinality(Sats(payload))
            rec == [whole |-> bitpos_,
                    mod |-> bitpos_ + IF WithPhaseRate(Type) THEN 12 ELSE 8]
<1>1. /\ pc = "sat"
      /\ UNCHANGED <<payload, last, text, sat_ids, sig_ids, cell_present, cells>>
      /\ payload' = payload /\ sat_ids' = sat_ids /\ sig_ids' = sig_ids
      /\ cell_present' = cell_present /\ cells' = cells
  BY DEF SatData
<1>2. /\ payload \in Seq(0..255) /\ total_bits_ \in Nat /\ bitpos_ \in Nat
      /\ bitpos_ <= total_bits_ /\ Len(payload) >= 2 /\ IsMsm(Type) /\ i \in Nat
      /\ max_cells = N /\ error = "none" /\ sat_ids = Sats(payload)
      /\ sig_ids = Sigs(payload)
  BY <1>1, CursorFacts, MsmFacts
<1>3. /\ i <= C /\ Has(SatsAt(payload)) /\ Has(169)
      /\ bitpos_ = SatsAt(payload) + i * W
      /\ cell_present = CellsBefore(N) /\ Len(sats) = i /\ cells = <<>>
      /\ sats \in Seq([whole : Nat, mod : Nat])
      /\ cell_present \subseteq 0..(max_cells - 1)
  BY <1>1, <1>2 DEF IndInv, Loops, TypeOK
<1>4. /\ N \in Nat /\ SatsAt(payload) = 169 + N /\ C \in Nat /\ W \in {18, 36} /\ W \in Nat
      /\ CellsAt(payload) = SatsAt(payload) + C * W /\ CellsAt(payload) \in Nat
      /\ Cardinality(CellSet(payload)) \in Nat
      /\ Cardinality(CellsBefore(0)) = 0 /\ Cardinality(CellsBefore(N)) \in Nat
  <2>1. CellsBefore(0) = {}
    BY DEF CellsBefore
  <2>2. /\ N \in Nat /\ SatsAt(payload) = 169 + N /\ C \in Nat /\ W \in {18, 36}
        /\ CellsAt(payload) = SatsAt(payload) + C * W /\ CellsAt(payload) \in Nat
        /\ Cardinality(CellSet(payload)) \in Nat
    BY LayoutFacts
  <2>3. Cardinality(CellsBefore(N)) \in Nat
    BY <2>2, CellsBeforeFacts
  <2>4. W \in Nat
    BY <2>2
  <2>. QED
    BY <2>1, <2>2, <2>3, <2>4, FS_EmptySet
<1>5. sat_data \in Readings /\ Width(sat_data, Len(sat_data)) = W
  BY <1>2, SatDataFacts
<1>6. CellWidth(payload) \in Nat
  BY <1>2, CellDataFacts
<1>7. \/ i < C /\ Taken(sat_data) /\ i' = i + 1 /\ UNCHANGED <<pc, error>> /\ sats' = Append(sats, rec)
      \/ i < C /\ Failed(sat_data) /\ UNCHANGED <<bitpos_, i, sats>>
      \/ i = C /\ i' = 0 /\ pc' = "cell" /\ UNCHANGED <<bitpos_, sats, error>>
  BY <1>2 DEF SatData, Iterate, NextLoop
<1>8. rec \in [whole : Nat, mod : Nat]
  BY <1>2
<1>. HIDE DEF rec, N, W, C
<1>9. /\ total_bits_' = total_bits_ /\ Type' = Type /\ \A n : Has(n)' <=> Has(n)
      /\ CellBits(payload)' = N /\ SatsAt(payload)' = SatsAt(payload)
      /\ SatWidth(payload)' = W /\ CellsAt(payload)' = CellsAt(payload)
      /\ CellWidth(payload)' = CellWidth(payload)
      /\ Sats(payload)' = Sats(payload) /\ Sigs(payload)' = Sigs(payload)
  BY <1>1, Frame DEF N, W
<1>10. (i + 1) * W = i * W + W /\ i * W \in Nat /\ (i < C => (i + 1) * W <= C * W) /\ C * W \in Nat
  <2>1. (i + 1) * W = i * W + W /\ i * W \in Nat /\ C * W \in Nat
    BY <1>2, <1>4, Products
  <2>2. i < C => (i + 1) * W <= C * W
    <3>1. i + 1 \in Nat /\ (i < C => i + 1 <= C)
      BY <1>2, <1>4
    <3>. QED
      BY <1>2, <1>4, <3>1, Products
  <2>. QED
    BY <2>1, <2>2
<1>11. Cardinality(CellSet(payload)) * CellWidth(payload) \in Nat
  BY <1>4, <1>6, Products
<1>12. MsmEnd(payload) = CellsAt(payload) + Cardinality(CellSet(payload)) * CellWidth(payload)
  BY DEF MsmEnd
<1>13. PICK l \in Nat : sat_data[Len(sat_data)].n = l /\ l <= W
  BY <1>5, LastIsPart
<1>14. CASE i < C /\ Failed(sat_data) /\ UNCHANGED <<bitpos_, i, sats>>
  <2>1. ~(bitpos_ + W <= total_bits_) /\ error' \in Errors /\ pc' = "done"
    BY <1>2, <1>4, <1>5, <1>13, <1>14, GetEffect
  <2>2. ~Has(MsmEnd(payload))
    <3>1. bitpos_ + W <= CellsAt(payload)
      BY <1>2, <1>3, <1>4, <1>10, <1>14
    <3>. QED
      BY <1>2, <1>4, <1>11, <1>12, <2>1, <3>1 DEF Has
  <2>3. ~Whole
    BY <1>2, <2>2, AllCharted
  <2>. QED
    BY <1>1, <1>14, <2>1, <2>3, MsmFailed
<1>15. CASE i < C /\ Taken(sat_data) /\ i' = i + 1 /\ UNCHANGED <<pc, error>> /\ sats' = Append(sats, rec)
  <2>1. bitpos_' = bitpos_ + W /\ bitpos_ + W <= total_bits_
    BY <1>2, <1>4, <1>5, <1>13, <1>15, GetEffect
  <2>2. sats' \in Seq([whole : Nat, mod : Nat]) /\ Len(sats') = i'
    BY <1>3, <1>8, <1>15, AppendProperties
  <2>3. Loops'
    <3>1. i' <= Cardinality(sat_ids') /\ bitpos_' = SatsAt(payload) + i' * W
      BY <1>1, <1>2, <1>3, <1>4, <1>10, <1>15, <2>1 DEF C
    <3>2. cell_present' = CellsBefore(CellBits(payload))'
      BY <1>1, <1>3 DEF CellsBefore, N
    <3>. QED
      BY <1>1, <1>2, <1>3, <1>9, <1>15, <2>2, <3>1, <3>2 DEF Loops
  <2>4. bitpos_' \in Nat /\ bitpos_' <= total_bits_ /\ i' \in Nat
    BY <1>2, <1>4, <1>15, <2>1
  <2>5. Len(sats') <= Cardinality(sat_ids) /\ Len(cells') <= Cardinality(cell_present')
    <3>1. Len(sats') <= Cardinality(sat_ids)
      BY <1>2, <1>4, <1>15, <2>2 DEF C
    <3>2. Len(cells') = 0 /\ Cardinality(cell_present') \in Nat
      BY <1>1, <1>3, <1>4
    <3>. QED
      BY <3>1, <3>2
  <2>. QED
    BY <1>1, <1>3, <1>15, <2>2, <2>3, <2>4, <2>5, MsmStep DEF IndInv
<1>16. CASE i = C /\ i' = 0 /\ pc' = "cell" /\ UNCHANGED <<bitpos_, sats, error>>
  <2>1. Loops'
    <3>1. bitpos_ = CellsAt(payload)
      BY <1>3, <1>4, <1>16
    <3>2. Cardinality(CellsBefore(i)') = 0
      <4>1. CellsBefore(i)' = {}
        BY <1>16 DEF CellsBefore
      <4>. QED
        BY <4>1, FS_EmptySet
    <3>3. bitpos_' = CellsAt(payload) + Cardinality(CellsBefore(i)') * CellWidth(payload)
      BY <1>4, <1>6, <1>16, <3>1, <3>2, Products
    <3>4. cell_present' = CellsBefore(CellBits(payload))'
      BY <1>1, <1>3 DEF CellsBefore, N
    <3>5. Len(cells') = 0
      BY <1>1, <1>3
    <3>6. i' <= N
      BY <1>4, <1>16
    <3>. QED
      BY <1>1, <1>2, <1>3, <1>9, <1>16, <3>2, <3>3, <3>4, <3>5, <3>6 DEF Loops
  <2>2. bitpos_' \in Nat /\ bitpos_' <= total_bits_ /\ i' \in Nat
    BY <1>2, <1>16
  <2>3. Len(sats') <= Cardinality(sat_ids) /\ Len(cells') <= Cardinality(cell_present')
    <3>1. Len(sats') <= Cardinality(sat_ids)
      BY <1>2, <1>3, <1>4, <1>16 DEF C
    <3>2. Len(cells') = 0 /\ Cardinality(cell_present') \in Nat
      BY <1>1, <1>3, <1>4
    <3>. QED
      BY <3>1, <3>2
  <2>. QED
    BY <1>1, <1>3, <1>16, <2>1, <2>2, <2>3, MsmStep DEF IndInv
<1>. QED
  BY <1>7, <1>14, <1>15, <1>16

\* The data of the cells.
LEMMA CellStep == IndInv /\ CellData => IndInv'
<1>. SUFFICES ASSUME IndInv, CellData PROVE IndInv'
  OBVIOUS
<1>. DEFINE N == CellBits(payload)
            W == CellWidth(payload)
            B(j) == Cardinality(CellsBefore(j))
            rec == [sat_idx |-> CellAt(i).sat_idx, sig_idx |-> CellAt(i).sig_idx,
                    fine |-> bitpos_]
<1>1. /\ pc = "cell"
      /\ UNCHANGED <<payload, last, text, sat_ids, sig_ids, cell_present, sats>>
      /\ payload' = payload /\ sat_ids' = sat_ids /\ sig_ids' = sig_ids
      /\ cell_present' = cell_present /\ sats' = sats
  BY DEF CellData
<1>2. /\ payload \in Seq(0..255) /\ total_bits_ \in Nat /\ bitpos_ \in Nat
      /\ bitpos_ <= total_bits_ /\ Len(payload) >= 2 /\ IsMsm(Type) /\ i \in Nat
      /\ max_cells = N /\ error = "none" /\ sat_ids = Sats(payload)
      /\ sig_ids = Sigs(payload)
  BY <1>1, CursorFacts, MsmFacts
<1>3. /\ i <= N /\ Has(SatsAt(payload)) /\ Has(169)
      /\ bitpos_ = CellsAt(payload) + B(i) * W
      /\ cell_present = CellsBefore(N) /\ Len(cells) = B(i)
      /\ cells \in Seq([sat_idx : Nat, sig_idx : Nat, fine : Nat])
      /\ sats \in Seq([whole : Nat, mod : Nat]) /\ Len(sats) <= Cardinality(sat_ids)
      /\ cell_present \subseteq 0..(max_cells - 1)
  BY <1>1, <1>2 DEF IndInv, Loops, TypeOK
<1>4. /\ N \in Nat /\ CellsAt(payload) \in Nat
      /\ Cardinality(CellSet(payload)) \in Nat /\ Cardinality(CellSet(payload)) = B(N)
      /\ \A j \in 0..N : B(j) <= B(N)
  BY LayoutFacts, CellsBeforeEnd
<1>5. cell_data \in Readings /\ Width(cell_data, Len(cell_data)) = W /\ W \in Nat
  BY <1>2, CellDataFacts
<1>6. \A j \in Nat : B(j) \in Nat
  BY CellsBeforeFacts
<1>7. \/ /\ i < N /\ i \notin cell_present /\ i' = i + 1
         /\ UNCHANGED <<pc, error>> /\ UNCHANGED <<bitpos_, cells>>
      \/ /\ i < N /\ i \in cell_present /\ Taken(cell_data) /\ i' = i + 1
         /\ UNCHANGED <<pc, error>> /\ cells' = Append(cells, rec)
      \/ /\ i < N /\ i \in cell_present /\ Failed(cell_data)
         /\ UNCHANGED <<bitpos_, i, cells>>
      \/ i = N /\ i' = 0 /\ pc' = "report" /\ UNCHANGED <<bitpos_, cells, error>>
  BY <1>2 DEF CellData, CellAbsent, CellPresent, Iterate, NextLoop
<1>8. ASSUME i < N PROVE rec \in [sat_idx : Nat, sig_idx : Nat, fine : Nat]
  <2>. DEFINE n == Cardinality(sig_ids)
  <2>1. n \in Nat /\ Cardinality(sat_ids) \in Nat /\ N = Cardinality(sat_ids) * n
    BY <1>2, LayoutFacts DEF CellBits
  <2>. HIDE DEF N, n
  <2>2. n # 0
    BY <1>2, <1>8, <2>1
  <2>3. i \div n \in Nat /\ i % n \in Nat
    BY <1>2, <2>1, <2>2
  <2>. QED
    BY <1>2, <2>3 DEF CellAt, n
<1>9. B(N) * W \in Nat /\ MsmEnd(payload) = CellsAt(payload) + B(N) * W
  BY <1>4, <1>5, <1>6, Products DEF MsmEnd
<1>10. \A j : CellsBefore(j)' = CellsBefore(j)
  BY <1>1, Frame
<1>. HIDE DEF rec, N, W, B
<1>11. /\ total_bits_' = total_bits_ /\ Type' = Type /\ \A n : Has(n)' <=> Has(n)
       /\ CellBits(payload)' = N /\ SatsAt(payload)' = SatsAt(payload)
       /\ CellsAt(payload)' = CellsAt(payload) /\ MsmEnd(payload)' = MsmEnd(payload)
       /\ CellWidth(payload)' = W
       /\ Sats(payload)' = Sats(payload) /\ Sigs(payload)' = Sigs(payload)
  BY <1>1, Frame DEF N, W
<1>12. cell_present' = CellsBefore(CellBits(payload))'
  BY <1>1, <1>3 DEF CellsBefore, N
<1>13. i < N => (i \in cell_present <=> Bit(payload, 169 + i) = 1)
  BY <1>2, <1>3, <1>4 DEF CellsBefore
<1>14. PICK l \in Nat : cell_data[Len(cell_data)].n = l /\ l <= W
  BY <1>5, LastIsPart
<1>15. ASSUME i < N, i \in cell_present
       PROVE  /\ B(i + 1) = B(i) + 1 /\ B(i + 1) * W = B(i) * W + W
              /\ B(i) * W \in Nat /\ B(i + 1) * W <= B(N) * W
  <2>1. B(i + 1) = B(i) + 1
    BY <1>2, <1>13, <1>15, CellsBeforeFacts DEF B
  <2>2. i + 1 \in 0..N /\ i + 1 \in Nat
    BY <1>2, <1>4, <1>15
  <2>3. B(i) \in Nat /\ B(i + 1) \in Nat /\ B(N) \in Nat /\ B(i + 1) <= B(N)
    BY <1>2, <1>4, <1>6, <2>2
  <2>4. (B(i) + 1) * W = B(i) * W + W /\ B(i) * W \in Nat
    BY <1>5, <2>3, Products
  <2>5. B(i + 1) * W <= B(N) * W
    BY <1>5, <2>3, Products
  <2>. QED
    BY <2>1, <2>4, <2>5
<1>16. ASSUME NEW j \in Nat, j <= N PROVE B(j) <= Cardinality(cell_present)
  <2>1. j \in 0..N
    BY <1>4, <1>16
  <2>. QED
    BY <1>3, <1>4, <2>1 DEF B
<1>17. CASE /\ i < N /\ i \in cell_present /\ Failed(cell_data)
            /\ UNCHANGED <<bitpos_, i, cells>>
  <2>1. ~(bitpos_ + W <= total_bits_) /\ error' \in Errors /\ pc' = "done"
    BY <1>2, <1>5, <1>14, <1>17, GetEffect
  <2>2. ~Has(MsmEnd(payload))
    <3>1. /\ B(i + 1) * W = B(i) * W + W /\ B(i) * W \in Nat
          /\ B(i + 1) * W <= B(N) * W
      BY <1>15, <1>17
    <3>2. bitpos_ = CellsAt(payload) + B(i) * W
      BY <1>3
    <3>3. \A a, b, c, d, w \in Nat : a = b + c /\ c + w <= d /\ ~(a + w <= total_bits_)
                                     => ~(b + d <= total_bits_)
      BY <1>2
    <3>4. B(i) * W + W <= B(N) * W
      BY <3>1
    <3>5. ~(CellsAt(payload) + B(N) * W <= total_bits_)
      BY <1>2, <1>4, <1>5, <1>9, <2>1, <3>1, <3>2, <3>3, <3>4
    <3>. QED
      BY <1>9, <3>5 DEF Has
  <2>3. ~Whole
    BY <1>2, <2>2, AllCharted
  <2>. QED
    BY <1>1, <1>17, <2>1, <2>3, MsmFailed
<1>18. CASE /\ i < N /\ i \in cell_present /\ Taken(cell_data) /\ i' = i + 1
            /\ UNCHANGED <<pc, error>> /\ cells' = Append(cells, rec)
  <2>1. bitpos_' = bitpos_ + W /\ bitpos_ + W <= total_bits_
    BY <1>2, <1>5, <1>14, <1>18, GetEffect
  <2>2. /\ cells' \in Seq([sat_idx : Nat, sig_idx : Nat, fine : Nat])
        /\ Len(cells') = B(i')
    BY <1>2, <1>3, <1>8, <1>15, <1>18, AppendProperties
  <2>3. i' \in Nat /\ i' <= N
    BY <1>2, <1>4, <1>18
  <2>4. bitpos_' = CellsAt(payload) + B(i') * W
    <3>1. B(i') * W = B(i) * W + W /\ B(i) * W \in Nat
      BY <1>15, <1>18
    <3>2. bitpos_' = (CellsAt(payload) + B(i) * W) + W
      BY <1>3, <2>1
    <3>3. \A a, b, w \in Nat : (a + b) + w = a + (b + w)
      OBVIOUS
    <3>. QED
      BY <1>4, <1>5, <3>1, <3>2, <3>3
  <2>5. Loops'
    <3>1. Cardinality(CellsBefore(i)') = B(i')
      BY <1>1 DEF B, CellsBefore
    <3>. QED
      BY <1>1, <1>2, <1>3, <1>11, <1>12, <1>18, <2>2, <2>3, <2>4, <3>1 DEF Loops
  <2>6. bitpos_' \in Nat /\ bitpos_' <= total_bits_
    BY <1>2, <1>5, <2>1
  <2>7. Len(sats') <= Cardinality(sat_ids) /\ Len(cells') <= Cardinality(cell_present')
    BY <1>1, <1>3, <1>16, <2>2, <2>3
  <2>. QED
    BY <1>1, <1>3, <1>18, <2>2, <2>3, <2>5, <2>6, <2>7, MsmStep
<1>19. CASE /\ i < N /\ i \notin cell_present /\ i' = i + 1
            /\ UNCHANGED <<pc, error>> /\ UNCHANGED <<bitpos_, cells>>
  <2>1. B(i') = B(i) /\ i' \in Nat /\ i' <= N
    BY <1>2, <1>4, <1>13, <1>19, CellsBeforeFacts DEF B
  <2>2. Loops'
    <3>1. Cardinality(CellsBefore(i)') = B(i')
      BY <1>1 DEF B, CellsBefore
    <3>. QED
      BY <1>1, <1>2, <1>3, <1>11, <1>12, <1>19, <2>1, <3>1 DEF Loops
  <2>3. Len(sats') <= Cardinality(sat_ids) /\ Len(cells') <= Cardinality(cell_present')
    BY <1>1, <1>3, <1>16, <1>19, <2>1
  <2>. QED
    BY <1>1, <1>2, <1>3, <1>19, <2>1, <2>2, <2>3, MsmStep
<1>20. CASE i = N /\ i' = 0 /\ pc' = "report" /\ UNCHANGED <<bitpos_, cells, error>>
  <2>1. Has(MsmEnd(payload))
    BY <1>2, <1>3, <1>9, <1>20 DEF Has
  <2>2. Loops'
    BY <1>1, <1>2, <1>3, <1>11, <1>20, <2>1 DEF Loops
  <2>3. Len(sats') <= Cardinality(sat_ids) /\ Len(cells') <= Cardinality(cell_present')
    BY <1>1, <1>2, <1>3, <1>16, <1>20
  <2>. QED
    BY <1>1, <1>2, <1>3, <1>20, <2>2, <2>3, MsmStep
<1>. QED
  BY <1>7, <1>17, <1>18, <1>19, <1>20

\* The report.
LEMMA ReportStep == IndInv /\ Report => IndInv'
<1>. SUFFICES ASSUME IndInv, Report PROVE IndInv'
  OBVIOUS
<1>1. /\ pc = "report" /\ pc' = "done" /\ error' = error
      /\ payload' = payload /\ bitpos_' = bitpos_ /\ last' = last /\ text' = text /\ i' = i
      /\ sat_ids' = sat_ids /\ sig_ids' = sig_ids /\ cell_present' = cell_present
      /\ sats' = sats /\ cells' = cells
  BY DEF Report
<1>2. /\ payload \in Seq(0..255) /\ Len(payload) >= 2 /\ IsMsm(Type) /\ error = "none"
      /\ Has(169) /\ Has(SatsAt(payload)) /\ Has(MsmEnd(payload))
  BY <1>1, MsmFacts DEF IndInv, Loops
<1>3. Whole
  BY <1>2, AllCharted
<1>4. total_bits_' = total_bits_ /\ max_cells' = max_cells /\ (Whole' <=> Whole)
  BY <1>1, Frame DEF max_cells
<1>5. TypeOK'
  BY <1>1, <1>4 DEF IndInv, TypeOK
<1>6. ErrorIffTruncated'
  BY <1>1, <1>2, <1>3, <1>4 DEF ErrorIffTruncated
<1>7. Loops'
  BY <1>1 DEF Loops
<1>. QED
  BY <1>1, <1>5, <1>6, <1>7 DEF IndInv

------------------------------------------------------------------------------
(* The theorems. *)

\* The invariant holds at the start.
LEMMA Start == Init => IndInv
<1>. SUFFICES ASSUME Init PROVE IndInv
  OBVIOUS
<1>1. /\ payload \in Payloads /\ pc = "start" /\ bitpos_ = 0 /\ todo = <<>>
      /\ last = 0 /\ text = <<>> /\ i = 0 /\ sat_ids = {} /\ sig_ids = {}
      /\ cell_present = {} /\ sats = <<>> /\ cells = <<>> /\ error = "none"
  BY DEF Init
<1>2. payload \in Seq(0..255) /\ Len(payload) \in Nat
  BY <1>1, PayloadsAssumption, LenProperties
<1>3. bitpos_ \in 0..total_bits_
  BY <1>1, <1>2 DEF total_bits_
<1>4. Len(<<>>) = 0 /\ Cardinality({}) = 0
  BY FS_EmptySet
<1>5. TypeOK
  BY <1>1, <1>2, <1>3, <1>4 DEF TypeOK
<1>. QED
  BY <1>1, <1>5 DEF IndInv, Loops, ErrorIffTruncated

\* A step that changes nothing.
LEMMA Idle == IndInv /\ UNCHANGED vars => IndInv'
<1>. SUFFICES ASSUME IndInv, UNCHANGED vars PROVE IndInv'
  OBVIOUS
<1>1. /\ payload' = payload /\ pc' = pc /\ bitpos_' = bitpos_ /\ todo' = todo
      /\ last' = last /\ text' = text /\ i' = i /\ sat_ids' = sat_ids /\ sig_ids' = sig_ids
      /\ cell_present' = cell_present /\ sats' = sats /\ cells' = cells /\ error' = error
  BY DEF vars, msmVars
<1>2. total_bits_' = total_bits_ /\ max_cells' = max_cells /\ (Whole' <=> Whole)
  BY <1>1, Frame DEF max_cells
<1>3. TypeOK'
  BY <1>1, <1>2 DEF IndInv, TypeOK
<1>4. ErrorIffTruncated'
  BY <1>1, <1>2 DEF IndInv, ErrorIffTruncated
<1>5. Loops'
  BY <1>1, Frame DEF IndInv, Loops, CellsBefore
<1>6. InList => InList'
  BY <1>1, Frame DEF InList, Announcement
<1>7. ASSUME NEW n \in Nat, AtStage(n) PROVE AtStage(n)'
  BY <1>1, <1>7, Reached DEF AtStage, Behind
<1>. QED
  BY <1>1, <1>3, <1>4, <1>5, <1>6, <1>7 DEF IndInv

\* Every step keeps the invariant.
LEMMA Inductive == IndInv /\ [Next]_vars => IndInv'
<1>. SUFFICES ASSUME IndInv, [Next]_vars PROVE IndInv'
  OBVIOUS
<1>1. CASE decode
  BY <1>1, DecodeStep
<1>2. CASE GetFields
  <2>1. pc = "read"
    BY <1>2 DEF GetFields, Stage
  <2>. QED
    BY <1>2, <2>1, GetStep, ListStep DEF IndInv
<1>3. CASE read_ascii
  <2>1. pc = "read" /\ todo # <<>> /\ Head(todo).op = "text"
    BY <1>3 DEF read_ascii, Stage
  <2>2. ~InList
    <3>1. ASSUME InList PROVE Head(todo) = Announcement
      BY <2>1, <3>1, HeadTailProperties DEF InList
    <3>2. Announcement.op = "get"
      BY DEF Announcement
    <3>. QED
      BY <2>1, <3>1, <3>2
  <2>. QED
    BY <1>3, <2>1, <2>2, TextStep DEF IndInv
<1>4. CASE Announcements
  <2>1. pc = "read" /\ todo # <<>> /\ Head(todo).op = "repeat"
    BY <1>4 DEF Announcements, Stage
  <2>2. ~InList
    <3>1. ASSUME InList PROVE Head(todo) = Announcement
      BY <2>1, <3>1, HeadTailProperties DEF InList
    <3>2. Announcement.op = "get"
      BY DEF Announcement
    <3>. QED
      BY <2>1, <3>1, <3>2
  <2>. QED
    BY <1>4, <2>1, <2>2, RepeatStep DEF IndInv
<1>5. CASE EndOfReads
  BY <1>5, EndStep
<1>6. CASE MsmMasks
  BY <1>6, MasksStep
<1>7. CASE CellMaskBit
  BY <1>7, CellMaskStep
<1>8. CASE SatData
  BY <1>8, SatStep
<1>9. CASE CellData
  BY <1>9, CellStep
<1>10. CASE Report
  BY <1>10, ReportStep
<1>11. CASE UNCHANGED vars
  BY <1>11, Idle
<1>. QED
  BY <1>1, <1>2, <1>3, <1>4, <1>5, <1>6, <1>7, <1>8, <1>9, <1>10, <1>11
     DEF Next, Step, Returned

\* BitReader's cursor stays in the payload, and the loops of decode_msm collect
\* no more than the masks announce.
THEOREM TypeCorrect == Spec => []TypeOK
<1>1. IndInv => TypeOK
  BY DEF IndInv
<1>. QED
  BY Start, Inductive, <1>1, PTL DEF Spec

\* decode() reports a message without an error exactly if it is all there,
\* whatever lengths, counts and masks the payload announces.
THEOREM TruncationFound == Spec => []ErrorIffTruncated
<1>1. IndInv => ErrorIffTruncated
  BY DEF IndInv
<1>. QED
  BY Start, Inductive, <1>1, PTL DEF Spec

\* The names of type_name() and the parsers of decode() are of the same types.
LEMMA SameTypes ==
    ASSUME NEW t \in Nat
    PROVE  /\ t \in Named <=> Stages(t) # <<>>
           /\ IsMsm(t) => constellation_code(t) # "?"
<1>1. \A st, s : <<st>> # <<>> /\ (<<st>> \o <<s>>) # <<>>
  BY Joined
<1>2. t \in {10 * c + l : c \in 107..112, l \in 4..7} <=> IsMsm(t)
  <2>1. ASSUME NEW c \in 107..112, NEW l \in 4..7, t = 10 * c + l PROVE IsMsm(t)
    <3>1. t \in 1071..1127 /\ t % 10 = l
      BY <2>1
    <3>. QED
      BY <3>1 DEF IsMsm
  <2>2. ASSUME IsMsm(t) PROVE \E c \in 107..112, l \in 4..7 : t = 10 * c + l
    <3>1. t \in 1071..1127 /\ t % 10 \in 4..7
      BY <2>2 DEF IsMsm
    <3>2. t \div 10 \in 107..112 /\ t = 10 * (t \div 10) + (t % 10)
      BY <3>1
    <3>. QED
      BY <3>1, <3>2
  <2>. QED
    BY <2>1, <2>2
<1>3. IsMsm(t) => constellation_code(t) # "?"
  BY DEF IsMsm, constellation_code
<1>4. CASE IsMsm(t)
  <2>1. Stages(t) = msm_header
    BY <1>4 DEF IsMsm, Stages
  <2>2. msm_header # <<>>
    BY <1>1 DEF msm_header
  <2>3. t \in Named
    BY <1>2, <1>4 DEF Named
  <2>. QED
    BY <1>3, <2>1, <2>2, <2>3
<1>5. CASE t \in {1005, 1006, 1007, 1008, 1013, 1019, 1020, 1033, 1045, 1046, 1230}
  <2>1. t \in Named
    BY <1>5 DEF Named
  <2>2. Stages(t) # <<>>
    <3>1. \A a : <<a>> # <<>>
      OBVIOUS
    <3>2. \A a, b : <<a, b>> # <<>>
      OBVIOUS
    <3>3. \A a, b, c : <<a, b, c>> # <<>>
      OBVIOUS
    <3>4. \A a, b, c, d, e : <<a, b, c, d, e>> # <<>>
      OBVIOUS
    <3>5. \A a, b, c, d, e, f, g, h, j, k : <<a, b, c, d, e, f, g, h, j, k>> # <<>>
      OBVIOUS
    <3>6. /\ Stages(1005) # <<>> /\ Stages(1006) # <<>> /\ Stages(1007) # <<>>
          /\ Stages(1008) # <<>>
      <4>1. Stages(1005) # <<>>
        <5>1. \E a : Stages(1005) = <<a>>
          BY Scripts
        <5>. QED
          BY <3>1, <5>1
      <4>2. Stages(1006) # <<>>
        <5>1. \E a, b : Stages(1006) = <<a, b>>
          BY Scripts
        <5>. QED
          BY <3>2, <5>1
      <4>3. Stages(1007) # <<>>
        <5>1. \E a, b, c : Stages(1007) = <<a, b, c>>
          BY Scripts
        <5>. QED
          BY <3>3, <5>1
      <4>4. Stages(1008) # <<>>
        <5>1. \E a, b, c, d, e : Stages(1008) = <<a, b, c, d, e>>
          BY Scripts
        <5>. QED
          BY <3>4, <5>1
      <4>. QED
        BY <4>1, <4>2, <4>3, <4>4
    <3>7. decode_1033 # <<>> /\ decode_1013 # <<>>
      BY <3>2, <3>5 DEF decode_1033, decode_1013
    <3>8. /\ decode_1019 # <<>> /\ decode_1020 # <<>> /\ decode_1045_1046 # <<>>
          /\ decode_1230 # <<>>
      BY <3>1 DEF decode_1019, decode_1020, decode_1045_1046, decode_1230
    <3>9. /\ Stages(1033) # <<>> /\ Stages(1013) # <<>> /\ Stages(1019) # <<>>
          /\ Stages(1020) # <<>> /\ Stages(1045) # <<>> /\ Stages(1046) # <<>>
          /\ Stages(1230) # <<>>
      BY <3>7, <3>8, Scripts
    <3>. QED
      BY <1>5, <3>6, <3>9
  <2>. QED
    BY <1>3, <2>1, <2>2
<1>6. CASE /\ t \notin {1005, 1006, 1007, 1008, 1013, 1019, 1020, 1033, 1045, 1046, 1230}
           /\ ~IsMsm(t)
  <2>1. t \notin Named
    BY <1>2, <1>6 DEF Named
  <2>2. Stages(t) = <<>>
    BY <1>6 DEF Stages
  <2>. QED
    BY <1>6, <2>1, <2>2
<1>. QED
  BY <1>4, <1>5, <1>6

\* type_name() and decode() agree on the types, and constellation_code() knows
\* the system of every MSM that is decoded.
THEOREM NamesCorrect == Spec => []NamedIffParsed
<1>1. IndInv => NamedIffParsed
  <2>. SUFFICES ASSUME IndInv, Len(payload) >= 2 PROVE NamedIffParsed
    BY DEF NamedIffParsed
  <2>1. Type \in Nat
    BY CursorFacts, TypeFacts
  <2>. QED
    BY <2>1, SameTypes DEF NamedIffParsed
<1>. QED
  BY Start, Inductive, <1>1, PTL DEF Spec

------------------------------------------------------------------------------
(* The elements of a finite set of numbers, in their order. *)

\* How many elements of S are smaller than x.
Rank(S, x) == Cardinality({y \in S : y < x})

\* Ranks are numbers, and grow with the elements.
LEMMA RankFacts ==
    ASSUME NEW S, S \subseteq Nat, IsFiniteSet(S)
    PROVE  /\ \A x \in Nat : /\ Rank(S, x) \in Nat /\ IsFiniteSet({y \in S : y < x})
                             /\ Rank(S, x) <= Cardinality(S)
           /\ \A x \in S, y \in Nat : x < y => Rank(S, x) + 1 <= Rank(S, y)
<1>1. ASSUME NEW x \in Nat
      PROVE  /\ Rank(S, x) \in Nat /\ IsFiniteSet({y \in S : y < x})
             /\ Rank(S, x) <= Cardinality(S)
  <2>1. {y \in S : y < x} \subseteq S
    OBVIOUS
  <2>. QED
    BY <2>1, FS_Subset, FS_CardinalityType DEF Rank
<1>2. ASSUME NEW x \in S, NEW y \in Nat, x < y PROVE Rank(S, x) + 1 <= Rank(S, y)
  <2>. DEFINE A == {z \in S : z < x}
              B == {z \in S : z < y}
  <2>1. IsFiniteSet(A) /\ IsFiniteSet(B) /\ x \in Nat
    BY <1>1
  <2>2. x \notin A /\ A \cup {x} \subseteq B
    <3>1. \A z \in S : z \in Nat
      OBVIOUS
    <3>2. \A z \in S : z < x => z < y
      BY <1>2, <2>1, <3>1
    <3>3. ~(x < x)
      BY <2>1
    <3>. QED
      BY <1>2, <3>2, <3>3, Zenon
  <2>. HIDE DEF A, B
  <2>3. Cardinality(A \cup {x}) = Cardinality(A) + 1
    BY <2>1, <2>2, FS_AddElement
  <2>4. Cardinality(A \cup {x}) <= Cardinality(B)
    BY <2>1, <2>2, FS_Subset
  <2>. QED
    BY <2>3, <2>4 DEF Rank, A, B
<1>. QED
  BY <1>1, <1>2

\* There is an element of every rank below the size of the set.
LEMMA RankExists ==
    ASSUME NEW S, S \subseteq Nat, IsFiniteSet(S), NEW n \in Nat, n < Cardinality(S)
    PROVE  \E x \in S : Rank(S, x) = n
<1>. DEFINE Bad == {k \in Nat : k < Cardinality(S) /\ ~\E x \in S : Rank(S, x) = k}
<1>1. SUFFICES ASSUME Bad # {} PROVE FALSE
  OBVIOUS
<1>2. PICK k \in Bad : \A j \in Bad : k <= j
  <2>1. Bad \subseteq Nat
    OBVIOUS
  <2>. QED
    BY <1>1, <2>1, Least
<1>3. k \in Nat /\ k < Cardinality(S) /\ ~\E x \in S : Rank(S, x) = k
  OBVIOUS
<1>4. Cardinality(S) \in Nat
  BY FS_CardinalityType
<1>5. CASE k = 0
  <2>1. S # {}
    BY <1>3, <1>5, FS_EmptySet
  <2>2. PICK x \in S : \A y \in S : x <= y
    BY <2>1, Least
  <2>3. {y \in S : y < x} = {}
    <3>1. \A y \in S : y \in Nat /\ x \in Nat
      OBVIOUS
    <3>2. \A y \in S : ~(y < x)
      BY <2>2, <3>1
    <3>. QED
      BY <3>2, Zenon
  <2>4. Rank(S, x) = 0
    BY <2>3, FS_EmptySet DEF Rank
  <2>. QED
    BY <1>3, <1>5, <2>4
<1>6. CASE k # 0
  <2>1. k - 1 \in Nat /\ k - 1 \notin Bad /\ k - 1 < Cardinality(S)
    BY <1>2, <1>3, <1>4, <1>6
  <2>2. PICK x \in S : Rank(S, x) = k - 1
    BY <2>1
  <2>. DEFINE A == {z \in S : z < x}
              T == {y \in S : x < y}
  <2>. HIDE DEF A, T
  <2>0. x \in Nat /\ \A z \in S : z \in Nat
    OBVIOUS
  <2>3. IsFiniteSet(A) /\ x \notin A /\ Cardinality(A) = k - 1
    <3>1. ~(x < x)
      BY <2>0
    <3>2. IsFiniteSet(A)
      BY <2>0, RankFacts, Zenon DEF A
    <3>. QED
      BY <2>2, <3>1, <3>2, Zenon DEF Rank, A
  <2>4. Cardinality(A \cup {x}) = k
    <3>1. Cardinality(A \cup {x}) = Cardinality(A) + 1
      BY <2>3, FS_AddElement
    <3>. QED
      BY <1>3, <2>3, <3>1
  <2>5. T # {}
    <3>1. ASSUME T = {} PROVE FALSE
      <4>1. \A z \in S : z < x \/ z = x
        BY <2>0, <3>1 DEF T
      <4>2. S = A \cup {x}
        BY <4>1, Zenon DEF A
      <4>. QED
        BY <1>3, <1>4, <2>4, <4>2
    <3>. QED
      BY <3>1
  <2>6. PICK y \in T : \A z \in T : y <= z
    <3>1. T \subseteq Nat
      BY DEF T
    <3>. QED
      BY <2>5, <3>1, Least
  <2>7. {z \in S : z < y} = A \cup {x}
    <3>1. y \in S /\ x < y /\ y \in Nat
      BY <2>0 DEF T
    <3>2. \A z \in S : z < y => z < x \/ z = x
      BY <2>0, <2>6, <3>1 DEF T
    <3>3. \A z \in S : z < x => z < y
      BY <2>0, <3>1
    <3>. QED
      BY <3>1, <3>2, <3>3, Zenon DEF A
  <2>8. Rank(S, y) = k /\ y \in S
    BY <2>4, <2>7 DEF Rank, T
  <2>. QED
    BY <1>3, <2>8
<1>. QED
  BY <1>5, <1>6

\* Nth finds the element of a rank, and there is but one.
LEMMA NthFacts ==
    ASSUME NEW S, S \subseteq Nat, IsFiniteSet(S)
    PROVE  /\ \A x \in S : Nth(S, Rank(S, x)) = x
           /\ \A n \in Nat : n < Cardinality(S) =>
                Nth(S, n) \in S /\ Rank(S, Nth(S, n)) = n
<1>1. ASSUME NEW x \in S, NEW y \in S, Rank(S, x) = Rank(S, y) PROVE x = y
  <2>1. x \in Nat /\ y \in Nat /\ Rank(S, x) \in Nat
    BY RankFacts
  <2>2. /\ x < y => Rank(S, x) + 1 <= Rank(S, y)
        /\ y < x => Rank(S, y) + 1 <= Rank(S, x)
    BY <2>1, RankFacts, Zenon
  <2>3. ~(x < y) /\ ~(y < x)
    BY <1>1, <2>1, <2>2
  <2>. QED
    BY <2>1, <2>3
<1>2. \A n : Nth(S, n) = CHOOSE x \in S : Rank(S, x) = n
  BY DEF Nth, Rank
<1>3. ASSUME NEW x \in S PROVE Nth(S, Rank(S, x)) = x
  BY <1>1, <1>2, Zenon
<1>4. ASSUME NEW n \in Nat, n < Cardinality(S)
      PROVE  Nth(S, n) \in S /\ Rank(S, Nth(S, n)) = n
  BY <1>2, <1>4, RankExists, Zenon
<1>. QED
  BY <1>3, <1>4

------------------------------------------------------------------------------
(* The markers of a missing value. *)

\* t are the values of the first bits of a number, and w its n bits.
Binary(t, w, n) ==
    /\ t[0] = 0 /\ \A m \in 0..n : t[m] \in Nat
    /\ \A m \in 1..n : w[m - 1] \in {0, 1} /\ t[m] = 2 * t[m - 1] + w[m - 1]

\* A field has a value exactly if it has the bits of that value.
LEMMA SameBits ==
    ASSUME NEW p \in Seq(0..255), NEW k \in Nat, NEW n \in Nat, k + n <= 8 * Len(p),
           NEW t, NEW w, Binary(t, w, n)
    PROVE  Value(p, k, n) = t[n] <=> \A j \in 0..(n - 1) : Bit(p, k + j) = w[j]
<1>0. PICK f : Digits(p, k, n, f)
  BY ValueFollows
<1>1. /\ Value(p, k, n) = f[n] /\ f[0] = 0
      /\ \A m \in 1..n : f[m] = 2 * f[m - 1] + Bit(p, k + m - 1)
      /\ t[0] = 0
  BY <1>0, Zenon DEF Digits, Binary
<1>. DEFINE Same(m) == f[m] = t[m] <=> \A j \in 0..(m - 1) : Bit(p, k + j) = w[j]
            Bad == {m \in 0..n : ~(f[m] \in Nat /\ Same(m))}
<1>2. SUFFICES ASSUME Bad # {} PROVE FALSE
  <2>1. n \in 0..n /\ n \notin Bad
    BY <1>2
  <2>. QED
    BY <1>1, <2>1
<1>3. PICK m \in Bad : \A y \in Bad : m <= y
  <2>1. Bad \subseteq Nat
    OBVIOUS
  <2>. QED
    BY <1>2, <2>1, Least
<1>4. m \in 0..n /\ ~(f[m] \in Nat /\ Same(m))
  OBVIOUS
<1>5. m # 0
  <2>1. Same(0) /\ f[0] \in Nat
    BY <1>1
  <2>. QED
    BY <1>4, <2>1
<1>6. m \in 1..n /\ m - 1 \in 0..n /\ m - 1 \notin Bad
  <2>1. m - 1 \in 0..n /\ ~(m <= m - 1)
    BY <1>4, <1>5
  <2>. QED
    BY <1>3, <1>4, <1>5, <2>1
<1>7. f[m - 1] \in Nat /\ Same(m - 1)
  BY <1>6
<1>. HIDE DEF Same, Bad
<1>8. Bit(p, k + (m - 1)) \in {0, 1}
  <2>1. Len(p) \in Nat /\ k + (m - 1) \in Nat /\ k + (m - 1) < 8 * Len(p)
    BY <1>6, LenProperties
  <2>. QED
    BY <2>1, BitFacts
<1>9. f[m] = 2 * f[m - 1] + Bit(p, k + (m - 1))
  <2>1. k + m - 1 = k + (m - 1)
    BY <1>6
  <2>. QED
    BY <1>1, <1>6, <2>1
<1>10. w[m - 1] \in {0, 1} /\ t[m] = 2 * t[m - 1] + w[m - 1] /\ t[m - 1] \in Nat
  BY <1>6, Zenon DEF Binary
<1>11. f[m] \in Nat /\ (f[m] = t[m] <=> f[m - 1] = t[m - 1] /\ Bit(p, k + (m - 1)) = w[m - 1])
  <2>. DEFINE a == f[m - 1]
              b == t[m - 1]
              c == Bit(p, k + (m - 1))
              d == w[m - 1]
  <2>1. a \in Nat /\ b \in Nat /\ c \in {0, 1} /\ d \in {0, 1}
    BY <1>7, <1>8, <1>10
  <2>2. f[m] = 2 * a + c /\ t[m] = 2 * b + d
    BY <1>9, <1>10
  <2>. HIDE DEF a, b, c, d
  <2>3. f[m] \in Nat /\ (f[m] = t[m] <=> a = b /\ c = d)
    BY <2>1, <2>2
  <2>. QED
    BY <2>3 DEF a, b, c, d
<1>12. \A j : j \in 0..(m - 1) <=> j \in 0..((m - 1) - 1) \/ j = m - 1
  BY <1>6
<1>13. Same(m)
  BY <1>7, <1>11, <1>12, Zenon DEF Same
<1>. QED
  BY <1>4, <1>11, <1>13

\* Eight bits are 255 exactly if no bit is 0.
LEMMA AllOnes ==
    ASSUME NEW p \in Seq(0..255), NEW k \in Nat, k + 8 <= 8 * Len(p)
    PROVE  Value(p, k, 8) # 255 <=> \E m \in 0..7 : Bit(p, k + m) = 0
<1>. DEFINE t == [m \in 0..8 |-> 2^m - 1]
            w == [j \in 0..7 |-> 1]
<1>1. /\ t[0] = 0 /\ t[1] = 1 /\ t[2] = 3 /\ t[3] = 7 /\ t[4] = 15
      /\ t[5] = 31 /\ t[6] = 63 /\ t[7] = 127 /\ t[8] = 255
  OBVIOUS
<1>2. \A m \in 1..8 : m - 1 \in 0..7
  OBVIOUS
<1>3. \A j \in 0..7 : w[j] = 1
  OBVIOUS
<1>. HIDE DEF t, w
<1>4. \A m \in 0..8 : t[m] \in Nat
  <2>. TAKE m \in 0..8
  <2>1. m = 0 \/ m = 1 \/ m = 2 \/ m = 3 \/ m = 4 \/ m = 5 \/ m = 6 \/ m = 7 \/ m = 8
    OBVIOUS
  <2>2. /\ t[0] \in Nat /\ t[1] \in Nat /\ t[2] \in Nat /\ t[3] \in Nat /\ t[4] \in Nat
        /\ t[5] \in Nat /\ t[6] \in Nat /\ t[7] \in Nat /\ t[8] \in Nat
    BY <1>1
  <2>. QED
    BY <2>1, <2>2, Zenon
<1>5. \A m \in 1..8 : t[m] = 2 * t[m - 1] + 1
  <2>. TAKE m \in 1..8
  <2>1. CASE m \in 1..4
    BY <1>1, <2>1
  <2>2. CASE m \in 5..8
    BY <1>1, <2>2
  <2>. QED
    BY <2>1, <2>2
<1>6. \A m \in 1..8 : w[m - 1] \in {0, 1} /\ t[m] = 2 * t[m - 1] + w[m - 1]
  BY <1>2, <1>3, <1>5
<1>7. Value(p, k, 8) = t[8] <=> \A j \in 0..(8 - 1) : Bit(p, k + j) = w[j]
  <2>1. 8 \in Nat
    OBVIOUS
  <2>2. Binary(t, w, 8)
    BY <1>1, <1>4, <1>6, Zenon DEF Binary
  <2>3. \A n \in Nat : k + n <= 8 * Len(p) /\ Binary(t, w, n)
             => (Value(p, k, n) = t[n] <=> \A j \in 0..(n - 1) : Bit(p, k + j) = w[j])
    BY SameBits
  <2>. QED
    BY <2>1, <2>2, <2>3, Zenon
<1>8. \A j \in 0..7 : Bit(p, k + j) \in {0, 1}
  <2>1. \A j \in 0..7 : k + j \in Nat /\ k + j < 8 * Len(p)
    BY LenProperties
  <2>. QED
    BY <2>1, BitFacts
<1>9. 8 - 1 = 7
  OBVIOUS
<1>10. Value(p, k, 8) = 255 <=> \A j \in 0..7 : Bit(p, k + j) = 1
  <2>1. \A j \in 0..7 : Bit(p, k + j) = w[j] <=> Bit(p, k + j) = 1
    BY <1>3, Zenon
  <2>2. Value(p, k, 8) = 255 <=> \A j \in 0..7 : Bit(p, k + j) = w[j]
    BY <1>1, <1>7, <1>9
  <2>. QED
    BY <2>1, <2>2
<1>. QED
  BY <1>8, <1>10

\* Powers of two.
LEMMA Doubles == \A m \in 1..23 : 2^m = 2 * 2^(m - 1) /\ 2^m \in Nat /\ 2^(m - 1) \in Nat
<1>. DEFINE P(k) == 2^k
<1>1. /\ P(0) = 1 /\ P(1) = 2 /\ P(2) = 4 /\ P(3) = 8 /\ P(4) = 16 /\ P(5) = 32
      /\ P(6) = 64 /\ P(7) = 128 /\ P(8) = 256 /\ P(9) = 512 /\ P(10) = 1024
      /\ P(11) = 2048 /\ P(12) = 4096 /\ P(13) = 8192 /\ P(14) = 16384
      /\ P(15) = 32768 /\ P(16) = 65536 /\ P(17) = 131072 /\ P(18) = 262144
      /\ P(19) = 524288 /\ P(20) = 1048576 /\ P(21) = 2097152 /\ P(22) = 4194304
      /\ P(23) = 8388608
  OBVIOUS
<1>. HIDE DEF P
<1>2. \A m \in 1..23 : P(m) = 2 * P(m - 1) /\ P(m) \in Nat /\ P(m - 1) \in Nat
  BY <1>1
<1>. QED
  BY <1>2, Zenon DEF P

\* The smallest number of n bits with a sign is a one and zeros.
LEMMA OneAndZeros ==
    ASSUME NEW p \in Seq(0..255), NEW k \in Nat, NEW n \in 1..24, k + n <= 8 * Len(p)
    PROVE  Value(p, k, n) = 2^(n - 1)
             <=> \A m \in 0..(n - 1) : (Bit(p, k + m) = 1) <=> (m = 0)
<1>. DEFINE t == [m \in 0..24 |-> IF m = 0 THEN 0 ELSE 2^(m - 1)]
            w == [j \in 0..23 |-> IF j = 0 THEN 1 ELSE 0]
<1>0. t[n] = 2^(n - 1)
  <2>1. n \in 0..24 /\ n # 0
    OBVIOUS
  <2>. QED
    BY <2>1, Zenon
<1>1. t[0] = 0 /\ \A m \in 1..24 : t[m] = 2^(m - 1)
  OBVIOUS
<1>2. \A j \in 0..23 : w[j] = IF j = 0 THEN 1 ELSE 0
  OBVIOUS
<1>. HIDE DEF t, w
<1>3. \A m \in 0..24 : t[m] \in Nat
  <2>. TAKE m \in 0..24
  <2>1. CASE m = 0
    <3>1. t[0] = 0 /\ 0 \in Nat
      BY <1>1, Zenon
    <3>. QED
      BY <2>1, <3>1, Zenon
  <2>2. CASE m # 0
    <3>. DEFINE h == m - 1
    <3>1. h \in 0..23 /\ m \in 1..24
      BY <2>2
    <3>2. t[m] = 2^h
      BY <1>1, <3>1
    <3>. HIDE DEF h
    <3>3. 2^h \in Nat
      <4>1. h = 0 \/ h \in 1..23
        BY <3>1
      <4>2. 2^0 \in Nat
        OBVIOUS
      <4>. QED
        BY <4>1, <4>2, Doubles, Zenon
    <3>. QED
      BY <3>2, <3>3
  <2>. QED
    BY <2>1, <2>2
<1>4. \A m \in 1..24 : t[m] = 2 * t[m - 1] + (IF m = 1 THEN 1 ELSE 0)
  <2>. TAKE m \in 1..24
  <2>1. CASE m = 1
    <3>1. 2^0 = 1 /\ 1 - 1 = 0 /\ 2 * 0 + 1 = 1
      OBVIOUS
    <3>. QED
      BY <1>1, <2>1, <3>1
  <2>2. CASE m # 1
    <3>. DEFINE h == m - 1
    <3>1. h \in 1..23 /\ h \in 1..24
      BY <2>2
    <3>. HIDE DEF h
    <3>2. 2^h = 2 * 2^(h - 1) /\ 2^h \in Nat
      BY <3>1, Doubles
    <3>3. t[h] = 2^(h - 1)
      BY <1>1, <3>1
    <3>4. t[m] = 2^h
      BY <1>1 DEF h
    <3>. QED
      BY <2>2, <3>2, <3>3, <3>4 DEF h
  <2>. QED
    BY <2>1, <2>2
<1>5. \A m \in 1..24 : w[m - 1] = IF m = 1 THEN 1 ELSE 0
  <2>. TAKE m \in 1..24
  <2>1. m - 1 \in 0..23 /\ (m - 1 = 0 <=> m = 1)
    OBVIOUS
  <2>2. w[m - 1] = IF m - 1 = 0 THEN 1 ELSE 0
    BY <1>2, <2>1, Zenon
  <2>. QED
    BY <2>1, <2>2
<1>6. \A m \in 1..24 : w[m - 1] \in {0, 1} /\ t[m] = 2 * t[m - 1] + w[m - 1]
  BY <1>4, <1>5
<1>7. n \in Nat /\ (\A m \in 0..n : m \in 0..24) /\ (\A m \in 1..n : m \in 1..24)
  OBVIOUS
<1>8. Value(p, k, n) = t[n] <=> \A j \in 0..(n - 1) : Bit(p, k + j) = w[j]
  <2>1. Binary(t, w, n)
    <3>1. (\A m \in 0..n : t[m] \in Nat) /\ t[0] = 0
      BY <1>1, <1>3, <1>7, Zenon
    <3>2. \A m \in 1..n : w[m - 1] \in {0, 1} /\ t[m] = 2 * t[m - 1] + w[m - 1]
      BY <1>6, <1>7, Zenon
    <3>. QED
      BY <3>1, <3>2, Zenon DEF Binary
  <2>. QED
    BY <1>7, <2>1, SameBits
<1>9. \A j \in 0..(n - 1) : Bit(p, k + j) \in {0, 1}
  <2>1. \A j \in 0..(n - 1) : k + j \in Nat /\ k + j < 8 * Len(p)
    BY LenProperties
  <2>. QED
    BY <2>1, BitFacts
<1>10. \A j \in 0..(n - 1) : Bit(p, k + j) = w[j] <=> (Bit(p, k + j) = 1 <=> j = 0)
  <2>1. \A j \in 0..(n - 1) : j \in 0..23
    OBVIOUS
  <2>. TAKE j \in 0..(n - 1)
  <2>2. w[j] = IF j = 0 THEN 1 ELSE 0
    BY <1>2, <2>1, Zenon
  <2>3. Bit(p, k + j) \in {0, 1}
    BY <1>9, Zenon
  <2>4. CASE j = 0
    BY <2>2, <2>3, <2>4
  <2>5. CASE j # 0
    BY <2>2, <2>3, <2>5
  <2>. QED
    BY <2>4, <2>5
<1>. QED
  BY <1>0, <1>8, <1>10, Zenon

------------------------------------------------------------------------------
(* Rows and columns of a table whose places are numbered row by row. *)

\* A number in a table of rows of g columns.
LEMMA Parts ==
    \A a, g \in Nat : g > 0 =>
      /\ a \div g \in Nat /\ a % g \in Nat /\ a % g < g
      /\ a = g * (a \div g) + (a % g)
  OBVIOUS

\* A product grows with its second factor.
LEMMA Mono == \A x, y, z \in Nat : x <= y => z * x <= z * y
  OBVIOUS

\* One column more.
LEMMA Prod == \A x, y \in Nat : x * y \in Nat /\ x * (y + 1) = x * y + x
  OBVIOUS

\* A number within the table is in one of its rows.
LEMMA Row ==
    ASSUME NEW a \in Nat, NEW g \in Nat, NEW s \in Nat, a < s * g
    PROVE  g > 0 /\ a \div g < s
<1>1. g > 0
  <2>1. g = 0 => s * g = 0
    OBVIOUS
  <2>. QED
    BY <2>1
<1>. DEFINE q == a \div g
<1>2. q \in Nat /\ a % g \in Nat /\ a = g * q + (a % g)
  BY <1>1, Parts
<1>. HIDE DEF q
<1>3. ASSUME s <= q PROVE FALSE
  <2>1. g * s <= g * q /\ g * s = s * g /\ g * q \in Nat /\ s * g \in Nat
    BY <1>2, <1>3, Mono, Prod
  <2>. QED
    BY <1>2, <2>1
<1>. QED
  BY <1>1, <1>2, <1>3 DEF q

\* A larger number is in the same row or a later one.
LEMMA Rows ==
    ASSUME NEW a \in Nat, NEW b \in Nat, NEW g \in Nat, g > 0, a <= b
    PROVE  a \div g <= b \div g
<1>. DEFINE q == a \div g
            r == b \div g
<1>2. /\ q \in Nat /\ a % g \in Nat /\ a = g * q + (a % g)
      /\ r \in Nat /\ b % g \in Nat /\ b = g * r + (b % g) /\ b % g < g
  BY Parts
<1>. HIDE DEF q, r
<1>3. ASSUME r + 1 <= q PROVE FALSE
  <2>1. g * (r + 1) <= g * q /\ g * (r + 1) = g * r + g /\ g * q \in Nat /\ g * r \in Nat
    BY <1>2, <1>3, Mono, Prod
  <2>. QED
    BY <1>2, <2>1
<1>. QED
  BY <1>2, <1>3 DEF q, r

------------------------------------------------------------------------------
(* What the loops of decode_msm collect. *)

\* The fields of satellite k, the first being 1.
SatFields(k) ==
    LET at == SatsAt(payload) + (k - 1) * SatWidth(payload)
    IN  [whole |-> at, mod |-> at + IF SatWidth(payload) = 36 THEN 12 ELSE 8]

\* The fields of cell c, the k-th of the mask.
CellFields(c, k) ==
    [sat_idx |-> c \div Cardinality(Sigs(payload)),
     sig_idx |-> c % Cardinality(Sigs(payload)),
     fine    |-> CellsAt(payload) + (k - 1) * CellWidth(payload)]

\* cells are those of the first j bits of the mask.
CellsUpTo(j) ==
    /\ Len(cells) = Cardinality(CellsBefore(j))
    /\ \A k \in 1..Len(cells) :
         \E c \in CellsBefore(j) : /\ Cardinality(CellsBefore(c)) + 1 = k
                                   /\ cells[k] = CellFields(c, k)

Collected ==
    /\ pc # "done" => lines = <<>>
    /\ pc \in {"sat", "cell", "report"} =>
         \A k \in 1..Len(sats) : sats[k] = SatFields(k)
    /\ pc \in {"cell", "report"} => Len(sats) = Cardinality(sat_ids)
    /\ pc = "cell" => CellsUpTo(i)
    /\ pc = "report" => CellsUpTo(CellBits(payload))
    /\ pc = "done" => ReportExact

\* A payload that stays has the same layout.
LEMMA LayoutKept ==
    ASSUME payload' = payload
    PROVE  /\ \A k : SatFields(k)' = SatFields(k)
           /\ \A c, k : CellFields(c, k)' = CellFields(c, k)
           /\ \A j : CellsBefore(j)' = CellsBefore(j)
           /\ CellBits(payload)' = CellBits(payload)
<1>1. \A k : SatFields(k)' = SatFields(k)
  BY DEF SatFields
<1>2. \A c, k : CellFields(c, k)' = CellFields(c, k)
  BY DEF CellFields
<1>3. \A j : CellsBefore(j)' = CellsBefore(j)
  BY DEF CellsBefore
<1>4. CellBits(payload)' = CellBits(payload)
  BY DEF CellBits
<1>. QED
  BY <1>1, <1>2, <1>3, <1>4

\* A message that is not an MSM, or has failed, has an empty report.
LEMMA NothingReported ==
    ASSUME lines' = <<>>, pc' = "done", error' # "none" \/ ~IsMsm(Type)'
    PROVE  Collected'
<1>1. LinesAsMasked'
  BY DEF LinesAsMasked
<1>2. DOMAIN lines' = {}
  OBVIOUS
<1>3. OneHeadingPerSatellite'
  BY <1>2 DEF OneHeadingPerSatellite
<1>. QED
  BY <1>1, <1>3 DEF Collected, ReportExact

\* A failed read leaves an error.
LEMMA FailureFacts ==
    ASSUME IndInv, NEW r \in Readings, Failed(r)
    PROVE  error' # "none" /\ pc' = "done"
<1>1. r[FirstMissing(r)].err \in Errors
  BY CursorFacts, MissingFacts DEF Failed
<1>2. "none" \notin Errors
  BY DEF Errors
<1>. QED
  BY <1>1, <1>2 DEF Failed

\* The stages have reads.
LEMMA StageReadings ==
    ASSUME IndInv, Stage("get")
    PROVE  Head(todo).reads \in Readings
<1>1. pc = "read" /\ todo # <<>> /\ Head(todo).op = "get"
  BY DEF Stage
<1>2. payload \in Seq(0..255) /\ Len(payload) >= 2
  BY <1>1, CursorFacts DEF IndInv
<1>3. CASE InList
  <2>1. Head(todo) = Announcement
    BY <1>1, <1>3, HeadTailProperties DEF InList
  <2>2. Announcement.reads \in Readings
    <3>1. <<12, 1, 16>> \in Seq(Nat) /\ <<12, 1, 16>> # <<>>
          /\ "truncated_1013_announcements" \in Errors
      BY DEF Errors
    <3>. QED
      BY <3>1, ReadsFacts DEF Announcement
  <2>. QED
    BY <2>1, <2>2
<1>4. CASE \E n \in Nat : AtStage(n)
  <2>1. PICK n \in Nat : AtStage(n)
    BY <1>4
  <2>2. Head(todo) = Script[n + 1] /\ Script[n + 1] \in StageOf
    BY <1>1, <1>2, <2>1, StageKinds
  <2>3. Text.op # "get"
    BY DEF Text
  <2>. QED
    BY <1>1, <2>2, <2>3 DEF StageOf
<1>. QED
  BY <1>1, <1>3, <1>4 DEF IndInv

\* Up to the masks nothing is collected.
LEMMA CollectedRead ==
    ASSUME IndInv, Collected,
           decode \/ GetFields \/ read_ascii \/ Announcements \/ EndOfReads \/ MsmMasks
    PROVE  Collected'
<1>1. lines' = lines /\ lines = <<>>
  BY DEF decode, GetFields, read_ascii, Announcements, EndOfReads, MsmMasks, Stage,
         msmVars, Collected
<1>2. \/ pc' \in {"start", "read", "cell_mask"}
      \/ pc' = "done" /\ (error' # "none" \/ ~IsMsm(Type)')
  <2>1. CASE decode
    BY <2>1 DEF decode
  <2>2. CASE GetFields
    <3>1. Stage("get") /\ pc = "read" /\ Head(todo).reads \in Readings
      BY <2>2, StageReadings DEF GetFields, Stage
    <3>2. pc' = pc \/ Failed(Head(todo).reads)
      BY <2>2 DEF GetFields
    <3>. QED
      BY <3>1, <3>2, FailureFacts
  <2>3. CASE read_ascii \/ Announcements
    BY <2>3 DEF read_ascii, Announcements, Stage
  <2>4. CASE EndOfReads
    <3>1. pc' = "done" /\ ~IsMsm(Type) /\ payload' = payload
      BY <2>4 DEF EndOfReads
    <3>2. Type' = Type
      BY <3>1, Frame
    <3>. QED
      BY <3>1, <3>2 DEF IsMsm
  <2>5. CASE MsmMasks
    BY <2>5 DEF MsmMasks
  <2>. QED
    BY <2>1, <2>2, <2>3, <2>4, <2>5
<1>3. CASE pc' \in {"start", "read", "cell_mask"}
  BY <1>1, <1>3 DEF Collected
<1>. QED
  BY <1>1, <1>2, <1>3, NothingReported

\* The cell mask.
LEMMA CollectedMask ==
    ASSUME IndInv, IndInv', Collected, CellMaskBit
    PROVE  Collected'
<1>1. pc = "cell_mask" /\ lines' = lines /\ lines = <<>> /\ sats' = sats /\ sats = <<>>
  BY DEF CellMaskBit, Collected, IndInv, Loops
<1>. DEFINE r == <<Read(1, "invalid_msm_cell_mask")>>
<1>2. pc' = pc \/ pc' = "sat" \/ Failed(r)
  BY DEF CellMaskBit, Iterate, NextLoop
<1>3. r \in Readings
  BY DEF Readings, Reading, Read, Errors
<1>. HIDE DEF r
<1>4. CASE pc' = pc \/ pc' = "sat"
  BY <1>1, <1>4 DEF Collected
<1>. QED
  BY <1>1, <1>2, <1>3, <1>4, FailureFacts, NothingReported

\* The fields of a satellite lie where its data does.
LEMMA SatRecord ==
    ASSUME payload \in Seq(0..255), Len(payload) >= 2, IsMsm(Type)
    PROVE  (IF WithPhaseRate(Type) THEN 12 ELSE 8) = (IF SatWidth(payload) = 36 THEN 12 ELSE 8)
<1>1. WithPhaseRate(Type) <=> Level(payload) \in {5, 7}
  BY LevelFacts
<1>2. SatWidth(payload) = 36 <=> Level(payload) \in {5, 7}
  BY DEF SatWidth
<1>. QED
  BY <1>1, <1>2

\* The data of the satellites.
LEMMA CollectedSat ==
    ASSUME IndInv, IndInv', Collected, SatData
    PROVE  Collected'
<1>. DEFINE C == Cardinality(Sats(payload))
            rec == [whole |-> bitpos_,
                    mod |-> bitpos_ + IF WithPhaseRate(Type) THEN 12 ELSE 8]
<1>1. /\ pc = "sat" /\ lines' = lines /\ lines = <<>> /\ payload' = payload
      /\ sat_ids' = sat_ids /\ cells' = cells
  BY DEF SatData, Collected
<1>2. /\ payload \in Seq(0..255) /\ bitpos_ \in Nat
      /\ Len(payload) >= 2 /\ IsMsm(Type) /\ i \in Nat /\ sat_ids = Sats(payload)
  BY <1>1, CursorFacts, MsmFacts
<1>3. /\ i <= C /\ bitpos_ = SatsAt(payload) + i * SatWidth(payload)
      /\ Len(sats) = i /\ cells = <<>> /\ sats \in Seq([whole : Nat, mod : Nat])
  BY <1>1, <1>2 DEF IndInv, Loops
<1>4. \A k \in 1..Len(sats) : sats[k] = SatFields(k)
  BY <1>1 DEF Collected
<1>5. \A k : SatFields(k)' = SatFields(k)
  BY <1>1, LayoutKept
<1>6. sat_data \in Readings
  BY <1>2, SatDataFacts
<1>7. \/ Taken(sat_data) /\ i' = i + 1 /\ pc' = pc /\ sats' = Append(sats, rec)
      \/ Failed(sat_data)
      \/ i = C /\ i' = 0 /\ pc' = "cell" /\ sats' = sats
  BY <1>2 DEF SatData, Iterate, NextLoop
<1>8. rec = SatFields(i + 1)
  <2>1. (i + 1) - 1 = i
    BY <1>2
  <2>2. rec = [whole |-> bitpos_,
               mod |-> bitpos_ + IF SatWidth(payload) = 36 THEN 12 ELSE 8]
    BY <1>2, SatRecord
  <2>. QED
    BY <1>3, <2>1, <2>2 DEF SatFields
<1>9. rec \in [whole : Nat, mod : Nat]
  BY <1>2
<1>. HIDE DEF C, rec
<1>10. CASE pc' = pc /\ sats' = Append(sats, rec)
  <2>1. /\ Len(sats') = i + 1 /\ sats'[i + 1] = rec
        /\ \A k \in 1..i : sats'[k] = sats[k]
    BY <1>3, <1>9, <1>10, AppendProperties
  <2>2. ASSUME NEW k \in 1..Len(sats') PROVE sats'[k] = SatFields(k)
    <3>1. k \in 1..i \/ k = i + 1
      BY <1>2, <2>1
    <3>2. CASE k \in 1..i
      BY <1>3, <1>4, <2>1, <3>2
    <3>3. CASE k = i + 1
      BY <1>8, <2>1, <3>3
    <3>. QED
      BY <3>1, <3>2, <3>3
  <2>3. \A k \in 1..Len(sats') : sats'[k] = SatFields(k)'
    BY <1>5, <2>2
  <2>. QED
    BY <1>1, <1>10, <2>3 DEF Collected
<1>11. CASE Failed(sat_data)
  BY <1>1, <1>6, <1>11, FailureFacts, NothingReported
<1>12. CASE i = C /\ i' = 0 /\ pc' = "cell" /\ sats' = sats
  <2>1. \A k \in 1..Len(sats') : sats'[k] = SatFields(k)'
    BY <1>4, <1>5, <1>12
  <2>2. Len(sats') = Cardinality(sat_ids')
    BY <1>1, <1>2, <1>3, <1>12 DEF C
  <2>3. CellsUpTo(i)'
    <3>1. CellsBefore(0) = {}
      BY DEF CellsBefore
    <3>2. CellsBefore(i)' = {}
      BY <1>12 DEF CellsBefore
    <3>3. Len(cells') = 0
      BY <1>1, <1>3
    <3>4. Cardinality({}) = 0 /\ 1..0 = {}
      BY FS_EmptySet
    <3>. QED
      BY <3>2, <3>3, <3>4 DEF CellsUpTo
  <2>. QED
    BY <1>1, <1>12, <2>1, <2>2, <2>3 DEF Collected
<1>. QED
  BY <1>7, <1>10, <1>11, <1>12

\* What a step of the loop over the cells has to show.
LEMMA CellsKept ==
    ASSUME payload' = payload, NEW j \in Nat, i' = j,
           Len(cells') = Cardinality(CellsBefore(j)),
           \A k \in 1..Len(cells') :
             \E c \in CellsBefore(j) : /\ Cardinality(CellsBefore(c)) + 1 = k
                                       /\ cells'[k] = CellFields(c, k)
    PROVE  CellsUpTo(i)'
<1>1. CellsBefore(i)' = CellsBefore(j)
  BY DEF CellsBefore
<1>2. \A c, k : CellFields(c, k)' = CellFields(c, k)
  BY LayoutKept
<1>3. \A c : CellsBefore(c)' = CellsBefore(c)
  BY LayoutKept
<1>. QED
  BY <1>1, <1>2, <1>3 DEF CellsUpTo

\* The data of the cells.
LEMMA CollectedCell ==
    ASSUME IndInv, IndInv', Collected, CellData
    PROVE  Collected'
<1>. DEFINE N == CellBits(payload)
            B(j) == Cardinality(CellsBefore(j))
            rec == [sat_idx |-> CellAt(i).sat_idx, sig_idx |-> CellAt(i).sig_idx,
                    fine |-> bitpos_]
            Found(k, c) == B(c) + 1 = k /\ cells[k] = CellFields(c, k)
<1>1. /\ pc = "cell" /\ lines' = lines /\ lines = <<>> /\ payload' = payload
      /\ sat_ids' = sat_ids /\ sats' = sats /\ cell_present' = cell_present
  BY DEF CellData, Collected
<1>2. /\ payload \in Seq(0..255) /\ bitpos_ \in Nat
      /\ Len(payload) >= 2 /\ IsMsm(Type) /\ i \in Nat /\ sat_ids = Sats(payload)
      /\ sig_ids = Sigs(payload) /\ max_cells = N
  BY <1>1, CursorFacts, MsmFacts
<1>3. /\ i <= N /\ bitpos_ = CellsAt(payload) + B(i) * CellWidth(payload)
      /\ cell_present = CellsBefore(N)
      /\ cells \in Seq([sat_idx : Nat, sig_idx : Nat, fine : Nat])
  BY <1>1, <1>2 DEF IndInv, Loops
<1>4. /\ Len(cells) = B(i) /\ B(i) \in Nat /\ N \in Nat
      /\ \A k \in 1..Len(cells) : \E c \in CellsBefore(i) : Found(k, c)
  BY <1>1, <1>2, CellsBeforeFacts, LayoutFacts DEF Collected, CellsUpTo
<1>5. /\ Len(sats) = Cardinality(sat_ids)
      /\ \A k \in 1..Len(sats) : sats[k] = SatFields(k)
  BY <1>1 DEF Collected
<1>6. /\ Len(sats') = Cardinality(sat_ids')
      /\ \A k \in 1..Len(sats') : sats'[k] = SatFields(k)'
  <2>1. \A k : SatFields(k)' = SatFields(k)
    BY <1>1, LayoutKept
  <2>. QED
    BY <1>1, <1>5, <2>1
<1>7. cell_data \in Readings
  BY <1>2, CellDataFacts
<1>8. \/ i < N /\ i \notin cell_present /\ i' = i + 1 /\ pc' = pc /\ cells' = cells
      \/ /\ i < N /\ i \in cell_present /\ i' = i + 1 /\ pc' = pc
         /\ cells' = Append(cells, rec)
      \/ Failed(cell_data)
      \/ i = N /\ i' = 0 /\ pc' = "report" /\ cells' = cells
  BY <1>2 DEF CellData, CellAbsent, CellPresent, Iterate, NextLoop
<1>9. i < N => (i \in cell_present <=> Bit(payload, 169 + i) = 1)
  BY <1>2, <1>3, <1>4 DEF CellsBefore
<1>10. rec = CellFields(i, B(i) + 1)
  <2>1. (B(i) + 1) - 1 = B(i)
    BY <1>4
  <2>2. rec = [sat_idx |-> i \div Cardinality(Sigs(payload)),
               sig_idx |-> i % Cardinality(Sigs(payload)), fine |-> bitpos_]
    BY <1>2 DEF CellAt
  <2>. QED
    BY <1>3, <2>1, <2>2 DEF CellFields
<1>11. ASSUME i < N PROVE rec \in [sat_idx : Nat, sig_idx : Nat, fine : Nat]
  <2>. DEFINE g == Cardinality(sig_ids)
  <2>1. g \in Nat /\ Cardinality(sat_ids) \in Nat /\ N = Cardinality(sat_ids) * g
    BY <1>2, LayoutFacts DEF CellBits
  <2>. HIDE DEF N, g
  <2>2. g > 0
    BY <1>2, <1>11, <2>1, Row
  <2>3. i \div g \in Nat /\ i % g \in Nat
    BY <1>2, <2>1, <2>2, Parts
  <2>. QED
    BY <1>2, <2>3 DEF CellAt, g
<1>. HIDE DEF N, B, rec
<1>12. CASE i < N /\ i \notin cell_present /\ i' = i + 1 /\ pc' = pc /\ cells' = cells
  <2>1. CellsBefore(i + 1) = CellsBefore(i) /\ i + 1 \in Nat
    BY <1>2, <1>9, <1>12, CellsBeforeFacts
  <2>2. Len(cells') = Cardinality(CellsBefore(i + 1))
    BY <1>4, <1>12, <2>1 DEF B
  <2>3. \A k \in 1..Len(cells') :
          \E c \in CellsBefore(i + 1) : /\ Cardinality(CellsBefore(c)) + 1 = k
                                        /\ cells'[k] = CellFields(c, k)
    BY <1>4, <1>12, <2>1 DEF B
  <2>4. CellsUpTo(i)'
    BY <1>1, <1>12, <2>1, <2>2, <2>3, CellsKept
  <2>. QED
    BY <1>1, <1>6, <1>12, <2>4 DEF Collected
<1>13. CASE /\ i < N /\ i \in cell_present /\ i' = i + 1 /\ pc' = pc
            /\ cells' = Append(cells, rec)
  <2>1. /\ CellsBefore(i + 1) = CellsBefore(i) \cup {i} /\ i + 1 \in Nat
        /\ Cardinality(CellsBefore(i + 1)) = B(i) + 1
    <3>1. Bit(payload, 169 + i) = 1
      BY <1>9, <1>13
    <3>2. i + 1 \in Nat
      BY <1>2
    <3>. QED
      BY <1>2, <3>1, <3>2, CellsBeforeFacts DEF B
  <2>2. rec \in [sat_idx : Nat, sig_idx : Nat, fine : Nat]
    BY <1>11, <1>13
  <2>3. /\ Len(cells') = B(i) + 1 /\ cells'[B(i) + 1] = rec
        /\ \A k \in 1..B(i) : cells'[k] = cells[k]
    BY <1>3, <1>4, <1>13, <2>2, AppendProperties
  <2>4. ASSUME NEW k \in 1..Len(cells')
        PROVE  \E c \in CellsBefore(i + 1) : /\ Cardinality(CellsBefore(c)) + 1 = k
                                             /\ cells'[k] = CellFields(c, k)
    <3>1. k \in 1..B(i) \/ k = B(i) + 1
      BY <1>4, <2>3
    <3>2. CASE k \in 1..B(i)
      <4>1. PICK c \in CellsBefore(i) : Found(k, c)
        BY <1>4, <3>2
      <4>2. c \in CellsBefore(i + 1)
        BY <2>1
      <4>3. cells'[k] = cells[k]
        BY <2>3, <3>2
      <4>. QED
        BY <4>1, <4>2, <4>3 DEF B
    <3>3. CASE k = B(i) + 1
      <4>1. i \in CellsBefore(i + 1)
        BY <2>1
      <4>2. cells'[k] = CellFields(i, k)
        BY <1>10, <2>3, <3>3
      <4>. QED
        BY <3>3, <4>1, <4>2 DEF B
    <3>. QED
      BY <3>1, <3>2, <3>3
  <2>5. CellsUpTo(i)'
    BY <1>1, <1>13, <2>1, <2>3, <2>4, CellsKept
  <2>. QED
    BY <1>1, <1>6, <1>13, <2>5 DEF Collected
<1>14. CASE Failed(cell_data)
  BY <1>1, <1>7, <1>14, FailureFacts, NothingReported
<1>15. CASE i = N /\ i' = 0 /\ pc' = "report" /\ cells' = cells
  <2>1. CellsUpTo(i)
    BY <1>1 DEF Collected
  <2>2. CellsUpTo(CellBits(payload))
    BY <1>15, <2>1 DEF N
  <2>3. /\ \A c, k : CellFields(c, k)' = CellFields(c, k)
        /\ \A j : CellsBefore(j)' = CellsBefore(j)
        /\ CellBits(payload)' = CellBits(payload)
    BY <1>1, LayoutKept
  <2>4. CellsBefore(CellBits(payload))' = CellsBefore(CellBits(payload))
    BY <1>1 DEF CellsBefore
  <2>5. CellsUpTo(CellBits(payload))'
    BY <1>15, <2>2, <2>3, <2>4 DEF CellsUpTo
  <2>. QED
    BY <1>1, <1>6, <1>15, <2>5 DEF Collected
<1>. QED
  BY <1>8, <1>12, <1>13, <1>14, <1>15

------------------------------------------------------------------------------
(* The report. *)

\* How many cells come before a cell is its rank in the mask.
LEMMA RankOfCell ==
    ASSUME NEW c \in CellsBefore(CellBits(payload))
    PROVE  /\ c \in Nat /\ c < CellBits(payload) /\ c + 1 \in CellSet(payload)
           /\ Rank(CellSet(payload), c + 1) = Cardinality(CellsBefore(c))
<1>. DEFINE N == CellBits(payload)
            S == {y \in CellSet(payload) : y < c + 1}
            f == [m \in S |-> m - 1]
<1>1. N \in Nat
  BY LayoutFacts
<1>2. c \in 0..(N - 1) /\ Bit(payload, 169 + c) = 1
  BY DEF CellsBefore
<1>3. CellSet(payload) = {m \in 1..N : Bit(payload, 169 + m - 1) = 1}
  BY DEF CellSet, Mask
<1>. HIDE DEF N
<1>4. c \in Nat /\ c < N /\ c + 1 \in 1..N /\ 169 + (c + 1) - 1 = 169 + c
  BY <1>1, <1>2
<1>5. c + 1 \in CellSet(payload)
  BY <1>2, <1>3, <1>4
<1>6. \A m \in S : m \in 1..N /\ m - 1 \in CellsBefore(c)
  <2>. TAKE m \in S
  <2>1. m \in 1..N /\ m < c + 1 /\ Bit(payload, 169 + m - 1) = 1
    BY <1>3
  <2>2. m - 1 \in 0..(c - 1) /\ 169 + m - 1 = 169 + (m - 1)
    BY <1>1, <1>4, <2>1
  <2>. QED
    BY <2>1, <2>2 DEF CellsBefore
<1>7. f \in [S -> CellsBefore(c)]
  BY <1>6
<1>8. \A a, b \in S : f[a] = f[b] => a = b
  BY <1>1, <1>6
<1>9. ASSUME NEW d \in CellsBefore(c) PROVE \E m \in S : f[m] = d
  <2>1. d \in 0..(c - 1) /\ Bit(payload, 169 + d) = 1
    BY DEF CellsBefore
  <2>2. d + 1 \in 1..N /\ d + 1 < c + 1 /\ 169 + (d + 1) - 1 = 169 + d /\ (d + 1) - 1 = d
    BY <1>1, <1>4, <2>1
  <2>3. d + 1 \in S
    BY <1>3, <2>1, <2>2
  <2>. QED
    BY <2>2, <2>3
<1>. HIDE DEF f
<1>10. f \in Bijection(S, CellsBefore(c))
  BY <1>7, <1>8, <1>9 DEF Bijection, Injection, Surjection, IsInjective
<1>11. ExistsBijection(S, CellsBefore(c))
  BY <1>10 DEF ExistsBijection
<1>12. IsFiniteSet(CellSet(payload))
  BY <1>1, MaskFacts DEF CellSet, N
<1>13. IsFiniteSet(S)
  BY <1>12, FS_Subset
<1>14. IsFiniteSet(CellsBefore(c))
  BY <1>4, CellsBeforeFacts
<1>15. Cardinality(S) = Cardinality(CellsBefore(c))
  BY <1>11, <1>13, <1>14, FS_Bijection
<1>. QED
  BY <1>4, <1>5, <1>15 DEF Rank, N

\* The masks are finite sets of numbers.
LEMMA MasksAreSets ==
    /\ Sats(payload) \subseteq Nat /\ IsFiniteSet(Sats(payload))
    /\ Sigs(payload) \subseteq Nat /\ IsFiniteSet(Sigs(payload))
    /\ CellSet(payload) \subseteq Nat /\ IsFiniteSet(CellSet(payload))
<1>1. CellBits(payload) \in Nat /\ 64 \in Nat /\ 32 \in Nat
  BY LayoutFacts
<1>2. \A n \in Nat : 1..n \subseteq Nat
  OBVIOUS
<1>3. /\ Sats(payload) \subseteq 1..64 /\ IsFiniteSet(Sats(payload))
      /\ Sigs(payload) \subseteq 1..32 /\ IsFiniteSet(Sigs(payload))
      /\ CellSet(payload) \subseteq 1..CellBits(payload) /\ IsFiniteSet(CellSet(payload))
  BY <1>1, MaskFacts DEF Sats, Sigs, CellSet
<1>. QED
  BY <1>1, <1>2, <1>3

\* The cell of a line.
LEMMA CellOfLine ==
    ASSUME CellsUpTo(CellBits(payload)), NEW k \in 1..Len(cells)
    PROVE  LET g == Cardinality(Sigs(payload))
           IN  \E c \in Nat :
                 /\ c < CellBits(payload) /\ Cardinality(CellsBefore(c)) = k - 1
                 /\ cells[k] = CellFields(c, k)
                 /\ Nth(CellSet(payload), k - 1) - 1 = c
                 /\ g > 0 /\ c \div g \in Nat /\ c \div g < Cardinality(Sats(payload))
<1>. DEFINE g == Cardinality(Sigs(payload))
<1>1. PICK c \in CellsBefore(CellBits(payload)) :
          Cardinality(CellsBefore(c)) + 1 = k /\ cells[k] = CellFields(c, k)
  BY DEF CellsUpTo
<1>2. /\ c \in Nat /\ c < CellBits(payload) /\ c + 1 \in CellSet(payload)
      /\ Rank(CellSet(payload), c + 1) = Cardinality(CellsBefore(c))
  BY RankOfCell
<1>3. Cardinality(CellsBefore(c)) \in Nat /\ k \in Nat
  BY <1>2, CellsBeforeFacts
<1>4. Cardinality(CellsBefore(c)) = k - 1
  BY <1>1, <1>3
<1>5. Nth(CellSet(payload), k - 1) = c + 1
  <2>1. Nth(CellSet(payload), Rank(CellSet(payload), c + 1)) = c + 1
    BY <1>2, MasksAreSets, NthFacts
  <2>. QED
    BY <1>2, <1>4, <2>1
<1>6. Nth(CellSet(payload), k - 1) - 1 = c
  BY <1>2, <1>5
<1>7. g \in Nat /\ Cardinality(Sats(payload)) \in Nat /\ c < Cardinality(Sats(payload)) * g
  BY <1>2, LayoutFacts DEF CellBits
<1>. HIDE DEF g
<1>8. g > 0 /\ c \div g < Cardinality(Sats(payload))
  BY <1>2, <1>7, Row
<1>9. c \div g \in Nat
  BY <1>2, <1>7, <1>8, Parts
<1>. QED
  BY <1>1, <1>2, <1>4, <1>6, <1>8, <1>9 DEF g

\* The two observations of a cell and their widths.
LEMMA ObservationWidths ==
    ASSUME payload \in Seq(0..255), Len(payload) >= 2, IsMsm(Type)
    PROVE  /\ pr_bits \in 1..24 /\ cp_bits \in 1..24
           /\ CellWidth(payload) \in Nat /\ pr_bits + cp_bits <= CellWidth(payload)
<1>1. HiRes(Type) <=> Level(payload) \in {6, 7}
  BY LevelFacts
<1>2. Level(payload) \in {4, 5, 6, 7}
  BY LevelFacts
<1>3. pr_bits = IF Level(payload) \in {6, 7} THEN 20 ELSE 15
  BY <1>1 DEF pr_bits
<1>4. cp_bits = IF Level(payload) \in {6, 7} THEN 24 ELSE 22
  BY <1>1 DEF cp_bits
<1>5. /\ Level(payload) = 4 => CellWidth(payload) = 48
      /\ Level(payload) = 5 => CellWidth(payload) = 63
      /\ Level(payload) = 6 => CellWidth(payload) = 65
      /\ Level(payload) = 7 => CellWidth(payload) = 80
  BY DEF CellWidth
<1>. QED
  BY <1>2, <1>3, <1>4, <1>5

\* The fields of a line lie in the payload.
LEMMA FieldsInPayload ==
    ASSUME IndInv, pc = "report", NEW q \in Nat, q < Cardinality(Sats(payload)),
           NEW k \in Nat, k >= 1, k <= Cardinality(CellSet(payload))
    PROVE  LET whole == SatsAt(payload) + q * SatWidth(payload)
               fine  == CellsAt(payload) + (k - 1) * CellWidth(payload)
           IN  /\ whole \in Nat /\ whole + 8 <= 8 * Len(payload)
               /\ fine \in Nat /\ fine + pr_bits <= 8 * Len(payload)
               /\ fine + pr_bits \in Nat /\ (fine + pr_bits) + cp_bits <= 8 * Len(payload)
<1>. DEFINE W == SatWidth(payload)
            V == CellWidth(payload)
            S == Cardinality(Sats(payload))
            K == Cardinality(CellSet(payload))
            A == SatsAt(payload)
            D == CellsAt(payload)
            T == 8 * Len(payload)
            j == k - 1
<1>1. /\ payload \in Seq(0..255) /\ Len(payload) >= 2 /\ IsMsm(Type)
      /\ Has(MsmEnd(payload)) /\ T = total_bits_ /\ T \in Nat
  BY CursorFacts, MsmFacts DEF IndInv, Loops
<1>2. /\ S \in Nat /\ K \in Nat /\ W \in {18, 36} /\ A = 169 + CellBits(payload)
      /\ CellBits(payload) \in Nat /\ D = A + S * W /\ D \in Nat
  BY LayoutFacts
<1>3. V \in Nat /\ pr_bits \in 1..24 /\ cp_bits \in 1..24 /\ pr_bits + cp_bits <= V
  BY <1>1, ObservationWidths
<1>4. W \in Nat /\ W >= 8 /\ A \in Nat
  BY <1>2
<1>5. D + K * V <= T
  BY <1>1 DEF Has, MsmEnd
<1>6. j \in Nat /\ j + 1 = k /\ q + 1 \in Nat /\ q + 1 <= S /\ j + 1 <= K
  BY <1>2
<1>. HIDE DEF W, V, S, K, A, D, T, j
<1>7. (q + 1) * W = q * W + W /\ q * W \in Nat /\ (q + 1) * W <= S * W /\ S * W \in Nat
  BY <1>2, <1>4, <1>6, Products
<1>8. (j + 1) * V = j * V + V /\ j * V \in Nat /\ (j + 1) * V <= K * V /\ K * V \in Nat
  <2>1. j + 1 \in Nat
    BY <1>6
  <2>. QED
    BY <1>2, <1>3, <1>6, <2>1, Products
<1>. DEFINE x == q * W
            y == S * W
            u == j * V
            z == K * V
<1>9. /\ x \in Nat /\ y \in Nat /\ x + W <= y /\ D = A + y
      /\ u \in Nat /\ z \in Nat /\ u + V <= z /\ D + z <= T
      /\ A \in Nat /\ D \in Nat /\ T \in Nat /\ W \in Nat /\ W >= 8 /\ V \in Nat
  BY <1>1, <1>2, <1>3, <1>4, <1>5, <1>7, <1>8
<1>. HIDE DEF x, y, u, z
<1>10. A + x \in Nat /\ (A + x) + 8 <= T
  BY <1>9
<1>11. /\ D + u \in Nat /\ (D + u) + pr_bits <= T
       /\ (D + u) + pr_bits \in Nat /\ ((D + u) + pr_bits) + cp_bits <= T
  <2>1. pr_bits \in Nat /\ cp_bits \in Nat /\ pr_bits + cp_bits <= V
    BY <1>3
  <2>. QED
    BY <1>9, <2>1
<1>. QED
  BY <1>10, <1>11 DEF x, u, W, V, S, K, A, D, T, j

\* An observation is invalid if its bits are the marker.
LEMMA MarkerFacts ==
    ASSUME payload \in Seq(0..255), NEW k \in Nat, NEW n \in 1..24,
           k + n <= 8 * Len(payload)
    PROVE  Invalid(k, n) <=> Marker(k, n)
<1>1. Value(payload, k, n) = 2^(n - 1)
        <=> \A m \in 0..(n - 1) : (Bit(payload, k + m) = 1) <=> (m = 0)
  BY OneAndZeros
<1>. QED
  BY <1>1, Zenon DEF Invalid, Marker

\* A line says what the payload says.
LEMMA LineOfReport ==
    ASSUME IndInv, Collected, pc = "report", NEW k \in 1..Len(cells)
    PROVE  LineRight(Line(k), k)
<1>. DEFINE g == Cardinality(Sigs(payload))
            cell == Nth(CellSet(payload), k - 1) - 1
            q == cell \div g
            whole == SatsAt(payload) + q * SatWidth(payload)
            fine  == CellsAt(payload) + (k - 1) * CellWidth(payload)
            known == \E m \in 0..7 : Bit(payload, whole + m) = 0
            long == Value(payload, whole, 8) # 255
            sig == Nth(Sigs(payload), cell % g)
            coded == sig \in HasFrequency(constellation_code(Type))
<1>1. /\ CellsUpTo(CellBits(payload)) /\ Len(sats) = Cardinality(sat_ids)
      /\ \A j \in 1..Len(sats) : sats[j] = SatFields(j)
  BY DEF Collected
<1>2. payload \in Seq(0..255) /\ sat_ids = Sats(payload) /\ sig_ids = Sigs(payload)
  BY MsmFacts
<1>3. /\ cells[k] = CellFields(cell, k) /\ q \in Nat /\ q < Cardinality(Sats(payload))
  <2>1. PICK c \in Nat : /\ cells[k] = CellFields(c, k)
                         /\ Nth(CellSet(payload), k - 1) - 1 = c
                         /\ c \div g \in Nat /\ c \div g < Cardinality(Sats(payload))
    BY <1>1, CellOfLine
  <2>. QED
    BY <2>1
<1>4. k \in Nat /\ k >= 1 /\ k <= Cardinality(CellSet(payload))
  <2>1. Len(cells) = Cardinality(CellSet(payload)) /\ Len(cells) \in Nat
    BY <1>1, CellsBeforeEnd, LayoutFacts DEF CellsUpTo
  <2>. QED
    BY <2>1
<1>. HIDE DEF cell, g
<1>5. cells[k].sat_idx = q /\ cells[k].sig_idx = cell % g /\ cells[k].fine = fine
  BY <1>3 DEF CellFields, g
<1>6. sats[q + 1] = SatFields(q + 1) /\ (q + 1) - 1 = q
  <2>1. Cardinality(Sats(payload)) \in Nat
    BY LayoutFacts
  <2>2. q + 1 \in 1..Len(sats)
    BY <1>1, <1>2, <1>3, <2>1
  <2>. QED
    BY <1>1, <1>3, <2>2
<1>7. /\ sats[q + 1].whole = whole
      /\ sats[q + 1].mod = whole + (IF SatWidth(payload) = 36 THEN 12 ELSE 8)
  BY <1>6 DEF SatFields
<1>8. /\ whole \in Nat /\ whole + 8 <= 8 * Len(payload)
      /\ fine \in Nat /\ fine + pr_bits <= 8 * Len(payload)
      /\ fine + pr_bits \in Nat /\ (fine + pr_bits) + cp_bits <= 8 * Len(payload)
  BY <1>3, <1>4, FieldsInPayload
<1>9. pr_bits \in 1..24 /\ cp_bits \in 1..24
  BY MsmFacts, ObservationWidths
<1>. HIDE DEF q, whole, fine
<1>10. long <=> known
  BY <1>2, <1>8, AllOnes
<1>11. Invalid(fine, pr_bits) <=> Marker(fine, pr_bits)
  BY <1>2, <1>8, <1>9, MarkerFacts
<1>12. Invalid(fine + pr_bits, cp_bits) <=> Marker(fine + pr_bits, cp_bits)
  BY <1>2, <1>8, <1>9, MarkerFacts
<1>13. /\ Line(k).sat = Nth(Sats(payload), q) /\ Line(k).sig = sig
       /\ Line(k).rough = sats[q + 1] /\ Line(k).fine = fine
       /\ Line(k).pr_valid = (long /\ ~Invalid(fine, pr_bits))
       /\ Line(k).cp_valid = (/\ long /\ ~Invalid(fine + pr_bits, cp_bits)
                              /\ coded)
  BY <1>2, <1>5, <1>7 DEF Line
<1>. HIDE DEF known, long, sig, coded
<1>14. Line(k).pr_valid <=> known /\ ~Marker(fine, pr_bits)
  BY <1>10, <1>11, <1>13, Zenon
<1>15. Line(k).cp_valid => known /\ ~Marker(fine + pr_bits, cp_bits)
  BY <1>10, <1>12, <1>13, Zenon
<1>. QED
  BY <1>7, <1>13, <1>14, <1>15, Zenon DEF LineRight, q, whole, fine, known, sig, cell, g

\* A line that is right stays right.
LEMMA LineKept ==
    ASSUME payload' = payload
    PROVE  \A l, k : LineRight(l, k)' <=> LineRight(l, k)
<1>1. Type' = Type
  BY Frame
<1>2. pr_bits' = pr_bits /\ cp_bits' = cp_bits
  BY <1>1 DEF pr_bits, cp_bits
<1>3. \A k, n : Marker(k, n)' <=> Marker(k, n)
  BY DEF Marker
<1>4. \A k : Marker(k, pr_bits)' <=> Marker(k, pr_bits)
  BY <1>2 DEF Marker
<1>5. \A k : Marker(k, cp_bits)' <=> Marker(k, cp_bits)
  BY <1>2 DEF Marker
<1>. QED
  BY <1>2, <1>3, <1>4, <1>5 DEF LineRight

\* The satellites of the cells come in their order, and are told apart by their
\* places in the mask.
LEMMA RowsOfLines ==
    ASSUME CellsUpTo(CellBits(payload))
    PROVE  LET S == Cardinality(Sats(payload))
           IN  /\ \A k \in 1..Len(cells) : cells[k].sat_idx \in Nat /\ cells[k].sat_idx < S
               /\ \A k, m \in 1..Len(cells) : m < k => cells[m].sat_idx <= cells[k].sat_idx
               /\ \A a, b \in Nat : a < S /\ b < S /\ Nth(Sats(payload), a) = Nth(Sats(payload), b)
                                      => a = b
<1>. DEFINE S == Cardinality(Sats(payload))
            g == Cardinality(Sigs(payload))
            Of(c, k) == /\ Cardinality(CellsBefore(c)) = k - 1
                        /\ cells[k].sat_idx = c \div g
                        /\ g > 0 /\ c \div g \in Nat /\ c \div g < S
<1>1. ASSUME NEW k \in 1..Len(cells) PROVE \E c \in Nat : Of(c, k)
  <2>1. PICK c \in Nat :
             /\ Cardinality(CellsBefore(c)) = k - 1 /\ cells[k] = CellFields(c, k)
             /\ g > 0 /\ c \div g \in Nat /\ c \div g < S
    BY CellOfLine
  <2>2. cells[k].sat_idx = c \div g
    BY <2>1 DEF CellFields
  <2>. QED
    BY <2>1, <2>2
<1>2. \A k \in 1..Len(cells) : cells[k].sat_idx \in Nat /\ cells[k].sat_idx < S
  <2>. TAKE k \in 1..Len(cells)
  <2>1. PICK c \in Nat : Of(c, k)
    BY <1>1
  <2>. QED
    BY <2>1
<1>3. ASSUME NEW k \in 1..Len(cells), NEW m \in 1..Len(cells), m < k
      PROVE  cells[m].sat_idx <= cells[k].sat_idx
  <2>1. PICK c \in Nat : Of(c, k)
    BY <1>1
  <2>2. PICK d \in Nat : Of(d, m)
    BY <1>1
  <2>3. d <= c
    <3>1. ASSUME c < d PROVE FALSE
      <4>1. CellsBefore(c) \subseteq CellsBefore(d)
        BY <3>1 DEF CellsBefore
      <4>2. IsFiniteSet(CellsBefore(d)) /\ IsFiniteSet(CellsBefore(c))
        BY CellsBeforeFacts
      <4>3. Cardinality(CellsBefore(c)) <= Cardinality(CellsBefore(d))
        BY <4>1, <4>2, FS_Subset
      <4>. QED
        BY <1>3, <2>1, <2>2, <4>3
    <3>. QED
      BY <3>1
  <2>4. g \in Nat
    BY LayoutFacts
  <2>5. d \div g <= c \div g
    BY <2>1, <2>3, <2>4, Rows
  <2>. QED
    BY <2>1, <2>2, <2>5
<1>4. ASSUME NEW a \in Nat, NEW b \in Nat, a < S, b < S,
             Nth(Sats(payload), a) = Nth(Sats(payload), b)
      PROVE  a = b
  <2>1. Rank(Sats(payload), Nth(Sats(payload), a)) = a
    BY <1>4, MasksAreSets, NthFacts
  <2>2. Rank(Sats(payload), Nth(Sats(payload), b)) = b
    BY <1>4, MasksAreSets, NthFacts
  <2>. QED
    BY <1>4, <2>1, <2>2
<1>. QED
  BY <1>2, <1>3, <1>4

\* The last loop writes the report.
LEMMA CollectedReport ==
    ASSUME IndInv, IndInv', Collected, Report
    PROVE  Collected'
<1>. DEFINE L == Len(cells)
            row(k) == cells[k].sat_idx
            S == Cardinality(Sats(payload))
<1>1. /\ pc = "report" /\ pc' = "done" /\ error' = error /\ payload' = payload
      /\ lines' = [k \in DOMAIN cells |-> Line(k)]
  BY DEF Report
<1>2. /\ CellsUpTo(CellBits(payload)) /\ sat_ids = Sats(payload)
      /\ cells \in Seq([sat_idx : Nat, sig_idx : Nat, fine : Nat])
  BY <1>1, MsmFacts DEF Collected, IndInv
<1>3. L \in Nat /\ DOMAIN cells = 1..L /\ L = Cardinality(CellSet(payload))
  BY <1>2, CellsBeforeEnd, LenProperties DEF CellsUpTo
<1>4. DOMAIN lines' = 1..L /\ \A k \in 1..L : lines'[k] = Line(k)
  BY <1>1, <1>3
<1>5. Len(lines') = L
  <2>1. lines' \in Seq({Line(k) : k \in 1..L})
    BY <1>3, <1>4, <1>1
  <2>. QED
    BY <1>3, <1>4, <2>1, LenProperties
<1>6. \A k \in 1..L : LineRight(Line(k), k)
  BY <1>1, LineOfReport
<1>7. \A l, k : LineRight(l, k)' <=> LineRight(l, k)
  BY <1>1, LineKept
<1>8. LinesAsMasked'
  <2>1. Cardinality(CellSet(payload)') = L
    BY <1>1, <1>3
  <2>2. \A k \in 1..L : LineRight(lines[k], k)'
    <3>. SUFFICES ASSUME NEW k \in 1..L PROVE LineRight(lines[k], k)'
      OBVIOUS
    <3>1. PICK l : l = Line(k)
      OBVIOUS
    <3>2. LineRight(l, k)' /\ lines'[k] = l
      BY <1>4, <1>6, <1>7, <3>1
    <3>3. LineRight(lines[k], k)' <=> LineRight(l, k)'
      BY <3>2 DEF LineRight
    <3>. QED
      BY <3>2, <3>3
  <2>. QED
    BY <1>5, <2>1, <2>2 DEF LinesAsMasked
<1>9. /\ \A k \in 1..L : row(k) \in Nat /\ row(k) < S
      /\ \A k, m \in 1..L : m < k => row(m) <= row(k)
      /\ \A a, b \in Nat : a < S /\ b < S /\ Nth(Sats(payload), a) = Nth(Sats(payload), b)
                             => a = b
  BY <1>2, RowsOfLines
<1>10. \A k \in 1..L : /\ Line(k).sat = Nth(Sats(payload), row(k))
                       /\ Line(k).prn = (k = 1 \/ row(k - 1) # row(k))
  BY <1>2 DEF Line, HeadsSatellite
<1>. HIDE DEF L, row, S
<1>11. ASSUME NEW k \in 1..L
       PROVE  lines'[k].prn <=> \A m \in 1..(k - 1) : lines'[m].sat # lines'[k].sat
  <2>1. \A m \in 1..(k - 1) : m \in 1..L /\ m < k
    BY <1>3
  <2>2. \A m \in 1..(k - 1) : lines'[m].sat = lines'[k].sat <=> row(m) = row(k)
    <3>. TAKE m \in 1..(k - 1)
    <3>1. m \in 1..L
      BY <2>1
    <3>2. lines'[m].sat = Nth(Sats(payload), row(m)) /\ lines'[k].sat = Nth(Sats(payload), row(k))
      BY <1>4, <1>10, <3>1
    <3>3. row(m) \in Nat /\ row(m) < S /\ row(k) \in Nat /\ row(k) < S
      BY <1>9, <3>1
    <3>. QED
      BY <1>9, <3>2, <3>3
  <2>3. lines'[k].prn <=> (k = 1 \/ row(k - 1) # row(k))
    BY <1>4, <1>10
  <2>4. CASE k = 1
    <3>1. 1..(k - 1) = {}
      BY <2>4
    <3>. QED
      BY <2>3, <2>4, <3>1
  <2>5. CASE k # 1
    <3>1. k - 1 \in 1..(k - 1) /\ k - 1 \in 1..L /\ k - 1 < k
      BY <1>3, <2>5
    <3>2. CASE row(k - 1) = row(k)
      BY <2>2, <2>3, <2>5, <3>1, <3>2
    <3>3. CASE row(k - 1) # row(k)
      <4>1. \A m \in 1..(k - 1) : row(m) # row(k)
        <5>. TAKE m \in 1..(k - 1)
        <5>1. m \in 1..L /\ (m = k - 1 \/ m < k - 1)
          BY <1>3
        <5>2. row(k - 1) <= row(k) /\ row(k - 1) \in Nat /\ row(k) \in Nat /\ row(m) \in Nat
          BY <1>9, <3>1, <5>1
        <5>3. row(m) <= row(k - 1)
          BY <1>9, <3>1, <5>1, <5>2
        <5>. QED
          BY <3>3, <5>2, <5>3
      <4>. QED
        BY <2>2, <2>3, <3>3, <4>1
    <3>. QED
      BY <3>2, <3>3
  <2>. QED
    BY <2>4, <2>5
<1>12. OneHeadingPerSatellite'
  BY <1>4, <1>11 DEF OneHeadingPerSatellite
<1>. QED
  BY <1>1, <1>8, <1>12 DEF Collected, ReportExact

\* Nothing is collected at the start, and nothing changes what is.
LEMMA CollectedStart == Init => Collected
<1>. SUFFICES ASSUME Init PROVE Collected
  OBVIOUS
<1>1. pc = "start" /\ lines = <<>>
  BY DEF Init
<1>. QED
  BY <1>1 DEF Collected

LEMMA CollectedIdle == IndInv /\ Collected /\ UNCHANGED vars => Collected'
<1>. SUFFICES ASSUME IndInv, Collected, UNCHANGED vars PROVE Collected'
  OBVIOUS
<1>1. /\ payload' = payload /\ pc' = pc /\ i' = i /\ sat_ids' = sat_ids /\ sats' = sats
      /\ cells' = cells /\ lines' = lines /\ error' = error
  BY DEF vars, msmVars
<1>2. CASE pc \in {"start", "read", "cell_mask"}
  BY <1>1, <1>2 DEF Collected
<1>3. \A k : SatFields(k)' = SatFields(k)
  BY <1>1, LayoutKept
<1>4. /\ \A c, k : CellFields(c, k)' = CellFields(c, k)
      /\ \A j : CellsBefore(j)' = CellsBefore(j)
  BY <1>1, LayoutKept
<1>5. CellsUpTo(i) => CellsUpTo(i)'
  <2>1. CellsBefore(i)' = CellsBefore(i)
    BY <1>1 DEF CellsBefore
  <2>. QED
    BY <1>1, <1>4, <2>1 DEF CellsUpTo
<1>6. CellsUpTo(CellBits(payload)) => CellsUpTo(CellBits(payload))'
  <2>1. CellsBefore(CellBits(payload))' = CellsBefore(CellBits(payload))
    BY <1>1 DEF CellsBefore
  <2>. QED
    BY <1>1, <1>4, <2>1 DEF CellsUpTo
<1>7. ReportExact => ReportExact'
  <2>1. \A l, k : LineRight(l, k)' <=> LineRight(l, k)
    BY <1>1, LineKept
  <2>2. Type' = Type
    BY <1>1, Frame
  <2>3. LinesAsMasked => LinesAsMasked'
    BY <1>1, <2>1, <2>2 DEF LinesAsMasked, CellSet, CellBits
  <2>4. OneHeadingPerSatellite => OneHeadingPerSatellite'
    BY <1>1 DEF OneHeadingPerSatellite
  <2>. QED
    BY <2>3, <2>4 DEF ReportExact
<1>. QED
  BY <1>1, <1>3, <1>5, <1>6, <1>7 DEF Collected

\* What is collected is what the payload has, and what is reported is collected.
LEMMA CollectedInductive == IndInv /\ IndInv' /\ Collected /\ [Next]_vars => Collected'
<1>. SUFFICES ASSUME IndInv, IndInv', Collected, [Next]_vars PROVE Collected'
  OBVIOUS
<1>. QED
  BY CollectedRead, CollectedMask, CollectedSat, CollectedCell, CollectedReport, CollectedIdle
     DEF Next, Step, Returned

\* Of an MSM that is whole, decode() reports every cell of the mask, with its
\* satellite and signal, and the fields the payload has for them: the three loops
\* of decode_msm, each of which relies on the order of the one before, agree.
THEOREM ReportCorrect == Spec => []ReportExact
<1>1. Collected => ReportExact
  BY DEF Collected, ReportExact, LinesAsMasked, OneHeadingPerSatellite
<1>. QED
  BY Start, Inductive, CollectedStart, CollectedInductive, <1>1, PTL DEF Spec
=============================================================================
