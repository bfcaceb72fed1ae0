----------------------------- MODULE RtcmMessage -----------------------------
(***************************************************************************)
(* RtcmMessageDecoder of both decoders: what decode() reads of the payload *)
(* of one frame, and what it reports.                                      *)
(*                                                                         *)
(* A field is read at a bit position and has a width; what the report does *)
(* with it (scaling, formatting) is left out, so a field is known by the   *)
(* position it was read at.  Only the fields the control depends on have a *)
(* value here: counts, masks and the markers of a missing range.           *)
(*                                                                         *)
(* Most messages are straight-line reads: todo is what is left of them.    *)
(* The three loops of decode_msm have a step per iteration.                *)
(***************************************************************************)
EXTENDS Naturals, Sequences, FiniteSets

CONSTANT Payloads               \* the payloads that may be decoded

ASSUME PayloadsAssumption == Payloads \subseteq Seq(0..255)

VARIABLES
    payload,
    pc,                 \* "start", "read", "cell_mask", "sat", "cell",
                        \* "report" or "done"
    bitpos_,
    todo,               \* the stages left before the next loop or the end
    last,               \* the value of the last short field read
    text,               \* how many characters each text got
    i,                  \* the index of the loop
    sat_ids, sig_ids,   \* the satellites and signals of the masks
    cell_present,       \* the cells of the mask, numbered row by row from 0
    sats, cells,        \* what the loops collected
    lines,              \* one line of the report per cell
    error

msmVars == <<i, sat_ids, sig_ids, cell_present, sats, cells, lines>>
vars == <<payload, pc, bitpos_, todo, last, text, msmVars, error>>

------------------------------------------------------------------------------
(* BitReader. *)

\* Faulty: least significant bit first.
BitFromTheRight(p, k) == (p[(k \div 8) + 1] \div 2^(k % 8)) % 2

\* Bit k of the bytes p, the most significant bit of the first byte being 0.
Bit(p, k) == (p[(k \div 8) + 1] \div 2^(7 - (k % 8))) % 2

\* The n bits from position k on, as a number; n is at most 30 here.
Value(p, k, n) ==
    LET v[m \in 0..n] == IF m = 0 THEN 0 ELSE 2 * v[m - 1] + Bit(p, k + m - 1)
    IN  v[n]

\* The bits that are set among the n from position k on, the first being 1.
Mask(p, k, n) == {m \in 1..n : Bit(p, k + m - 1) = 1}

total_bits_ == 8 * Len(payload)

\* The bounds check of getU, getS and skip.
Fits(n) == bitpos_ + n <= total_bits_

------------------------------------------------------------------------------
(* Sequences of reads: a read has a width, and the error its failure gives. *)

Read(n, err) == [n |-> n, err |-> err]

\* Reads joined by || in one condition.
Reads(widths, err) == [k \in DOMAIN widths |-> Read(widths[k], err)]

\* The bits of the first k reads of r.
Width(r, k) ==
    LET w[m \in 0..k] == IF m = 0 THEN 0 ELSE w[m - 1] + r[m].n
    IN  w[k]

\* Where read k of r starts.
At(r, k) == bitpos_ + Width(r, k - 1)

\* The reads of r that the payload is too short for.
Missing(r) == {k \in DOMAIN r : ~Fits(Width(r, k))}

FirstMissing(r) == CHOOSE k \in Missing(r) : \A m \in Missing(r) : k <= m

\* Take all of r in one go; after a failure nothing more is read.
Taken(r) == Missing(r) = {} /\ bitpos_' = bitpos_ + Width(r, Len(r))

Failed(r) == /\ Missing(r) # {}
             /\ error' = r[FirstMissing(r)].err
             /\ pc' = "done"

------------------------------------------------------------------------------
(* The messages.  A stage is a sequence of reads, or a text or a list whose  *)
(* length is the field read last.                                            *)

Get(widths, err) == [op |-> "get", reads |-> Reads(widths, err)]
Text             == [op |-> "text", reads |-> <<>>]
Repeat(r)        == [op |-> "repeat", reads |-> r]

decode_1005_1006(type) ==
    <<Get(<<12, 6, 1, 1, 1, 1, 38, 1, 1, 38, 2, 38>>, "invalid_1005_1006")>>
    \o IF type = 1006 THEN <<Get(<<16>>, "missing_antenna_height")>> ELSE <<>>

decode_1007_1008(type) ==
    <<Get(<<12, 8>>, "invalid_1007_1008"), Text, Get(<<8>>, "missing_setup_id")>>
    \o IF type = 1008 THEN <<Get(<<8>>, "missing_serial_length"), Text>> ELSE <<>>

decode_1033 ==
    <<Get(<<12, 8>>, "invalid_1033"), Text,
      Get(<<8, 8>>, "invalid_1033_fields"), Text,
      Get(<<8>>, "invalid_1033_rx_type"), Text,
      Get(<<8>>, "invalid_1033_rx_fw"), Text,
      Get(<<8>>, "invalid_1033_rx_sn"), Text>>

decode_1013 ==
    <<Get(<<12, 16, 17, 5>>, "invalid_1013"),
      Repeat(Reads(<<12, 1, 16>>, "truncated_1013_announcements"))>>

decode_1019 == <<Get(<<6, 10, 4, 2, 14, 8>>, "invalid_1019")>>

decode_1020 == <<Get(<<6, 5, 5, 6, 1>>, "invalid_1020")>>

decode_1045_1046 == <<Get(<<6, 12, 10, 8>>, "invalid_1045_1046")>>

decode_1230 == <<Get(<<12, 1, 3>>, "invalid_1230")>>

msm_header ==
    <<Get(<<12, 30, 1, 3, 7, 2, 2, 1, 3, 64, 32>>, "invalid_msm_header")>>

\* Faulty: level 3 is taken for an MSM that can be decoded.
IsMsmFromLevel3(type) == type \in 1071..1127 /\ type % 10 \in 3..7

IsMsm(type) == type \in 1071..1127 /\ type % 10 \in 4..7

\* The parser decode() finds for a type, if any.
Stages(type) ==
    CASE type \in {1005, 1006} -> decode_1005_1006(type)
      [] type \in {1007, 1008} -> decode_1007_1008(type)
      [] type = 1033           -> decode_1033
      [] type = 1013           -> decode_1013
      [] type = 1019           -> decode_1019
      [] type = 1020           -> decode_1020
      [] type \in {1045, 1046} -> decode_1045_1046
      [] type = 1230           -> decode_1230
      [] IsMsm(type)           -> msm_header
      [] OTHER                 -> <<>>

\* The types type_name() knows.
Named == {1005, 1006, 1007, 1008, 1013, 1019, 1020, 1033, 1045, 1046, 1230}
         \cup {10 * c + l : c \in 107..112, l \in 4..7}

\* The systems of constellation_code(), by the tens of the type.
constellation_code(type) ==
    CASE type \in 1070..1079 -> "G" [] type \in 1080..1089 -> "R"
      [] type \in 1090..1099 -> "E" [] type \in 1100..1109 -> "S"
      [] type \in 1110..1119 -> "J" [] type \in 1120..1129 -> "C"
      [] OTHER -> "?"

\* The signals whose frequency signal_info() knows.
HasFrequency(c) ==
    CASE c = "G" -> {2, 3, 8, 9, 10, 15, 16, 17}
      [] c = "R" -> {2, 8, 14}
      [] c \in {"E", "C"} -> {2, 8, 14, 16, 22}
      [] c = "J" -> {2, 8, 15, 22}
      [] OTHER -> {}

------------------------------------------------------------------------------
(* MSM. *)

Type == Value(payload, 0, 12)

HiRes(type) == type % 10 \in {6, 7}

\* Faulty: level 7 is forgotten.
WithPhaseRateOfLevel5(type) == type % 10 = 5

WithPhaseRate(type) == type % 10 \in {5, 7}

max_cells == Cardinality(sat_ids) * Cardinality(sig_ids)

\* The n-th smallest member of S, counting from 0.
Nth(S, n) == CHOOSE x \in S : Cardinality({y \in S : y < x}) = n

sat_data ==
    <<Read(8, "truncated_msm_sat_data")>>
    \o (IF WithPhaseRate(Type) THEN <<Read(4, "truncated_msm_sat_ext_info")>> ELSE <<>>)
    \o <<Read(10, "truncated_msm_rough_range_mod")>>
    \o (IF WithPhaseRate(Type) THEN <<Read(14, "truncated_msm_rate")>> ELSE <<>>)

pr_bits == IF HiRes(Type) THEN 20 ELSE 15
cp_bits == IF HiRes(Type) THEN 24 ELSE 22

cell_data ==
    Reads(<<pr_bits, cp_bits>> \o (IF HiRes(Type) THEN <<10, 1, 10>> ELSE <<4, 1, 6>>),
          "truncated_msm_cell_data")
    \o (IF WithPhaseRate(Type) THEN <<Read(15, "truncated_msm_phase_rate")>> ELSE <<>>)

\* Faulty: the mask is taken for one row per signal.
CellAtByColumn(k) ==
    [sat_idx |-> k % Cardinality(sat_ids), sig_idx |-> k \div Cardinality(sat_ids)]

\* The cell with number k of the mask.
CellAt(k) ==
    [sat_idx |-> k \div Cardinality(sig_ids), sig_idx |-> k % Cardinality(sig_ids)]

\* is_invalid_signed() of the n bits at position k.
Invalid(k, n) == Value(payload, k, n) = 2^(n - 1)

\* Faulty: last_sat is never set.
HeadsEveryLine(k) == TRUE

\* Line k of the report starts a satellite.
HeadsSatellite(k) == k = 1 \/ cells[k - 1].sat_idx # cells[k].sat_idx

\* Line k: where its ranges come from, and which of them are not N/A.
Line(k) ==
    LET c     == cells[k]
        sig   == Nth(sig_ids, c.sig_idx)
        rough == Value(payload, sats[c.sat_idx + 1].whole, 8) # 255
    IN  [sat |-> Nth(sat_ids, c.sat_idx), sig |-> sig, prn |-> HeadsSatellite(k),
         rough |-> sats[c.sat_idx + 1], fine |-> c.fine,
         pr_valid |-> rough /\ ~Invalid(c.fine, pr_bits),
         cp_valid |-> /\ rough /\ ~Invalid(c.fine + pr_bits, cp_bits)
                      /\ sig \in HasFrequency(constellation_code(Type))]

------------------------------------------------------------------------------
Init == /\ payload \in Payloads
        /\ pc = "start" /\ bitpos_ = 0 /\ todo = <<>>
        /\ last = 0 /\ text = <<>>
        /\ i = 0 /\ sat_ids = {} /\ sig_ids = {} /\ cell_present = {}
        /\ sats = <<>> /\ cells = <<>> /\ lines = <<>>
        /\ error = "none"

\* decode(): the type, and the parser for it.
decode ==
    /\ pc = "start"
    /\ \/ /\ Len(payload) < 2
          /\ error' = "payload_too_short" /\ pc' = "done"
          /\ UNCHANGED <<bitpos_, todo>>
       \/ /\ Len(payload) >= 2
          /\ bitpos_' = 12
          /\ todo' = Stages(Type)
          /\ pc' = "read"
          /\ UNCHANGED error
    /\ UNCHANGED <<payload, last, text, msmVars>>

Stage(op) == pc = "read" /\ todo # <<>> /\ Head(todo).op = op

GetFields ==
    /\ Stage("get")
    /\ LET r == Head(todo).reads
       IN  \/ /\ Taken(r)
              /\ last' = IF r[Len(r)].n <= 30
                         THEN Value(payload, At(r, Len(r)), r[Len(r)].n) ELSE 0
              /\ todo' = Tail(todo)
              /\ UNCHANGED <<pc, error>>
           \/ Failed(r) /\ UNCHANGED <<bitpos_, last, todo>>
    /\ UNCHANGED <<payload, text, msmVars>>

\* Faulty: the announced length is believed.
ReadableUnbounded == last

\* The characters of a text that the payload has.
Readable == LET left == (total_bits_ - bitpos_) \div 8
            IN  IF last <= left THEN last ELSE left

\* read_ascii() stops at the end of the payload without saying so.
read_ascii ==
    /\ Stage("text")
    /\ bitpos_' = bitpos_ + 8 * Readable
    /\ text' = Append(text, Readable)
    /\ todo' = Tail(todo)
    /\ UNCHANGED <<payload, pc, last, msmVars, error>>

\* The loop over the announcements, whose number was read last.
Announcements ==
    /\ Stage("repeat")
    /\ todo' = [k \in 1..last |-> [op |-> "get", reads |-> Head(todo).reads]]
    /\ UNCHANGED <<payload, pc, bitpos_, last, text, msmVars, error>>

EndOfReads ==
    /\ pc = "read" /\ todo = <<>> /\ ~IsMsm(Type)
    /\ pc' = "done"
    /\ UNCHANGED <<payload, bitpos_, todo, last, text, msmVars, error>>

\* decode_msm: the header is read, and it ends with the two masks.
MsmMasks ==
    /\ pc = "read" /\ todo = <<>> /\ IsMsm(Type)
    /\ sat_ids' = Mask(payload, bitpos_ - 96, 64)
    /\ sig_ids' = Mask(payload, bitpos_ - 32, 32)
    /\ pc' = "cell_mask"
    /\ UNCHANGED <<payload, bitpos_, todo, last, text, i, cell_present, sats,
                   cells, lines, error>>

\* The loops of decode_msm: one iteration, or the end of the loop.
NextLoop(p) == i' = 0 /\ pc' = p

Iterate == i' = i + 1 /\ UNCHANGED <<pc, error>>

CellMaskBit ==
    /\ pc = "cell_mask"
    /\ LET r == <<Read(1, "invalid_msm_cell_mask")>>
       IN  \/ /\ i < max_cells /\ Taken(r) /\ Iterate
              /\ cell_present' = IF Bit(payload, bitpos_) = 1
                                 THEN cell_present \cup {i} ELSE cell_present
           \/ i < max_cells /\ Failed(r) /\ UNCHANGED <<bitpos_, i, cell_present>>
           \/ /\ i = max_cells /\ NextLoop("sat")
              /\ UNCHANGED <<bitpos_, cell_present, error>>
    /\ UNCHANGED <<payload, todo, last, text, sat_ids, sig_ids, sats, cells, lines>>

SatData ==
    /\ pc = "sat"
    /\ \/ /\ i < Cardinality(sat_ids) /\ Taken(sat_data) /\ Iterate
          /\ sats' = Append(sats, [whole |-> bitpos_,
                                   mod |-> bitpos_ + IF WithPhaseRate(Type) THEN 12 ELSE 8])
       \/ i < Cardinality(sat_ids) /\ Failed(sat_data) /\ UNCHANGED <<bitpos_, i, sats>>
       \/ i = Cardinality(sat_ids) /\ NextLoop("cell") /\ UNCHANGED <<bitpos_, sats, error>>
    /\ UNCHANGED <<payload, todo, last, text, sat_ids, sig_ids, cell_present, cells, lines>>

CellAbsent == i \notin cell_present /\ Iterate /\ UNCHANGED <<bitpos_, cells>>

CellPresent ==
    /\ i \in cell_present
    /\ \/ /\ Taken(cell_data) /\ Iterate
          /\ cells' = Append(cells, [sat_idx |-> CellAt(i).sat_idx,
                                     sig_idx |-> CellAt(i).sig_idx, fine |-> bitpos_])
       \/ Failed(cell_data) /\ UNCHANGED <<bitpos_, i, cells>>

CellData ==
    /\ pc = "cell"
    /\ \/ i < max_cells /\ (CellAbsent \/ CellPresent)
       \/ i = max_cells /\ NextLoop("report") /\ UNCHANGED <<bitpos_, cells, error>>
    /\ UNCHANGED <<payload, todo, last, text, sat_ids, sig_ids, cell_present, sats, lines>>

\* The last loop of decode_msm writes one line per cell.
Report ==
    /\ pc = "report"
    /\ lines' = [k \in DOMAIN cells |-> Line(k)]
    /\ pc' = "done"
    /\ UNCHANGED <<payload, bitpos_, todo, last, text, i, sat_ids, sig_ids,
                   cell_present, sats, cells, error>>

\* decode() has returned.
Returned == pc = "done" /\ UNCHANGED vars

Step == \/ decode \/ GetFields \/ read_ascii \/ Announcements \/ EndOfReads
        \/ MsmMasks \/ CellMaskBit \/ SatData \/ CellData \/ Report

Next == Step \/ Returned

Spec == Init /\ [][Next]_vars

------------------------------------------------------------------------------
(* Properties.  They are stated on the payload alone, by where the fields of *)
(* a message lie in it, and not on how decode() gets there.                  *)

\* The values of the variables: the cursor of BitReader stays in the payload.
TypeOK ==
    /\ payload \in Seq(0..255)
    /\ pc \in {"start", "read", "cell_mask", "sat", "cell", "report", "done"}
    /\ bitpos_ \in 0..total_bits_
    /\ last \in Nat /\ i \in Nat /\ text \in Seq(Nat)
    /\ sat_ids \subseteq 1..64 /\ sig_ids \subseteq 1..32
    /\ cell_present \subseteq 0..(max_cells - 1)
    /\ Len(sats) <= Cardinality(sat_ids) /\ Len(cells) <= Cardinality(cell_present)

\* The type and the MSM level, by the bytes of the payload.
TypeOf(p) == 16 * p[1] + p[2] \div 16
Level(p) == TypeOf(p) % 10

\* The masks of an MSM payload, and where its parts begin.
Sats(p) == Mask(p, 73, 64)
Sigs(p) == Mask(p, 137, 32)
CellBits(p) == Cardinality(Sats(p)) * Cardinality(Sigs(p))
CellSet(p) == Mask(p, 169, CellBits(p))

SatWidth(p) == IF Level(p) \in {5, 7} THEN 36 ELSE 18
CellWidth(p) == CASE Level(p) = 4 -> 48 [] Level(p) = 5 -> 63
                  [] Level(p) = 6 -> 65 [] Level(p) = 7 -> 80

SatsAt(p) == 169 + CellBits(p)
CellsAt(p) == SatsAt(p) + Cardinality(Sats(p)) * SatWidth(p)
MsmEnd(p) == CellsAt(p) + Cardinality(CellSet(p)) * CellWidth(p)

\* The payload has at least n bits.
Has(n) == n <= total_bits_

\* Text number k of a message starts with its length at position at; what
\* follows the text has n bits, the last of them the length of the next text.
AfterText(at, n) == at + 8 + 8 * Value(payload, at, 8) + n

WholeDescriptor == Has(32) /\ Has(AfterText(24, 8))

Whole1033 ==
    /\ Has(32) /\ Has(AfterText(24, 16))
    /\ LET a == AfterText(24, 8)
       IN  /\ Has(AfterText(a, 8))
           /\ LET b == AfterText(a, 0)
              IN  /\ Has(AfterText(b, 8))
                  /\ Has(AfterText(AfterText(b, 0), 8))

\* Everything the parser of the payload's type needs is there.  The last text
\* of 1008 and 1033 is not counted: it may be cut short.
Whole ==
    Has(16) /\
    LET t == TypeOf(payload)
    IN  /\ t = 1005 => Has(152)
        /\ t = 1006 => Has(168)
        /\ t \in {1007, 1008} => WholeDescriptor
        /\ t = 1008 => Has(AfterText(24, 16))
        /\ t = 1033 => Whole1033
        /\ t = 1013 => Has(62) /\ Has(62 + 29 * Value(payload, 57, 5))
        /\ t = 1019 => Has(56)
        /\ t = 1020 => Has(35)
        /\ t \in {1045, 1046} => Has(48)
        /\ t = 1230 => Has(28)
        /\ t \in 1071..1127 /\ t % 10 \in 4..7 =>
              Has(169) /\ Has(SatsAt(payload)) /\ Has(MsmEnd(payload))

\* A message is reported without an error exactly if it is all there: no parser
\* stops early, reads past the end or asks for a bit too many, whatever lengths,
\* counts and masks the payload announces.
ErrorIffTruncated == pc = "done" => (error = "none" <=> Whole)

\* The n bits at position k are the marker of a missing value.
Marker(k, n) == \A m \in 0..(n - 1) : (Bit(payload, k + m) = 1) <=> (m = 0)

\* Line k of a report is that of cell k of the mask: it has the satellite and
\* the signal the cell stands for, the range of that satellite and the
\* observation of that cell.  The range is N/A exactly where one of them is a
\* marker; the phase, which also needs a known frequency, wherever one of them is.
\* The widths of the markers are those of the fields the code reads.
LineRight(l, k) ==
    LET nsig  == Cardinality(Sigs(payload))
        cell  == Nth(CellSet(payload), k - 1) - 1
        whole == SatsAt(payload) + (cell \div nsig) * SatWidth(payload)
        fine  == CellsAt(payload) + (k - 1) * CellWidth(payload)
        known == \E m \in 0..7 : Bit(payload, whole + m) = 0
    IN  /\ l.sat = Nth(Sats(payload), cell \div nsig)
        /\ l.sig = Nth(Sigs(payload), cell % nsig)
        /\ l.rough.whole = whole
        /\ l.rough.mod = whole + (IF SatWidth(payload) = 36 THEN 12 ELSE 8)
        /\ l.fine = fine
        /\ l.pr_valid <=> known /\ ~Marker(fine, pr_bits)
        /\ l.cp_valid => known /\ ~Marker(fine + pr_bits, cp_bits)

\* The report of an MSM has one line per cell of the mask, in the order of the
\* mask, and each says what the payload says of that cell.
LinesAsMasked ==
    pc = "done" /\ error = "none" /\ IsMsm(Type) =>
        /\ Len(lines) = Cardinality(CellSet(payload))
        /\ \A k \in DOMAIN lines : LineRight(lines[k], k)

\* Every satellite of the report has one heading, above its first line.
OneHeadingPerSatellite ==
    \A k \in DOMAIN lines :
        lines[k].prn <=> \A m \in 1..(k - 1) : lines[m].sat # lines[k].sat

\* The report of an MSM says of every satellite and signal what the payload
\* says of it, and of no other.
ReportExact == LinesAsMasked /\ OneHeadingPerSatellite

\* type_name() names exactly the types that have a parser, and every MSM that
\* is decoded belongs to a system constellation_code() knows: the dispatch and
\* the two tables are written in three places.
NamedIffParsed ==
    Len(payload) >= 2 =>
        /\ Type \in Named <=> Stages(Type) # <<>>
        /\ IsMsm(Type) => constellation_code(Type) # "?"
==============================================================================
