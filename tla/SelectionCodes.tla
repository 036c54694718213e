---------------------------- MODULE SelectionCodes ----------------------------
(***************************************************************************)
(* The register words that select pulses: rate, destination and the sums   *)
(* of an acquisition (BsaDefs.cc, AmcCarrier.cc, AcqServiceYaml.cc,        *)
(* BsasYaml.cc).  A word is the set of the positions of its 1 bits: OR is  *)
(* union, AND with 2^n - 1 is Mask, << is Shift.                           *)
(***************************************************************************)
EXTENDS Integers

Word == SUBSET (0 .. 31)
Mask(x, n) == x \cap (0 .. n - 1)
Shift(x, n) == {b + n : b \in x} \cap (0 .. 31)

\* What the firmware takes from a word: n bits from bit lo on.
Field(w, lo, n) == {b \in 0 .. n - 1 : b + lo \in w}

\* AcqServiceYaml, BsasControlYaml: bits 11 and 12 are the mode (fixed, AC,
\* sequence), the fields below are masked.
FixedRate(rate) == Mask(rate, 4)
ACRate(ts, rate) == {11} \cup Shift(Mask(ts, 6), 3) \cup Mask(rate, 3)
SeqRate(num, bit) == {12} \cup Shift(Mask(num, 5), 4) \cup Mask(bit, 4)

\* BsasControlYaml::SetSeqBit with one argument, and with two.
SeqBit(bit) == {12} \cup Mask(bit, 10)
SeqBits(num, bit) == {12} \cup Mask(Shift(Mask(num, 5), 4) \cup Mask(bit, 4), 10)

\* Destinations: bits 16 and 17 are the mode (inclusion, exclusion, disabled).
DestInclusion(dest) == Mask(dest, 16)
DestExclusion(dest) == {16} \cup Mask(dest, 16)
DestDisable == {17}

\* RateSelect, which the carrier's TPG is given: the time slots are not masked,
\* the sequence has its bits elsewhere than SeqRate.
TpgFixed(rate) == Mask(rate, 10)
TpgAC(rate, ats) == {11} \cup Mask(rate, 3) \cup Shift(ats, 3)
TpgSeq(idx, bit) == {12} \cup Shift(Mask(idx, 5), 5) \cup Mask(bit, 5)

\* BeamSelect, and the EventSel and StatSel words of AmcCarrier::start.
Beam(dest, excl) == (IF excl THEN {16} ELSE {}) \cup Mask(dest, 16)
EventSel(beam, rate) == Shift(beam, 13) \cup rate
StatSel(nacq, naccum, sevr) == Shift(nacq, 16) \cup Mask(naccum, 13) \cup Shift(Mask(sevr, 2), 14)
=============================================================================
