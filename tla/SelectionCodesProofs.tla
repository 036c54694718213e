------------------------- MODULE SelectionCodesProofs -------------------------
(***************************************************************************)
(* What the hardware decodes from a selection word is what the caller      *)
(* asked for, cut to the width of its field, for every argument; and what  *)
(* the software decodes from an entry is what the hardware packed.         *)
(***************************************************************************)
EXTENDS EntryWords, TLAPS

\* A field holds exactly the bits from its first position on.
LEMMA FieldBits ==
    ASSUME NEW w, NEW lo \in Nat, NEW n \in Nat, NEW x,
           \A b \in 0 .. n - 1 : b + lo \in w <=> b \in x
    PROVE  Field(w, lo, n) = Mask(x, n)
BY DEF Field, Mask

\* A masked and shifted argument sits at its place, and nowhere else.
LEMMA ShiftBits ==
    ASSUME NEW x, NEW n \in Nat, NEW lo \in Nat, n + lo <= 32, NEW p \in Int
    PROVE  p \in Shift(Mask(x, n), lo) <=> p - lo \in x /\ p - lo \in 0 .. n - 1
<1>1. ASSUME p \in Shift(Mask(x, n), lo) PROVE p - lo \in x /\ p - lo \in 0 .. n - 1
  <2>1. PICK b \in Mask(x, n) : p = b + lo
    BY <1>1 DEF Shift
  <2> QED BY <2>1 DEF Mask
<1>2. ASSUME p - lo \in x, p - lo \in 0 .. n - 1 PROVE p \in Shift(Mask(x, n), lo)
  <2>1. p - lo \in Mask(x, n) /\ p = (p - lo) + lo /\ p \in 0 .. 31
    BY <1>2 DEF Mask
  <2> QED BY <2>1 DEF Shift
<1> QED BY <1>1, <1>2

\* A mask leaves what fits it as it is.
LEMMA MaskWithin ==
    ASSUME NEW n \in Nat, NEW x \in SUBSET (0 .. n - 1)
    PROVE  Mask(x, n) = x
BY DEF Mask

\* AcqServiceYaml::setACRate: mode, time slots and rate come back apart.
THEOREM ACRateDecodes ==
    ASSUME NEW ts \in Word, NEW rate \in Word
    PROVE  /\ Field(ACRate(ts, rate), 11, 2) = {0}
           /\ Field(ACRate(ts, rate), 3, 6) = Mask(ts, 6)
           /\ Field(ACRate(ts, rate), 0, 3) = Mask(rate, 3)
<1> DEFINE w == ACRate(ts, rate)
<1>1. \A p \in Int : p \in w <=> \/ p = 11
                                 \/ p - 3 \in ts /\ p - 3 \in 0 .. 5
                                 \/ p \in rate /\ p \in 0 .. 2
  <2>1. \A p \in Int : p \in Shift(Mask(ts, 6), 3) <=> p - 3 \in ts /\ p - 3 \in 0 .. 5
    BY ShiftBits
  <2>2. \A p \in Int : p \in Mask(rate, 3) <=> p \in rate /\ p \in 0 .. 2
    BY DEF Mask
  <2> QED BY <2>1, <2>2 DEF ACRate
<1> HIDE DEF w
<1>2. \A b \in 0 .. 5 : b + 3 \in w <=> b \in ts
  BY <1>1
<1>3. \A b \in 0 .. 2 : b + 0 \in w <=> b \in rate
  BY <1>1
<1>4. \A b \in 0 .. 1 : b + 11 \in w <=> b \in {0}
  BY <1>1
<1>5. Mask({0}, 2) = {0}
  BY DEF Mask
<1>6. Field(w, 11, 2) = Mask({0}, 2)
  BY <1>4, FieldBits
<1>7. Field(w, 3, 6) = Mask(ts, 6)
  BY <1>2, FieldBits
<1>8. Field(w, 0, 3) = Mask(rate, 3)
  BY <1>3, FieldBits
<1> QED BY <1>5, <1>6, <1>7, <1>8 DEF w

\* AcqServiceYaml::setSeqRate and BsasControlYaml::SetSeqBit with two arguments
\* write the same word, although only the latter masks it again.
THEOREM ServicesAgree ==
    ASSUME NEW num \in Word, NEW bit \in Word
    PROVE  SeqBits(num, bit) = SeqRate(num, bit)
<1>1. \A p \in Shift(Mask(num, 5), 4) : p \in 0 .. 9
  BY DEF Shift, Mask
<1>2. \A p \in Mask(bit, 4) : p \in 0 .. 9
  BY DEF Mask
<1>3. Mask(Shift(Mask(num, 5), 4) \cup Mask(bit, 4), 10) = Shift(Mask(num, 5), 4) \cup Mask(bit, 4)
  <2> DEFINE x == Shift(Mask(num, 5), 4) \cup Mask(bit, 4)
  <2>1. \A p \in x : p \in 0 .. 9
    BY <1>1, <1>2
  <2> HIDE DEF x
  <2>2. Mask(x, 10) = x
    BY <2>1 DEF Mask
  <2> QED BY <2>2 DEF x
<1> QED BY <1>3 DEF SeqBits, SeqRate

\* The statistics word of AmcCarrier::start: the three fields do not disturb each
\* other, whatever the arguments.
THEOREM StatSelDecodes ==
    ASSUME NEW nacq \in Word, NEW naccum \in Word, NEW sevr \in Word
    PROVE  /\ Field(StatSel(nacq, naccum, sevr), 0, 13) = Mask(naccum, 13)
           /\ Field(StatSel(nacq, naccum, sevr), 14, 2) = Mask(sevr, 2)
           /\ Field(StatSel(nacq, naccum, sevr), 16, 16) = Mask(nacq, 16)
<1> DEFINE w == StatSel(nacq, naccum, sevr)
<1>1. \A p \in Int : p \in Shift(nacq, 16) <=> p - 16 \in nacq /\ p \in 16 .. 31
  <2> TAKE p \in Int
  <2>1. ASSUME p \in Shift(nacq, 16) PROVE p - 16 \in nacq /\ p \in 16 .. 31
    <3>1. PICK b \in nacq : p = b + 16
      BY <2>1 DEF Shift
    <3>2. b \in 0 .. 31 /\ p \in 0 .. 31
      BY <2>1 DEF Shift, Word
    <3> QED BY <3>1, <3>2
  <2>2. ASSUME p - 16 \in nacq, p \in 16 .. 31 PROVE p \in Shift(nacq, 16)
    BY <2>2 DEF Shift
  <2> QED BY <2>1, <2>2
<1>2. \A p \in Int : p \in w <=> \/ p - 16 \in nacq /\ p \in 16 .. 31
                                 \/ p \in naccum /\ p \in 0 .. 12
                                 \/ p - 14 \in sevr /\ p - 14 \in 0 .. 1
  <2>1. \A p \in Int : p \in Shift(Mask(sevr, 2), 14) <=> p - 14 \in sevr /\ p - 14 \in 0 .. 1
    BY ShiftBits
  <2>2. \A p \in Int : p \in Mask(naccum, 13) <=> p \in naccum /\ p \in 0 .. 12
    BY DEF Mask
  <2> QED BY <1>1, <2>1, <2>2 DEF StatSel
<1> HIDE DEF w
<1>3. \A b \in 0 .. 12 : b + 0 \in w <=> b \in naccum
  BY <1>2
<1>4. \A b \in 0 .. 1 : b + 14 \in w <=> b \in sevr
  BY <1>2
<1>5. \A b \in 0 .. 15 : b + 16 \in w <=> b \in nacq
  BY <1>2
<1>6. Field(w, 0, 13) = Mask(naccum, 13)
  BY <1>3, FieldBits
<1>7. Field(w, 14, 2) = Mask(sevr, 2)
  BY <1>4, FieldBits
<1>8. Field(w, 16, 16) = Mask(nacq, 16)
  BY <1>5, FieldBits
<1> QED BY <1>6, <1>7, <1>8 DEF w

\* The selection word of AmcCarrier::start, for an AC rate: rate and destination
\* come back apart while the time slots fit their eight bits, which nothing in
\* RateSelect sees to.
THEOREM EventSelDecodes ==
    ASSUME NEW dest \in Word, NEW excl \in BOOLEAN, NEW rate \in Word,
           NEW ats \in SUBSET (0 .. 7)
    PROVE  /\ Field(EventSel(Beam(dest, excl), TpgAC(rate, ats)), 3, 8) = ats
           /\ Field(EventSel(Beam(dest, excl), TpgAC(rate, ats)), 11, 2) = {0}
           /\ Field(EventSel(Beam(dest, excl), TpgAC(rate, ats)), 13, 16) = Mask(dest, 16)
           /\ Field(EventSel(Beam(dest, excl), TpgAC(rate, ats)), 29, 1) = IF excl THEN {0} ELSE {}
<1> DEFINE beam == Beam(dest, excl)
           r == TpgAC(rate, ats)
           w == EventSel(beam, r)
<1>1. \A p \in Int : p \in r <=> \/ p = 11
                                 \/ p \in rate /\ p \in 0 .. 2
                                 \/ p - 3 \in ats
  <2>1. Mask(ats, 8) = ats
    <3>1. ats \in SUBSET (0 .. 8 - 1)
      OBVIOUS
    <3> QED BY <3>1, MaskWithin
  <2>2. \A p \in Int : p \in Shift(ats, 3) <=> p - 3 \in ats
    BY <2>1, ShiftBits
  <2> QED BY <2>2 DEF TpgAC, Mask
<1>2. \A p \in Int : p \in beam <=> \/ excl /\ p = 16
                                    \/ p \in dest /\ p \in 0 .. 15
  BY DEF Beam, Mask
<1>3. Mask(beam, 17) = beam
  <2>1. beam \subseteq Int
    BY DEF Beam, Mask
  <2> HIDE DEF beam
  <2>2. \A p \in beam : p \in 0 .. 16
    BY <1>2, <2>1
  <2>3. beam \in SUBSET (0 .. 17 - 1)
    BY <2>2
  <2> QED BY <2>3, MaskWithin
<1>4. \A p \in Int : p \in Shift(beam, 13) <=> p - 13 \in beam
  <2>1. \A p \in Int : p \in Shift(Mask(beam, 17), 13) <=> p - 13 \in beam /\ p - 13 \in 0 .. 16
    BY ShiftBits
  <2>2. \A p \in beam : p \in 0 .. 16
    <3> HIDE DEF beam
    <3> QED BY <1>3 DEF Mask
  <2> HIDE DEF beam
  <2> QED BY <1>3, <2>1, <2>2
<1>5. \A p \in Int : p \in w <=> p - 13 \in beam \/ p \in r
  <2> HIDE DEF beam, r
  <2> QED BY <1>4 DEF EventSel
<1> HIDE DEF beam, r, w
<1>6. \A b \in 0 .. 7 : b + 3 \in w <=> b \in ats
  BY <1>1, <1>2, <1>5
<1>7. \A b \in 0 .. 1 : b + 11 \in w <=> b \in {0}
  BY <1>1, <1>2, <1>5
<1>8. \A b \in 0 .. 15 : b + 13 \in w <=> b \in dest
  BY <1>1, <1>2, <1>5
<1>9. \A b \in 0 .. 0 : b + 29 \in w <=> b \in (IF excl THEN {0} ELSE {})
  BY <1>1, <1>2, <1>5
<1>10. Field(w, 3, 8) = Mask(ats, 8) /\ Mask(ats, 8) = ats
  <2>1. Mask(ats, 8) = ats
    <3>1. ats \in SUBSET (0 .. 8 - 1)
      OBVIOUS
    <3> QED BY <3>1, MaskWithin
  <2> QED BY <1>6, <2>1, FieldBits
<1>11. Field(w, 11, 2) = Mask({0}, 2) /\ Mask({0}, 2) = {0}
  <2>1. Mask({0}, 2) = {0}
    BY DEF Mask
  <2> QED BY <1>7, <2>1, FieldBits
<1>12. Field(w, 13, 16) = Mask(dest, 16)
  BY <1>8, FieldBits
<1>13. Field(w, 29, 1) = IF excl THEN {0} ELSE {}
  BY <1>9 DEF Field
<1> QED BY <1>10, <1>11, <1>12, <1>13 DEF w, beam, r
-----------------------------------------------------------------------------

\* Two words with the same bits are the same.
LEMMA SameBits ==
    ASSUME NEW S, NEW x \in SUBSET S, NEW y \in SUBSET S, \A p \in S : p \in x <=> p \in y
    PROVE  x = y
OBVIOUS

\* A bit of the packed stream belongs to one of the fields only.
LEMMA StreamBits ==
    ASSUME NEW n \in SUBSET (0 .. 12), NEW flags \in SUBSET (0 .. 2), NEW sum \in Word,
           NEW squares \in SUBSET (0 .. 47), NEW p \in Int
    PROVE  p \in Stream(n, flags, sum, squares) <=>
             \/ p \in n
             \/ p - 13 \in flags
             \/ p - 16 \in sum
             \/ p - 48 \in squares
<1>1. p \in {b + 13 : b \in flags} <=> p - 13 \in flags
  <2>1. \A b \in flags : b \in Int
    OBVIOUS
  <2>2. p - 13 \in flags => p = (p - 13) + 13
    OBVIOUS
  <2> QED BY <2>1, <2>2
<1>2. p \in {b + 16 : b \in sum} <=> p - 16 \in sum
  <2>1. \A b \in sum : b \in Int
    BY DEF Word
  <2>2. p - 16 \in sum => p = (p - 16) + 16
    OBVIOUS
  <2> QED BY <2>1, <2>2
<1>3. p \in {b + 48 : b \in squares} <=> p - 48 \in squares
  <2>1. \A b \in squares : b \in Int
    OBVIOUS
  <2>2. p - 48 \in squares => p = (p - 48) + 48
    OBVIOUS
  <2> QED BY <2>1, <2>2
<1> QED BY <1>1, <1>2, <1>3 DEF Stream

\* The three words of a packed channel, bit by bit.
LEMMA PackedBits ==
    ASSUME NEW n \in SUBSET (0 .. 12), NEW flags \in SUBSET (0 .. 2), NEW sum \in Word,
           NEW squares \in SUBSET (0 .. 47), NEW p \in Int
    PROVE  LET d == Packed(n, flags, sum, squares) IN
           /\ p \in d[0] <=> p \in 0 .. 31 /\ (p \in n \/ p - 13 \in flags \/ p - 16 \in sum)
           /\ p \in d[1] <=> p \in 0 .. 31 /\ (p + 16 \in sum \/ p - 16 \in squares)
           /\ p \in d[2] <=> p \in 0 .. 31 /\ p + 16 \in squares
<1> DEFINE s == Stream(n, flags, sum, squares)
           d == Packed(n, flags, sum, squares)
<1>1. d[0] = Field(s, 0, 32) /\ d[1] = Field(s, 32, 32) /\ d[2] = Field(s, 64, 32)
  BY DEF Packed
<1>2. /\ p + 0 \in s <=> p \in n \/ p - 13 \in flags \/ p - 16 \in sum \/ p - 48 \in squares
      /\ p + 32 \in s <=> p + 32 \in n \/ p + 19 \in flags \/ p + 16 \in sum \/ p - 16 \in squares
      /\ p + 64 \in s <=> p + 64 \in n \/ p + 51 \in flags \/ p + 48 \in sum \/ p + 16 \in squares
  <2>1. p + 0 = p /\ p + 32 \in Int /\ p + 64 \in Int
    OBVIOUS
  <2>2. /\ (p + 32) - 13 = p + 19 /\ (p + 32) - 16 = p + 16 /\ (p + 32) - 48 = p - 16
        /\ (p + 64) - 13 = p + 51 /\ (p + 64) - 16 = p + 48 /\ (p + 64) - 48 = p + 16
    OBVIOUS
  <2>3. p + 32 \in s <=> p + 32 \in n \/ (p + 32) - 13 \in flags \/ (p + 32) - 16 \in sum \/ (p + 32) - 48 \in squares
    BY <2>1, StreamBits
  <2>4. p + 64 \in s <=> p + 64 \in n \/ (p + 64) - 13 \in flags \/ (p + 64) - 16 \in sum \/ (p + 64) - 48 \in squares
    BY <2>1, StreamBits
  <2>5. p \in s <=> p \in n \/ p - 13 \in flags \/ p - 16 \in sum \/ p - 48 \in squares
    BY StreamBits
  <2> QED BY <2>1, <2>2, <2>3, <2>4, <2>5
<1> HIDE DEF s, d
<1>3. /\ p \in d[0] <=> p \in 0 .. 31 /\ p + 0 \in s
      /\ p \in d[1] <=> p \in 0 .. 31 /\ p + 32 \in s
      /\ p \in d[2] <=> p \in 0 .. 31 /\ p + 64 \in s
  BY <1>1 DEF Field
<1>4. p \in 0 .. 31 => /\ p - 48 \notin squares
                      /\ p + 32 \notin n /\ p + 19 \notin flags
                      /\ p + 64 \notin n /\ p + 51 \notin flags /\ p + 48 \notin sum
  BY DEF Word
<1>5. /\ p \in d[0] <=> p \in 0 .. 31 /\ (p \in n \/ p - 13 \in flags \/ p - 16 \in sum)
      /\ p \in d[1] <=> p \in 0 .. 31 /\ (p + 16 \in sum \/ p - 16 \in squares)
      /\ p \in d[2] <=> p \in 0 .. 31 /\ p + 16 \in squares
  BY <1>2, <1>3, <1>4
<1> QED BY <1>5 DEF d

\* What ChannelData takes from a packed channel is what was packed: the count,
\* the flags, the sum that crosses from the first word into the second, and the
\* sum of squares that crosses from the second into the third.
THEOREM ChannelDecodes ==
    ASSUME NEW n \in SUBSET (0 .. 12), NEW flags \in SUBSET (0 .. 2), NEW sum \in Word,
           NEW squares \in SUBSET (0 .. 47)
    PROVE  LET d == Packed(n, flags, sum, squares) IN
           /\ N(d) = n
           /\ Excpt(d) <=> flags \cap {0, 1} # {}
           /\ Fixed(d) <=> 2 \in flags
           /\ Raw(d) = sum
           /\ Sum(d) = sum
           /\ Squares(d) = squares
<1> DEFINE d == Packed(n, flags, sum, squares)
<1>1. \A p \in Int :
        /\ p \in d[0] <=> p \in 0 .. 31 /\ (p \in n \/ p - 13 \in flags \/ p - 16 \in sum)
        /\ p \in d[1] <=> p \in 0 .. 31 /\ (p + 16 \in sum \/ p - 16 \in squares)
        /\ p \in d[2] <=> p \in 0 .. 31 /\ p + 16 \in squares
  BY PackedBits
<1> HIDE DEF d
<1>2. N(d) = n
  <2>1. \A p \in 0 .. 12 : p \in d[0] <=> p \in n
    BY <1>1 DEF Word
  <2>2. Mask(d[0], 13) = d[0] \cap (0 .. 12)
    BY DEF Mask
  <2>3. d[0] \cap (0 .. 12) = n
    BY <2>1
  <2> QED BY <2>2, <2>3 DEF N
<1>3. (13 \in d[0] <=> 0 \in flags) /\ (14 \in d[0] <=> 1 \in flags) /\ (15 \in d[0] <=> 2 \in flags)
  <2>1. \A i \in 0 .. 2 : i + 13 \in d[0] <=> i \in flags
    <3> TAKE i \in 0 .. 2
    <3>1. i + 13 \in d[0] <=> (i + 13 \in n \/ (i + 13) - 13 \in flags \/ (i + 13) - 16 \in sum)
      BY <1>1
    <3>2. i + 13 \notin n /\ (i + 13) - 16 \notin sum /\ (i + 13) - 13 = i
      BY DEF Word
    <3> QED BY <3>1, <3>2
  <2>2. 0 + 13 = 13 /\ 1 + 13 = 14 /\ 2 + 13 = 15
    OBVIOUS
  <2> QED BY <2>1, <2>2
<1>4. \A p \in 0 .. 31 : p \in Down(d[0], 16) <=> p \in 0 .. 15 /\ p \in sum
  <2> TAKE p \in 0 .. 31
  <2>1. p + 16 \in d[0] <=> p + 16 \in 0 .. 31 /\ (p + 16 \in n \/ (p + 16) - 13 \in flags \/ (p + 16) - 16 \in sum)
    BY <1>1
  <2>2. p + 16 \notin n /\ (p + 16) - 13 \notin flags /\ (p + 16) - 16 = p
    OBVIOUS
  <2>3. p + 16 \in 0 .. 31 <=> p \in 0 .. 15
    OBVIOUS
  <2> QED BY <2>1, <2>2, <2>3 DEF Down
<1>5. \A p \in 0 .. 15 : p \in d[1] <=> p + 16 \in sum
  <2> TAKE p \in 0 .. 15
  <2>1. p \in d[1] <=> p + 16 \in sum \/ p - 16 \in squares
    BY <1>1
  <2> QED BY <2>1
<1>6. \A p \in 0 .. 31 : p \in Shift(Mask(d[1], 16), 16) <=> p \in 16 .. 31 /\ p \in sum
  <2> TAKE p \in 0 .. 31
  <2>1. p \in Shift(Mask(d[1], 16), 16) <=> p - 16 \in d[1] /\ p - 16 \in 0 .. 15
    BY ShiftBits
  <2>2. p - 16 \in 0 .. 15 => (p - 16 \in d[1] <=> (p - 16) + 16 \in sum)
    BY <1>5
  <2>3. (p - 16) + 16 = p /\ (p - 16 \in 0 .. 15 <=> p \in 16 .. 31)
    OBVIOUS
  <2> QED BY <2>1, <2>2, <2>3
<1>7. Sum(d) = sum
  <2>1. Shift(Mask(d[1], 16), 16) \subseteq 0 .. 31 /\ Down(d[0], 16) \subseteq 0 .. 31 /\ sum \subseteq 0 .. 31
    BY DEF Shift, Down, Word
  <2>2. \A p \in 0 .. 31 : p \in Shift(Mask(d[1], 16), 16) \/ p \in Down(d[0], 16) <=> p \in sum
    BY <1>4, <1>6
  <2> QED BY <2>1, <2>2 DEF Sum
<1>8. Raw(d) = Sum(d)
  <2>1. Shift(d[1], 16) = Shift(Mask(d[1], 16), 16)
    <3>1. \A b \in d[1] : b + 16 \in 0 .. 31 => b \in Mask(d[1], 16)
      <4>1. d[1] \subseteq 0 .. 31
        BY DEF d, Packed, Field
      <4> QED BY <4>1 DEF Mask
    <3> QED BY <3>1 DEF Shift, Mask
  <2> QED BY <2>1 DEF Raw, Sum
<1>9. Squares(d) = squares
  <2>1. \A p \in 0 .. 47 : p \in Down(d[1], 16) <=> p \in 0 .. 15 /\ p \in squares
    <3> TAKE p \in 0 .. 47
    <3>1. p + 16 \in d[1] <=> p + 16 \in 0 .. 31 /\ ((p + 16) + 16 \in sum \/ (p + 16) - 16 \in squares)
      BY <1>1
    <3>2. (p + 16) + 16 \notin sum /\ (p + 16) - 16 = p
      BY DEF Word
    <3>3. p + 16 \in 0 .. 31 <=> p \in 0 .. 15
      OBVIOUS
    <3> QED BY <3>1, <3>2, <3>3 DEF Down
  <2>2. \A p \in 0 .. 47 : p \in Up(d[2], 16) <=> p \in 16 .. 47 /\ p \in squares
    <3> TAKE p \in 0 .. 47
    <3>1. p - 16 \in d[2] <=> p - 16 \in 0 .. 31 /\ (p - 16) + 16 \in squares
      BY <1>1
    <3>2. p \in Up(d[2], 16) <=> p - 16 \in d[2]
      <4>1. \A b \in d[2] : b \in Int
        BY DEF d, Packed, Field
      <4>2. p - 16 \in d[2] => p = (p - 16) + 16
        OBVIOUS
      <4> QED BY <4>1, <4>2 DEF Up
    <3>3. (p - 16) + 16 = p /\ (p - 16 \in 0 .. 31 <=> p \in 16 .. 47)
      OBVIOUS
    <3> QED BY <3>1, <3>2, <3>3
  <2>3. Up(d[2], 16) \subseteq 0 .. 47 /\ Down(d[1], 16) \subseteq 0 .. 47
    <3>1. d[2] \subseteq 0 .. 31
      BY DEF d, Packed, Field
    <3> QED BY <3>1 DEF Up, Down
  <2>4. \A p \in 0 .. 47 : p \in Squares(d) <=> p \in squares
    BY <2>1, <2>2 DEF Squares
  <2>5. Squares(d) \subseteq 0 .. 47
    BY <2>3 DEF Squares
  <2> QED BY <2>4, <2>5, SameBits
<1>10. Excpt(d) <=> flags \cap {0, 1} # {}
  BY <1>3 DEF Excpt
<1>11. Fixed(d) <=> 2 \in flags
  BY <1>3 DEF Fixed
<1> QED BY <1>2, <1>7, <1>8, <1>9, <1>10, <1>11 DEF d

\* A channel that has a variance has a mean, although the two functions test
\* different exceptions; the reverse does not hold.
THEOREM VarianceHasMean ==
    ASSUME NEW d, HasRms2(d)
    PROVE  HasMean(d)
BY DEF HasRms2, HasMean, Excpt

\* The pulse id of an entry is its second and third word, for every id.
THEOREM PulseIdDecodes ==
    ASSUME NEW pid \in SUBSET (0 .. 63), NEW h, h[1] = Field(pid, 0, 32), h[2] = Field(pid, 32, 32)
    PROVE  PulseId(h) = pid
<1>1. \A p \in 0 .. 63 : p \in Up(h[2], 32) <=> p \in 32 .. 63 /\ p \in pid
  <2> TAKE p \in 0 .. 63
  <2>1. p - 32 \in h[2] <=> p - 32 \in 0 .. 31 /\ (p - 32) + 32 \in pid
    BY DEF Field
  <2>2. p \in Up(h[2], 32) <=> p - 32 \in h[2]
    <3>1. \A b \in h[2] : b \in Int
      BY DEF Field
    <3>2. p - 32 \in h[2] => p = (p - 32) + 32
      OBVIOUS
    <3> QED BY <3>1, <3>2 DEF Up
  <2>3. (p - 32) + 32 = p /\ (p - 32 \in 0 .. 31 <=> p \in 32 .. 63)
    OBVIOUS
  <2> QED BY <2>1, <2>2, <2>3
<1>2. \A p \in 0 .. 63 : p \in h[1] <=> p \in 0 .. 31 /\ p \in pid
  BY DEF Field
<1>3. Up(h[2], 32) \subseteq 0 .. 63 /\ h[1] \subseteq 0 .. 63
  BY DEF Up, Field
<1>4. \A p \in 0 .. 63 : p \in PulseId(h) <=> p \in pid
  BY <1>1, <1>2 DEF PulseId
<1>5. PulseId(h) \subseteq 0 .. 63
  BY <1>3 DEF PulseId
<1> QED BY <1>4, <1>5, SameBits
=============================================================================
