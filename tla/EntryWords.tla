------------------------------ MODULE EntryWords ------------------------------
(***************************************************************************)
(* The words of an entry in DRAM: what ChannelData and Entry (BsaDefs.cc)  *)
(* take from them, and when they have no value to give (NAN).  Words are   *)
(* sets of bit positions, as in SelectionCodes; the conversion to double   *)
(* and the quotients are left out.                                         *)
(***************************************************************************)
EXTENDS SelectionCodes

\* >> of a 32-bit word, << of a 64-bit one.
Down(x, n) == {b \in 0 .. 31 : b + n \in x}
Up(x, n) == {b + n : b \in x} \cap (0 .. 63)

\* A channel as the firmware packs it, from bit 0 of its first word on: 13 bits
\* of count, two exceptions and the flag for a raw value, 32 bits of sum (or
\* raw value), 48 bits of the sum of squares.
Stream(n, flags, sum, squares) ==
    n \cup {b + 13 : b \in flags} \cup {b + 16 : b \in sum} \cup {b + 48 : b \in squares}
Packed(n, flags, sum, squares) ==
    [i \in 0 .. 2 |-> Field(Stream(n, flags, sum, squares), 32 * i, 32)]

N(d) == Mask(d[0], 13)
Excpt(d) == d[0] \cap {13, 14} # {}
Fixed(d) == 15 \in d[0]
Raw(d) == Down(d[0], 16) \cup Shift(d[1], 16)
Sum(d) == Shift(Mask(d[1], 16), 16) \cup Down(d[0], 16)
Squares(d) == Up(d[2], 16) \cup Down(d[1], 16)

\* mean() and rms2() return a number; the first looks at one of the two
\* exceptions.
HasMean(d) == Fixed(d) \/ (13 \notin d[0] /\ N(d) # {})
HasRms2(d) == Fixed(d) \/ (N(d) # {} /\ ~Excpt(d))

\* The head of an entry.
NChannels(h) == Down(h[0], 16)
PulseId(h) == Up(h[2], 32) \cup h[1]
=============================================================================
