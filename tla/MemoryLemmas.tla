---------------------------- MODULE MemoryLemmas ----------------------------
(***************************************************************************)
(* Facts about products, quotients and sequences that the proofs about     *)
(* addresses and entry counts rest on, and about the entries assembled     *)
(* from units of memory: both readouts fetch in the same way.              *)
(***************************************************************************)
EXTENDS BsaMemory, SequenceTheorems, TLAPS

-----------------------------------------------------------------------------
(* Arithmetic and sequences *)

\* Multiplication keeps the order of naturals.
LEMMA TimesMonotone ==
    ASSUME NEW x \in Nat, NEW y \in Nat, NEW c \in Nat, x <= y
    PROVE  x * c <= y * c
<1>1. PICK d \in Nat : y = x + d
  <2>1. y - x \in Nat /\ y = x + (y - x)
    OBVIOUS
  <2> QED BY <2>1
<1>2. y * c = x * c + d * c
  BY <1>1
<1>3. d * c \in Nat /\ x * c \in Nat
  OBVIOUS
<1> QED BY <1>2, <1>3

\* Quotient and remainder by a positive number.
LEMMA Division ==
    ASSUME NEW x \in Nat, NEW c \in Nat \ {0}
    PROVE  /\ x \div c \in Nat /\ (x \div c) * c <= x /\ x < (x \div c) * c + c
           /\ x % c \in Nat /\ x % c <= x /\ x % c < c
OBVIOUS

\* Numbers are ordered as their multiples are.
LEMMA TimesOrder ==
    ASSUME NEW x \in Nat, NEW y \in Nat, NEW c \in Nat \ {0}
    PROVE  /\ x * c \in Nat /\ y * c \in Nat /\ (x + y) * c = x * c + y * c
           /\ x < y <=> x * c < y * c
           /\ x = y <=> x * c = y * c
<1>1. x * c \in Nat /\ y * c \in Nat /\ (x + y) * c = x * c + y * c
  OBVIOUS
<1>2. ASSUME NEW a \in Nat, NEW b \in Nat, a < b PROVE a * c < b * c
  <2>1. (a + 1) * c <= b * c
    BY <1>2, TimesMonotone
  <2>2. (a + 1) * c = a * c + c /\ a * c \in Nat /\ b * c \in Nat
    OBVIOUS
  <2> QED BY <2>1, <2>2
<1>3. CASE x < y
  BY <1>1, <1>2, <1>3
<1>4. CASE y < x
  <2>1. y * c < x * c
    BY <1>2, <1>4
  <2> QED BY <1>1, <1>4, <2>1
<1>5. CASE x = y
  BY <1>1, <1>5
<1> QED BY <1>3, <1>4, <1>5

\* Division undoes multiplication.
LEMMA ExactDivision ==
    ASSUME NEW m \in Nat, NEW c \in Nat \ {0}
    PROVE  (m * c) \div c = m
<1> DEFINE q == (m * c) \div c
<1>1. m * c \in Nat /\ q \in Nat /\ q * c <= m * c /\ m * c < q * c + c
  BY Division
<1>2. ~(q + 1 <= m)
  <2>1. ASSUME q + 1 <= m PROVE FALSE
    <3>1. (q + 1) * c <= m * c
      BY <1>1, <2>1, TimesMonotone
    <3>2. (q + 1) * c = q * c + c
      BY <1>1
    <3> QED BY <1>1, <3>1, <3>2
  <2> QED BY <2>1
<1>3. ~(m + 1 <= q)
  <2>1. ASSUME m + 1 <= q PROVE FALSE
    <3>1. (m + 1) * c <= q * c
      BY <1>1, <2>1, TimesMonotone
    <3>2. (m + 1) * c = m * c + c
      BY <1>1
    <3> QED BY <1>1, <3>1, <3>2
  <2> QED BY <2>1
<1> QED BY <1>1, <1>2, <1>3

\* A function over 1 .. n is a sequence, whatever the integer n.
LEMMA FunctionIsSeq ==
    ASSUME NEW S, NEW n \in Int, NEW f, DOMAIN f = 1 .. n,
           f = [i \in DOMAIN f |-> f[i]], \A i \in 1 .. n : f[i] \in S
    PROVE  f \in Seq(S)
<1>1. CASE n \in Nat
  BY <1>1
<1>2. CASE n \notin Nat
  <2>1. 1 .. n = 1 .. 0
    BY <1>2
  <2> QED BY <2>1
<1> QED BY <1>1, <1>2

\* The end of a sequence is a sequence over the same set.
LEMMA Suffix ==
    ASSUME NEW S, NEW s \in Seq(S), NEW m \in 1 .. Len(s) + 1
    PROVE  SubSeq(s, m, Len(s)) \in Seq(S)
OBVIOUS

\* The i-th of n entries of c units begins within the n * c units.
LEMMA EntryOffset ==
    ASSUME NEW n \in Int, NEW i \in 1 .. n, NEW c \in Nat \ {0}
    PROVE  (i - 1) * c \in 0 .. n * c - 1
<1>1. i - 1 \in Nat /\ n \in Nat /\ i \in Nat
  OBVIOUS
<1>2. i * c <= n * c
  BY <1>1, TimesMonotone
<1>3. i * c = (i - 1) * c + c /\ (i - 1) * c \in Nat /\ n * c \in Nat
  BY <1>1
<1> QED BY <1>2, <1>3

\* The remainder of a number that is given as so many units and a rest.
LEMMA Remainder ==
    ASSUME NEW q \in Nat, NEW c \in Nat \ {0}, NEW r \in 0 .. c - 1
    PROVE  (q * c + r) % c = r
<1> DEFINE x == q * c + r
           d == x \div c
<1>1. q * c \in Nat /\ x \in Nat /\ d \in Nat
  BY Division
<1>2. d * c \in Nat /\ x = d * c + (x % c) /\ x % c \in 0 .. c - 1
  <2>1. x % c = x - c * d
    BY <1>1
  <2>2. c * d = d * c /\ d * c \in Nat
    BY <1>1
  <2> HIDE DEF x, d
  <2> QED BY <1>1, <2>1, <2>2, Division
<1> HIDE DEF x
<1>3. ~(d + 1 <= q)
  <2>1. ASSUME d + 1 <= q PROVE FALSE
    <3>1. (d + 1) * c <= q * c /\ (d + 1) * c = d * c + c
      BY <1>1, <2>1, TimesMonotone
    <3> QED BY <1>1, <1>2, <3>1 DEF x
  <2> QED BY <2>1
<1>4. ~(q + 1 <= d)
  <2>1. ASSUME q + 1 <= d PROVE FALSE
    <3>1. (q + 1) * c <= d * c /\ (q + 1) * c = q * c + c
      BY <1>1, <2>1, TimesMonotone
    <3> QED BY <1>1, <1>2, <3>1 DEF x
  <2> QED BY <2>1
<1>5. d = q
  BY <1>1, <1>3, <1>4
<1> QED BY <1>1, <1>2, <1>5 DEF x

\* A sequence of at most one element that has one.
LEMMA Singleton ==
    ASSUME NEW S, NEW s \in Seq(S), Len(s) <= 1, s # <<>>
    PROVE  Len(s) = 1 /\ Head(s) \in S /\ s = <<Head(s)>> /\ Tail(s) = <<>>
<1>1. Len(s) = 1 /\ Head(s) \in S /\ Head(s) = s[1]
  <2>1. Len(s) \in Nat \ {0}
    BY EmptySeq
  <2>2. Head(s) \in S
    BY HeadTailProperties
  <2>3. Len(s) = 1
    BY <2>1
  <2>4. Head(s) = s[1]
    OBVIOUS
  <2> QED BY <2>2, <2>3, <2>4
<1>2. PICK t : t = <<s[1]>>
  OBVIOUS
<1>3. t \in Seq(S) /\ Len(t) = 1 /\ t[1] = s[1]
  BY <1>1, <1>2
<1>4. s = t
  BY <1>1, <1>3, SeqEqual
<1>5. Tail(s) = <<>>
  <2>1. Tail(s) \in Seq(S) /\ Len(Tail(s)) = Len(s) - 1
    BY HeadTailProperties
  <2>2. Len(Tail(s)) = 0
    BY <1>1, <2>1
  <2> QED BY <2>1, <2>2, EmptySeq
<1> QED BY <1>1, <1>2, <1>4, <1>5

-----------------------------------------------------------------------------
(* Entries *)

\* What an entry can be read out as, and a unit be, in the memory of the arrays A.
EntriesOf(A) == {Torn} \cup [array : A, at : Nat]
UnitsOf(A) == {Blank} \cup [array : A, at : Nat, pos : Nat]

\* Entries are assembled from units of some arrays, a torn one from anything
\* else.
LEMMA EntriesTyped ==
    ASSUME NEW A, NEW n \in Int, NEW units,
           \A i \in 0 .. n * EntryUnits - 1 : units[i] \in UnitsOf(A)
    PROVE  Entries(units, n) \in Seq(EntriesOf(A))
<1> USE EntryAssumption
<1> DEFINE Whole(m) == \A j \in 0 .. EntryUnits - 1 :
                          units[m + j] = [units[m] EXCEPT !.pos = j]
           At(i) == LET m == (i - 1) * EntryUnits
                    IN  IF units[m] # Blank /\ Whole(m)
                        THEN [array |-> units[m].array, at |-> units[m].at] ELSE Torn
           f == [i \in 1 .. n |-> At(i)]
<1>1. ASSUME NEW i \in 1 .. n PROVE At(i) \in EntriesOf(A)
  <2> DEFINE m == (i - 1) * EntryUnits
  <2>1. units[m] \in UnitsOf(A)
    BY EntryOffset
  <2> HIDE DEF m
  <2>2. CASE units[m] # Blank
    <3>1. units[m].array \in A /\ units[m].at \in Nat
      BY <2>1, <2>2 DEF UnitsOf
    <3>2. [array |-> units[m].array, at |-> units[m].at] \in EntriesOf(A)
      BY <3>1 DEF EntriesOf
    <3>3. At(i) \in {[array |-> units[m].array, at |-> units[m].at], Torn}
      BY DEF m
    <3> QED BY <3>2, <3>3 DEF EntriesOf
  <2>3. CASE units[m] = Blank
    BY <2>3 DEF m, EntriesOf
  <2> QED BY <2>2, <2>3
<1>2. \A i \in 1 .. n : f[i] = At(i)
  OBVIOUS
<1>3. DOMAIN f = 1 .. n /\ f = [i \in DOMAIN f |-> f[i]]
  BY Zenon
<1>4. Entries(units, n) = f
  BY DEF Entries
<1> HIDE DEF At, f
<1>5. \A i \in 1 .. n : f[i] \in EntriesOf(A)
  BY <1>1, <1>2
<1> QED BY <1>3, <1>4, <1>5, FunctionIsSeq

\* What is copied are the units of n entries, one after the other, from the q-th of
\* an acquisition on.
Written(units, a, b, q, n) ==
    \A i \in 0 .. n * EntryUnits - 1 : units[i] = UnitAt(a, b, q * EntryUnits + i)

\* They are assembled to the entries from the q-th on.
LEMMA EntriesExact ==
    ASSUME NEW a \in Nat, NEW b \in Nat, NEW q \in Nat, NEW n \in Nat, NEW units,
           Written(units, a, b, q, n)
    PROVE  Entries(units, n) = Span(a, b, q, q + n - 1)
<1> USE EntryAssumption
<1> DEFINE E == EntryUnits
           Whole(m) == \A j \in 0 .. E - 1 : units[m + j] = [units[m] EXCEPT !.pos = j]
           At(i) == LET m == (i - 1) * E
                    IN  IF units[m] # Blank /\ Whole(m)
                        THEN [array |-> units[m].array, at |-> units[m].at] ELSE Torn
           Nth(i) == [array |-> a, at |-> b + (q + i - 1) * E + 1]
<1>1. ASSUME NEW i \in 1 .. n PROVE At(i) = Nth(i)
  <2> DEFINE m == (i - 1) * E
             k == q + i - 1
             Unit(j) == [array |-> a, pos |-> j, at |-> b + k * E + 1]
  <2>1. /\ m \in Nat /\ k \in Nat /\ k * E \in Nat /\ q * E \in Nat
        /\ q * E + m = k * E /\ i * E = m + E /\ i * E <= n * E /\ n * E \in Nat
    <3>1. i - 1 \in Nat /\ i \in Nat /\ i <= n
      OBVIOUS
    <3>2. i * E <= n * E
      BY <3>1, TimesMonotone
    <3> QED BY <3>1, <3>2
  <2>2. ASSUME NEW j \in 0 .. E - 1 PROVE units[m + j] = Unit(j)
    <3>1. (k * E + j) % E = j
      BY <2>1, Remainder
    <3>2. m + j \in 0 .. n * E - 1 /\ q * E + (m + j) = k * E + j /\ j \in Nat
      <4> HIDE DEF m, k
      <4> QED BY <2>1
    <3>3. units[m + j] = UnitAt(a, b, k * E + j)
      BY <3>2 DEF Written
    <3>4. b + (k * E + j) - j + 1 = b + k * E + 1
      <4> HIDE DEF k
      <4> QED BY <2>1, <3>2
    <3> HIDE DEF k, m
    <3> QED BY <3>1, <3>3, <3>4 DEF UnitAt
  <2>3. 0 \in 0 .. E - 1 /\ m + 0 = m
    BY <2>1
  <2>4. units[m] = Unit(0)
    <3> HIDE DEF Unit, m
    <3> QED BY <2>2, <2>3
  <2>5. units[m] # Blank
    BY <2>1, <2>4 DEF Blank
  <2>6. Whole(m)
    <3>1. ASSUME NEW j \in 0 .. E - 1 PROVE units[m + j] = [units[m] EXCEPT !.pos = j]
      <4>1. [Unit(0) EXCEPT !.pos = j] = Unit(j)
        BY Z3
      <4> HIDE DEF m, Unit
      <4> QED BY <2>2, <2>4, <4>1
    <3> QED BY <3>1
  <2>7. At(i) = [array |-> units[m].array, at |-> units[m].at]
    BY <2>5, <2>6, Zenon
  <2>8. units[m].array = a /\ units[m].at = b + k * E + 1
    BY <2>4
  <2> HIDE DEF At, m
  <2> QED BY <2>7, <2>8
<1>2. Entries(units, n) = [i \in 1 .. n |-> At(i)]
  BY DEF Entries
<1>3. q + n - 1 - q + 1 = n
  OBVIOUS
<1>4. Span(a, b, q, q + n - 1) = [i \in 1 .. n |-> Nth(i)]
  BY <1>3 DEF Span
<1> HIDE DEF At, Nth
<1> QED BY <1>1, <1>2, <1>4

\* The entries of one array.
OwnEntries(a) == [array : {a}, at : Nat]

\* The entries of an acquisition are a sequence, whatever its end.
LEMMA SpanTyped ==
    ASSUME NEW a \in Nat, NEW b \in Nat, NEW f \in Nat, NEW l \in Int
    PROVE  Span(a, b, f, l) \in Seq(OwnEntries(a))
<1> USE EntryAssumption
<1> DEFINE s == Span(a, b, f, l)
<1>1. DOMAIN s = 1 .. (l - f + 1) /\ s = [i \in DOMAIN s |-> s[i]]
  BY Zenon DEF Span
<1>2. \A i \in 1 .. (l - f + 1) : s[i] \in OwnEntries(a)
  <2> TAKE i \in 1 .. (l - f + 1)
  <2>1. f + i - 1 \in Nat
    OBVIOUS
  <2>2. (f + i - 1) * EntryUnits \in Nat
    BY <2>1
  <2>3. s[i] = [array |-> a, at |-> b + (f + i - 1) * EntryUnits + 1]
    BY DEF Span
  <2> HIDE DEF s
  <2> QED BY <2>2, <2>3 DEF OwnEntries
<1> HIDE DEF s
<1>3. s \in Seq(OwnEntries(a))
  BY <1>1, <1>2, FunctionIsSeq
<1> QED BY <1>3 DEF s

\* A sequence that begins with one and goes on with the other is both in a row.
LEMMA ConcatIs ==
    ASSUME NEW S, NEW s \in Seq(S), NEW t \in Seq(S), NEW u \in Seq(S),
           Len(u) = Len(s) + Len(t), \A i \in 1 .. Len(s) : u[i] = s[i],
           \A i \in 1 .. Len(t) : u[Len(s) + i] = t[i]
    PROVE  s \o t = u
<1>1. /\ s \o t \in Seq(S) /\ Len(s \o t) = Len(s) + Len(t)
      /\ \A i \in 1 .. Len(s) + Len(t) :
            (s \o t)[i] = IF i <= Len(s) THEN s[i] ELSE t[i - Len(s)]
  BY ConcatProperties
<1>2. Len(s) \in Nat /\ Len(t) \in Nat
  OBVIOUS
<1>3. ASSUME NEW i \in 1 .. Len(s) + Len(t) PROVE (s \o t)[i] = u[i]
  <2>1. CASE i <= Len(s)
    BY <1>1, <2>1
  <2>2. CASE ~(i <= Len(s))
    <3>1. i - Len(s) \in 1 .. Len(t) /\ Len(s) + (i - Len(s)) = i
      BY <1>2, <2>2
    <3> QED BY <1>1, <2>2, <3>1
  <2> QED BY <2>1, <2>2
<1> QED BY <1>1, <1>3, SeqEqual

\* One sequence goes on with the other.
Joined(s, t, u) == s \o t = u

\* Entries that follow entries follow them.
LEMMA SpanAppended ==
    ASSUME NEW a \in Nat, NEW b \in Nat, NEW f \in Nat, NEW m \in Nat, NEW n \in Nat,
           f <= m
    PROVE  Joined(Span(a, b, f, m - 1), Span(a, b, m, m + n - 1), Span(a, b, f, m + n - 1))
<1> USE EntryAssumption
<1> DEFINE Nth(i) == [array |-> a, at |-> b + i * EntryUnits + 1]
<1> PICK d \in Int : d = m - 1
  OBVIOUS
<1> PICK e \in Int : e = m + n - 1
  OBVIOUS
<1>1. /\ m - f \in Nat /\ e - m + 1 \in Nat /\ m - f + (e - m + 1) \in Nat
      /\ d - f + 1 = m - f /\ e - f + 1 = m - f + (e - m + 1)
  OBVIOUS
<1>2. PICK s : s = Span(a, b, f, d)
  OBVIOUS
<1>3. PICK t : t = Span(a, b, m, e)
  OBVIOUS
<1>4. PICK u : u = Span(a, b, f, e)
  OBVIOUS
<1>5. PICK S : S = OwnEntries(a)
  OBVIOUS
<1>6. s \in Seq(S) /\ t \in Seq(S) /\ u \in Seq(S)
  BY <1>2, <1>3, <1>4, <1>5, SpanTyped, Zenon
<1>7. Len(s) = m - f /\ Len(t) = e - m + 1 /\ Len(u) = m - f + (e - m + 1)
  <2>1. Len(s) = m - f
    BY <1>1, <1>2 DEF Span
  <2>2. Len(t) = e - m + 1
    BY <1>1, <1>3 DEF Span
  <2>3. Len(u) = m - f + (e - m + 1)
    BY <1>1, <1>4 DEF Span
  <2> QED BY <2>1, <2>2, <2>3
<1>8. /\ \A i \in 1 .. m - f : s[i] = Nth(f + i - 1)
      /\ \A i \in 1 .. e - m + 1 : t[i] = Nth(m + i - 1)
      /\ \A i \in 1 .. m - f + (e - m + 1) : u[i] = Nth(f + i - 1)
  BY <1>1, <1>2, <1>3, <1>4 DEF Span
<1> HIDE DEF Nth
<1>9. ASSUME NEW i \in 1 .. Len(s) PROVE u[i] = s[i]
  <2>1. i \in 1 .. m - f + (e - m + 1) /\ i \in 1 .. m - f
    BY <1>1, <1>7
  <2> QED BY <1>8, <2>1
<1>10. ASSUME NEW i \in 1 .. Len(t) PROVE u[Len(s) + i] = t[i]
  <2>1. m - f + i \in 1 .. m - f + (e - m + 1) /\ f + (m - f + i) - 1 = m + i - 1
        /\ i \in 1 .. e - m + 1 /\ Len(s) + i = m - f + i
    BY <1>1, <1>7
  <2> QED BY <1>8, <2>1
<1>11. Len(u) = Len(s) + Len(t)
  BY <1>7
<1>12. s \o t = u
  BY <1>6, <1>9, <1>10, <1>11, ConcatIs, Zenon
<1> QED BY <1>2, <1>3, <1>4, <1>12 DEF Joined
=============================================================================
