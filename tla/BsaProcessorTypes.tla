------------------------- MODULE BsaProcessorTypes --------------------------
(***************************************************************************)
(* The readout of standard arrays keeps its types, for every number and    *)
(* size of arrays, every entry and burst size, and every order of steps.   *)
(***************************************************************************)
EXTENDS BsaProcessor, MemoryLemmas

-----------------------------------------------------------------------------
(* The helpers have their types *)

\* What the firmware writes is a unit.
LEMMA UnitTyped ==
    ASSUME NEW a \in Arrays, NEW b \in Nat, NEW k \in Nat
    PROVE  UnitAt(a, b, k) \in UnitVal
<1>1. k % EntryUnits \in Nat /\ k % EntryUnits <= k
  BY SizeAssumption, EntryAssumption, Division
<1>2. b + k - (k % EntryUnits) + 1 \in Nat
  BY <1>1
<1> QED BY <1>1, <1>2 DEF UnitAt, UnitVal

\* What a fetch copies out of DRAM are entries.
LEMMA EntriesAtTyped ==
    ASSUME TypeOK, NEW a \in Arrays, NEW begin \in Int, NEW n \in Int
    PROVE  EntriesAt(a, begin, n) \in Seq(EntryVal)
<1> DEFINE Addr(i) == IF begin + i < End[a] THEN begin + i ELSE begin + i - RingUnits
           units == [i \in 0 .. n * EntryUnits - 1 |->
                        IF Addr(i) \in Units THEN dram[Addr(i)] ELSE Blank]
<1>1. ASSUME NEW i \in 0 .. n * EntryUnits - 1 PROVE units[i] \in UnitVal
  <2>1. units[i] = IF Addr(i) \in Units THEN dram[Addr(i)] ELSE Blank
    OBVIOUS
  <2> HIDE DEF Addr
  <2> QED BY <2>1 DEF TypeOK, DataOK, UnitVal
<1>2. EntriesAt(a, begin, n) = Entries(units, n)
  BY DEF EntriesAt
<1> HIDE DEF units
<1>3. \A i \in 0 .. n * EntryUnits - 1 : units[i] \in UnitsOf(Arrays)
  BY <1>1 DEF UnitsOf, UnitVal
<1>4. Entries(units, n) \in Seq(EntriesOf(Arrays))
  BY <1>3, EntriesTyped, Zenon
<1> QED BY <1>2, <1>4 DEF EntriesOf, EntryVal

\* The waveforms keep a part of what was appended.
LEMMA NewestTyped ==
    ASSUME NEW s \in Seq(EntryVal)
    PROVE  Newest(s) \in Seq(EntryVal)
<1> DEFINE m == IF Len(s) > PvDepth THEN Len(s) - PvDepth + 1 ELSE 1
<1>1. m \in 1 .. Len(s) + 1
  BY SizeAssumption, EntryAssumption
<1> HIDE DEF m
<1>2. SubSeq(s, m, Len(s)) \in Seq(EntryVal)
  BY <1>1, Suffix
<1> QED BY <1>2 DEF Newest, m

\* A resized record holds entries.
LEMMA ResizedTyped ==
    ASSUME TypeOK, NEW n \in Int
    PROVE  Resized(n) \in Seq(EntryVal)
<1>1. record \in Seq(EntryVal)
  BY DEF TypeOK, DataOK
<1> DEFINE f == [i \in 1 .. n |-> IF i <= Len(record) THEN record[i] ELSE Torn]
<1>2. DOMAIN f = 1 .. n /\ f = [i \in DOMAIN f |-> f[i]]
  BY Zenon
<1>3. \A i \in 1 .. n : f[i] \in EntryVal
  BY <1>1 DEF EntryVal
<1>4. Resized(n) = f
  BY DEF Resized
<1> HIDE DEF f
<1> QED BY <1>2, <1>3, <1>4, FunctionIsSeq

\* A fetch has an integer length and end.
LEMMA FetchTyped ==
    ASSUME NEW a \in Arrays, NEW begin \in Int, NEW end \in Int
    PROVE  Fetch(a, begin, end).n \in Int /\ Fetch(a, begin, end).next \in Int
<1>1. Begin[a] \in Int /\ End[a] \in Int /\ EntryUnits \in Nat \ {0}
  BY LayoutAssumption, SizeAssumption, EntryAssumption
<1>2. CASE end <= begin
  <2> DEFINE nb == End[a] - begin + end - Begin[a]
             n == nb \div EntryUnits
  <2>1. nb \in Int /\ n \in Int /\ EntryUnits * n \in Int
    BY <1>1
  <2>2. Fetch(a, begin, end).n = n /\ Fetch(a, begin, end).next = end + EntryUnits * n - nb
    BY <1>2 DEF Fetch
  <2> HIDE DEF nb, n
  <2> QED BY <2>1, <2>2
<1>3. CASE ~(end <= begin)
  <2> DEFINE n == (end - begin) \div EntryUnits
  <2>1. n \in Int /\ n * EntryUnits \in Int
    BY <1>1
  <2>2. /\ Fetch(a, begin, end).n = n
        /\ Fetch(a, begin, end).next = IF n = 0 THEN end ELSE begin + n * EntryUnits
    BY <1>3 DEF Fetch
  <2> HIDE DEF n
  <2> QED BY <2>1, <2>2
<1> QED BY <1>2, <1>3

-----------------------------------------------------------------------------
(* Types *)

\* The type invariant is not inductive alone: the absolute position the
\* firmware numbers its units by needs that an acquisition begins no later than
\* what was written.
Started == \A a \in Arrays : base[a] <= written[a]
TypeInv == TypeOK /\ Started

\* Arrays, addresses and sizes are naturals.
LEMMA LayoutTyped ==
    /\ \A a \in Arrays : a \in Nat /\ a # NoArray /\ Begin[a] \in Nat /\ End[a] \in Nat
    /\ Begin \in [Arrays -> Nat] /\ Units \subseteq Nat
    /\ BurstUnits \in Nat \ {0} /\ RingUnits \in Nat
BY LayoutAssumption, SizeAssumption, EntryAssumption DEF NoArray, Units, Region, RingUnits

\* The type invariant holds initially.
LEMMA TypeInit == Init => TypeInv
<1> SUFFICES ASSUME Init PROVE TypeInv
  OBVIOUS
<1>1. <<>> \in Seq(EntryVal)
  OBVIOUS
<1>2. RegistersOK /\ CountersOK
  BY LayoutTyped DEF Init, RegistersOK, CountersOK
<1>3. DataOK
  BY <1>1, LayoutTyped DEF Init, DataOK, UnitVal
<1>4. ThreadOK
  BY DEF Init, ThreadOK, NoCur, NoSnap
<1>5. Started
  BY DEF Init, Started
<1> QED BY <1>2, <1>3, <1>4, <1>5 DEF TypeInv, TypeOK

-----------------------------------------------------------------------------
(* The firmware's steps keep the types *)

\* A time stamp the firmware moves stays a natural.
LEMMA TouchTyped ==
    ASSUME RegistersOK, NEW a \in Arrays, Touch(a)
    PROVE  tstamp' \in [Arrays -> Nat]
<1>1. tstamp' \in {[tstamp EXCEPT ![a] = @ + 1], tstamp}
  BY Zenon DEF Touch
<1> QED BY <1>1 DEF RegistersOK

\* A new acquisition keeps the types.
LEMMA TypeFwStart ==
    ASSUME TypeInv, NEW a \in Arrays, FwStart(a)
    PROVE  TypeInv'
<1> USE DEF TypeInv, TypeOK
<1>1. RegistersOK'
  BY LayoutTyped DEF FwStart, Rewound, RegistersOK
<1>2. CountersOK'
  BY SizeAssumption, EntryAssumption DEF FwStart, Rewound, CountersOK, ghost
<1>3. DataOK'
  BY DEF FwStart, DataOK, client
<1>4. ThreadOK'
  BY DEF FwStart, ThreadOK, local
<1>5. Started'
  BY DEF FwStart, Rewound, Started, CountersOK
<1> QED BY <1>1, <1>2, <1>3, <1>4, <1>5

\* A burst writes units, and WrAddr stays an address.
LEMMA TypeFwBurst ==
    ASSUME TypeInv, NEW a \in Arrays, FwBurst(a)
    PROVE  TypeInv'
<1> USE DEF TypeInv, TypeOK
<1> DEFINE w == IF wrAddr[a] = End[a] THEN Begin[a] ELSE wrAddr[a]
           unit(x) == UnitAt(a, base[a], written[a] - base[a] + x - w)
<1>1. w \in Nat
  BY LayoutTyped DEF RegistersOK
<1>2. RegistersOK'
  <2>1. PICK wr \in IF w + BurstUnits = End[a] THEN EndShown(a) ELSE {w + BurstUnits} :
            /\ wrAddr' = [wrAddr EXCEPT ![a] = wr]
            /\ full' = [full EXCEPT ![a] = @ \/ wr = Begin[a] \/ wrAddr[a] = End[a]]
    BY Zenon DEF FwBurst
  <2>2. Touch(a) /\ clear' = clear
    BY Zenon DEF FwBurst
  <2> HIDE DEF w
  <2>3. wr \in Nat
    BY <1>1, LayoutTyped DEF EndShown
  <2>4. wrAddr' \in [Arrays -> Nat]
    BY <2>1, <2>3 DEF RegistersOK
  <2>5. full' \in [Arrays -> BOOLEAN]
    BY <2>1, Zenon DEF RegistersOK
  <2> QED BY <2>2, <2>4, <2>5, TouchTyped DEF RegistersOK
<1>3. /\ written' = [written EXCEPT ![a] = @ + BurstUnits] /\ base' = base /\ rd' = rd
      /\ left[a] >= BurstUnits /\ left' = [left EXCEPT ![a] = @ - BurstUnits]
      /\ lost' = [lost EXCEPT ![a] = @ \/ written'[a] - Needed(a) > RingUnits]
      /\ split' = split
  BY Zenon DEF FwBurst
<1>4. CountersOK'
  <2>1. lost' \in [Arrays -> BOOLEAN]
    BY <1>3, Zenon DEF CountersOK
  <2> QED BY <1>3, <2>1, LayoutTyped DEF CountersOK
<1>5. DataOK'
  <2>1. ASSUME NEW x \in w .. (w + BurstUnits - 1) PROVE unit(x) \in UnitVal
    <3>1. written[a] - base[a] + x - w \in Nat /\ base[a] \in Nat
      BY <1>1, LayoutTyped DEF CountersOK, Started
    <3> QED BY <3>1, UnitTyped
  <2>2. dram' = [x \in Units |-> IF x \in w .. (w + BurstUnits - 1) THEN unit(x) ELSE dram[x]]
    BY DEF FwBurst
  <2>3. dram' \in [Units -> UnitVal]
    <3>1. dram \in [Units -> UnitVal]
      BY DEF DataOK
    <3> HIDE DEF unit, w
    <3> QED BY <2>1, <2>2, <3>1
  <2> QED BY <2>3 DEF DataOK, FwBurst, client
<1>6. ThreadOK'
  BY DEF FwBurst, ThreadOK, local
<1>7. Started'
  BY <1>3, LayoutTyped DEF Started, CountersOK
<1> QED BY <1>2, <1>4, <1>5, <1>6, <1>7

\* Even a wild WrAddr is an address.
LEMMA TypeFwWild ==
    ASSUME TypeInv, NEW a \in Arrays, FwWild(a)
    PROVE  TypeInv'
<1> USE DEF TypeInv, TypeOK
<1>1. RegistersOK'
  <2>1. PICK w \in Units \cup {End[b] + 1 : b \in Arrays} : wrAddr' = [wrAddr EXCEPT ![a] = w]
    BY Zenon DEF FwWild
  <2>2. w \in Nat
    BY LayoutTyped
  <2>3. Touch(a) /\ clear' = clear /\ full' = full
    BY Zenon DEF FwWild
  <2> QED BY <2>1, <2>2, <2>3, TouchTyped DEF RegistersOK
<1>2. CountersOK'
  <2>1. left[a] >= BurstUnits /\ left' = [left EXCEPT ![a] = @ - BurstUnits]
    BY Zenon DEF FwWild
  <2> QED BY <2>1, LayoutTyped DEF CountersOK, FwWild, ghost
<1>3. DataOK' /\ ThreadOK'
  BY DEF FwWild, DataOK, ThreadOK, client, local
<1>4. Started'
  BY DEF FwWild, Started
<1> QED BY <1>1, <1>2, <1>3, <1>4

-----------------------------------------------------------------------------
(* The thread's steps keep the types *)

\* Leaving update() clears its locals.
LEMMA BackTyped ==
    ASSUME NEW next \in {"scan", "crashed", "idle"}, Back(next)
    PROVE  /\ pc' = next /\ arr' = NoArray /\ from' \in Int
           /\ cur' \in [ts : Nat, wr : Nat, clear : BOOLEAN, nacq : Nat]
           /\ snap' \in [end : Nat, full : BOOLEAN, at : Nat]
BY DEF Back, NoCur, NoSnap

\* pending() and the sleep keep the types.
LEMMA TypePending ==
    ASSUME TypeInv, PendingTs \/ PendingWr \/ Sleep
    PROVE  TypeInv'
<1> USE DEF TypeInv, TypeOK
<1>1. RegistersOK' /\ CountersOK' /\ Started'
  BY DEF PendingTs, PendingWr, Sleep, fw, ghost, RegistersOK, CountersOK, Started
<1>2. DataOK'
  BY DEF PendingTs, PendingWr, Sleep, fw, client, DataOK
<1>3. CASE PendingTs
  <2>1. ThreadOK'
    BY <1>3 DEF PendingTs, ThreadOK, RegistersOK
  <2> QED BY <1>1, <1>2, <2>1
<1>4. CASE PendingWr
  <2>1. todo' \subseteq Arrays /\ seen' \in [Arrays -> Nat]
    BY <1>4 DEF PendingWr
  <2>2. ThreadOK'
    BY <1>4, <2>1 DEF PendingWr, ThreadOK
  <2> QED BY <1>1, <1>2, <2>2
<1>5. CASE Sleep
  <2>1. ThreadOK'
    BY <1>5 DEF Sleep, ThreadOK, local
  <2> QED BY <1>1, <1>2, <2>1
<1> QED BY <1>3, <1>4, <1>5

\* state() reads naturals.
LEMMA TypeRead ==
    ASSUME TypeInv, ReadTs \/ ReadWr
    PROVE  TypeInv'
<1> USE DEF TypeInv, TypeOK
<1>1. RegistersOK' /\ CountersOK' /\ Started'
  BY DEF ReadTs, ReadWr, fw, ghost, RegistersOK, CountersOK, Started
<1>2. DataOK'
  BY DEF ReadTs, ReadWr, fw, client, DataOK
<1>3. CASE ReadTs
  <2>1. PICK a \in todo : /\ arr' = a /\ todo' = todo \ {a}
                          /\ cur' = [NoCur EXCEPT !.ts = tstamp[a]]
    BY <1>3 DEF ReadTs
  <2>2. a \in Arrays /\ tstamp[a] \in Nat
    BY DEF ThreadOK, RegistersOK
  <2>3. cur' \in [ts : Nat, wr : Nat, clear : BOOLEAN, nacq : Nat]
    BY <2>1, <2>2 DEF NoCur
  <2>4. ThreadOK'
    BY <1>3, <2>1, <2>2, <2>3 DEF ReadTs, ThreadOK
  <2> QED BY <1>1, <1>2, <2>4
<1>4. CASE ReadWr
  BY <1>1, <1>2, <1>4 DEF ReadWr, ThreadOK, RegistersOK
<1> QED BY <1>3, <1>4

\* update()'s choice of branch keeps the types.
LEMMA TypeReadClear ==
    ASSUME TypeInv, ReadClear
    PROVE  TypeInv'
<1> USE DEF TypeInv, TypeOK
<1>1. RegistersOK' /\ CountersOK' /\ Started'
  BY DEF ReadClear, fw, ghost, RegistersOK, CountersOK, Started
<1>2. pc = "readClear" /\ arr \in Arrays
  BY DEF ReadClear, ThreadOK
<1>3. state[arr] \in [ts : Nat, wr : Nat, next : Int, nacq : Nat] /\ clear[arr] \in BOOLEAN
      /\ cur \in [ts : Nat, wr : Nat, clear : BOOLEAN, nacq : Nat]
  BY <1>2 DEF DataOK, RegistersOK, ThreadOK
<1>4. \/ UNCHANGED <<cur, from, client>>
      \/ /\ cur' = [cur EXCEPT !.clear = clear[arr], !.nacq = state[arr].nacq]
         /\ \/ UNCHANGED <<from, client>>
            \/ from' = state[arr].next /\ pvTs' = [pvTs EXCEPT ![arr] = cur.ts] /\ pv' = pv
  BY Zenon DEF ReadClear
<1>5. pc' \in {"unassigned", "ackClear", "getWr"}
  BY DEF ReadClear
<1>6. UNCHANGED <<dram, state, record, todo, arr, snap, seen>>
  BY DEF ReadClear, fw
<1>7. DataOK'
  BY <1>2, <1>3, <1>4, <1>6 DEF DataOK, client
<1>8. cur' \in [ts : Nat, wr : Nat, clear : BOOLEAN, nacq : Nat] /\ from' \in Int
  <2>1. from \in Int
    BY DEF ThreadOK
  <2> QED BY <1>3, <1>4, <2>1
<1>9. ThreadOK'
  BY <1>2, <1>5, <1>6, <1>8 DEF ThreadOK
<1> QED BY <1>1, <1>7, <1>9

\* Acknowledging a new acquisition keeps the types.
LEMMA TypeAckClear ==
    ASSUME TypeInv, AckClear
    PROVE  TypeInv'
<1> USE DEF TypeInv, TypeOK
<1>1. pc = "ackClear" /\ arr \in Arrays
  BY DEF AckClear, ThreadOK
<1>2. RegistersOK'
  BY <1>1 DEF AckClear, RegistersOK
<1>3. CountersOK' /\ Started'
  <2>1. rd' = [rd EXCEPT ![arr] = base[arr]] /\ UNCHANGED <<left, written, base>>
    BY DEF AckClear
  <2> DEFINE over == written[arr] - base[arr] > RingUnits
  <2>2. lost' = [lost EXCEPT ![arr] = over]
    BY Zenon DEF AckClear
  <2>3. over \in BOOLEAN
    OBVIOUS
  <2> HIDE DEF over
  <2>4. lost' \in [Arrays -> BOOLEAN]
    BY <2>2, <2>3, Zenon DEF CountersOK
  <2>5. rd' \in [Arrays -> Int]
    BY <1>1, <2>1 DEF CountersOK
  <2>6. split' \in [Arrays -> BOOLEAN]
    BY <1>1 DEF AckClear, CountersOK
  <2> QED BY <2>1, <2>4, <2>5, <2>6 DEF CountersOK, Started
<1>4. DataOK'
  <2>1. <<>> \in Seq(EntryVal) /\ cur.ts \in Nat
    BY DEF ThreadOK
  <2> QED BY <1>1, <2>1 DEF AckClear, PvReset, DataOK
<1>5. ThreadOK'
  BY <1>1, LayoutTyped DEF AckClear, ThreadOK
<1> QED BY <1>2, <1>3, <1>4, <1>5

\* The checks of get() keep the types.
LEMMA TypeGet ==
    ASSUME TypeInv, GetWr \/ GetFull
    PROVE  TypeInv'
<1> USE DEF TypeInv, TypeOK
<1>1. RegistersOK' /\ CountersOK' /\ Started'
  BY DEF GetWr, GetFull, fw, ghost, RegistersOK, CountersOK, Started
<1>2. DataOK'
  BY DEF GetWr, GetFull, fw, client, DataOK
<1>3. arr \in Arrays /\ wrAddr[arr] \in Nat /\ written[arr] \in Nat /\ full[arr] \in BOOLEAN
  BY DEF GetWr, GetFull, ThreadOK, RegistersOK, CountersOK
<1>4. CASE GetWr
  <2>1. pc' \in {"abort", "getFull"} /\ UNCHANGED <<todo, arr, cur, from, seen>>
    BY <1>4 DEF GetWr
  <2>2. snap' = snap \/ snap' = [end |-> wrAddr[arr], full |-> FALSE, at |-> written[arr]]
    BY <1>4 DEF GetWr
  <2>3. snap' \in [end : Nat, full : BOOLEAN, at : Nat]
    <3>1. snap \in [end : Nat, full : BOOLEAN, at : Nat]
      BY DEF ThreadOK
    <3>2. [end |-> wrAddr[arr], full |-> FALSE, at |-> written[arr]]
             \in [end : Nat, full : BOOLEAN, at : Nat]
      BY <1>3
    <3> QED BY <2>2, <3>1, <3>2
  <2>4. ThreadOK'
    BY <1>3, <2>1, <2>3 DEF ThreadOK
  <2> QED BY <1>1, <1>2, <2>4
<1>5. CASE GetFull
  <2>1. pc' \in {"abort", "fill"} /\ UNCHANGED <<todo, arr, cur, from, seen>>
    BY <1>5 DEF GetFull
  <2>2. snap' = [snap EXCEPT !.full = full[arr]]
    BY <1>5, Zenon DEF GetFull
  <2>3. snap' \in [end : Nat, full : BOOLEAN, at : Nat]
    BY <1>3, <2>2 DEF ThreadOK
  <2>4. ThreadOK'
    BY <1>3, <2>1, <2>3 DEF ThreadOK
  <2> QED BY <1>1, <1>2, <2>4
<1> QED BY <1>4, <1>5

\* update()'s tail stores what has its type.
LEMMA DeliverTyped ==
    ASSUME TypeInv, arr \in Arrays, NEW r \in Seq(EntryVal), NEW next \in Int,
           Deliver(r, next), dram' = dram
    PROVE  DataOK'
<1> USE DEF TypeInv, TypeOK
<1> DEFINE n == cur.nacq + Len(r)
           s == Newest(pv[arr] \o r)
           new == [ts |-> cur.ts, wr |-> cur.wr, next |-> next, nacq |-> n]
<1>1. n \in Nat
  BY DEF ThreadOK
<1>2. s \in Seq(EntryVal)
  <2>1. pv[arr] \o r \in Seq(EntryVal)
    <3>1. pv[arr] \in Seq(EntryVal)
      BY DEF DataOK
    <3> QED BY <3>1
  <2> QED BY <2>1, NewestTyped
<1>3. record' = r /\ pv' = [pv EXCEPT ![arr] = s] /\ pvTs' = pvTs
  BY Zenon DEF Deliver
<1>4. state' = [state EXCEPT ![arr] = new]
  BY Zenon DEF Deliver
<1> HIDE DEF n, s
<1>5. new \in [ts : Nat, wr : Nat, next : Int, nacq : Nat]
  <2>1. cur.ts \in Nat /\ cur.wr \in Nat
    BY DEF ThreadOK
  <2> QED BY <1>1, <2>1
<1> DEFINE S == [ts : Nat, wr : Nat, next : Int, nacq : Nat]
<1>6. state' \in [Arrays -> S]
  <2>1. state \in [Arrays -> S] /\ new \in S
    BY <1>5 DEF DataOK
  <2> HIDE DEF S, new
  <2> QED BY <1>4, <2>1
<1> HIDE DEF new
<1>7. pv' \in [Arrays -> Seq(EntryVal)]
  BY <1>2, <1>3 DEF DataOK
<1> QED BY <1>3, <1>6, <1>7 DEF DataOK

\* A fetch delivers entries and stores an address.
LEMMA TypeFill ==
    ASSUME TypeInv, Fill
    PROVE  TypeInv'
<1> USE DEF TypeInv, TypeOK
<1> DEFINE f == Fetch(arr, from, snap.end)
           r == IF f.n = 0 /\ snap.end > from THEN record ELSE EntriesAt(arr, from, f.n)
<1>1. arr \in Arrays /\ from \in Int /\ snap.end \in Nat /\ snap.at \in Nat
  BY DEF Fill, ThreadOK
<1>2. f.n \in Int /\ f.next \in Int
  BY <1>1, FetchTyped
<1>3. Deliver(r, f.next) /\ rd' = [rd EXCEPT ![arr] = snap.at - (snap.end - f.next)]
  BY Zenon DEF Fill
<1>4. Back("scan") /\ UNCHANGED <<fw, todo, seen, lost>>
  BY Zenon DEF Fill
<1> HIDE DEF f
<1>5. r \in Seq(EntryVal)
  <2>1. record \in Seq(EntryVal)
    BY DEF DataOK
  <2>2. EntriesAt(arr, from, f.n) \in Seq(EntryVal)
    BY <1>1, <1>2, EntriesAtTyped
  <2> QED BY <2>1, <2>2
<1> HIDE DEF r
<1>6. DataOK'
  <2>1. dram' = dram
    BY <1>4 DEF fw
  <2> QED BY <1>1, <1>2, <1>3, <1>5, <2>1, DeliverTyped
<1>7. RegistersOK' /\ Started'
  BY <1>4 DEF fw, RegistersOK, Started
<1>8. CountersOK'
  <2>1. rd' \in [Arrays -> Int]
    BY <1>1, <1>2, <1>3 DEF CountersOK
  <2>2. split' \in [Arrays -> BOOLEAN]
    <3>1. PICK p \in BOOLEAN : split' = [split EXCEPT ![arr] = p]
      BY Zenon DEF Fill
    <3> QED BY <3>1 DEF CountersOK
  <2> QED BY <1>4, <2>1, <2>2 DEF fw, CountersOK
<1>9. ThreadOK'
  BY <1>4, BackTyped DEF ThreadOK
<1> QED BY <1>6, <1>7, <1>8, <1>9

\* So does the record of an earlier fetch.
LEMMA TypeUnassigned ==
    ASSUME TypeInv, Unassigned
    PROVE  TypeInv'
<1> USE DEF TypeInv, TypeOK
<1>1. arr \in Arrays
  BY DEF Unassigned, ThreadOK
<1>2. UNCHANGED <<fw, todo, seen, ghost>>
  BY DEF Unassigned
<1>3. RegistersOK' /\ CountersOK' /\ Started'
  BY <1>2 DEF fw, ghost, RegistersOK, CountersOK, Started
<1>4. \/ Back("crashed") /\ UNCHANGED <<state, record, client>>
      \/ Back("scan") /\ Deliver(record, 0)
  BY DEF Unassigned
<1>5. ThreadOK'
  BY <1>2, <1>4, BackTyped DEF ThreadOK
<1>6. DataOK'
  <2>1. record \in Seq(EntryVal) /\ dram' = dram
    BY <1>2 DEF DataOK, fw
  <2>2. CASE UNCHANGED <<state, record, client>>
    BY <2>1, <2>2 DEF DataOK, client
  <2>3. CASE Deliver(record, 0)
    BY <1>1, <2>1, <2>3, DeliverTyped
  <2> QED BY <1>4, <2>2, <2>3
<1> QED BY <1>3, <1>5, <1>6

\* abort() keeps the types.
LEMMA TypeAbort ==
    ASSUME TypeInv, AbortPv \/ AbortReset
    PROVE  TypeInv'
<1> USE DEF TypeInv, TypeOK
<1>1. arr \in Arrays /\ <<>> \in Seq(EntryVal)
  BY DEF AbortPv, AbortReset, ThreadOK
<1>2. CASE AbortPv
  <2>1. RegistersOK' /\ CountersOK' /\ Started'
    BY <1>2 DEF AbortPv, fw, ghost, RegistersOK, CountersOK, Started
  <2>2. DataOK'
    BY <1>1, <1>2 DEF AbortPv, PvReset, fw, DataOK, RegistersOK
  <2>3. ThreadOK'
    BY <1>2 DEF AbortPv, local, ThreadOK
  <2> QED BY <2>1, <2>2, <2>3
<1>3. CASE AbortReset
  <2>1. RegistersOK'
    BY <1>1, <1>3, LayoutTyped DEF AbortReset, Rewound, RegistersOK
  <2>2. CountersOK' /\ Started'
    BY <1>1, <1>3 DEF AbortReset, Rewound, CountersOK, Started
  <2>3. DataOK'
    <3>1. state' = [state EXCEPT ![arr].next = Begin[arr]] /\ UNCHANGED <<dram, record, pv, pvTs>>
      BY <1>3 DEF AbortReset, client
    <3> DEFINE S == [ts : Nat, wr : Nat, next : Int, nacq : Nat]
               new == [state[arr] EXCEPT !.next = Begin[arr]]
    <3>2. state' = [state EXCEPT ![arr] = new] /\ state \in [Arrays -> S]
      BY <3>1 DEF DataOK
    <3>3. new \in S
      BY <1>1, <3>2, LayoutTyped
    <3>4. state' \in [Arrays -> S]
      <4> HIDE DEF S, new
      <4> QED BY <3>2, <3>3
    <3> QED BY <3>1, <3>4 DEF DataOK
  <2>4. ThreadOK'
    BY <1>3, BackTyped DEF AbortReset, ThreadOK
  <2> QED BY <2>1, <2>2, <2>3, <2>4
<1> QED BY <1>2, <1>3

\* An access that throws keeps the types.
LEMMA TypeIoError ==
    ASSUME TypeInv, IoError
    PROVE  TypeInv'
<1> USE DEF TypeInv, TypeOK
<1>1. UNCHANGED <<tstamp, wrAddr, full, dram, left, written, base, state, pv, pvTs, rd, lost, split>>
  BY DEF IoError, client, ghost
<1>2. CountersOK' /\ Started'
  BY <1>1 DEF CountersOK, Started
<1>3. CASE /\ pc \in {"ackClear", "getWr", "getFull", "fill"} /\ pc' = "abort"
           /\ clear' \in IF pc = "ackClear" THEN {clear, [clear EXCEPT ![arr] = FALSE]} ELSE {clear}
           /\ record' = IF pc = "fill" THEN Resized(Fetch(arr, from, snap.end).n) ELSE record
           /\ UNCHANGED local
  <2>1. arr \in Arrays /\ from \in Int /\ snap.end \in Nat
    BY <1>3 DEF ThreadOK
  <2>2. clear' = clear \/ clear' = [clear EXCEPT ![arr] = FALSE]
    BY <1>3
  <2>3. RegistersOK'
    BY <1>1, <2>1, <2>2 DEF RegistersOK
  <2>4. record' \in Seq(EntryVal)
    <3>1. Resized(Fetch(arr, from, snap.end).n) \in Seq(EntryVal)
      BY <2>1, FetchTyped, ResizedTyped
    <3>2. record \in Seq(EntryVal)
      BY DEF DataOK
    <3> QED BY <1>3, <3>1, <3>2
  <2>5. DataOK'
    BY <1>1, <2>4 DEF DataOK
  <2>6. ThreadOK'
    BY <1>3, <2>1 DEF local, ThreadOK
  <2> QED BY <1>2, <2>3, <2>5, <2>6
<1>4. CASE Back("crashed") /\ UNCHANGED <<clear, record, todo, seen>>
  <2>1. RegistersOK' /\ DataOK'
    BY <1>1, <1>4 DEF RegistersOK, DataOK
  <2>2. ThreadOK'
    BY <1>4, BackTyped DEF ThreadOK
  <2> QED BY <1>2, <2>1, <2>2
<1> QED BY <1>3, <1>4, Zenon DEF IoError

\* A restarted client has its types.
LEMMA TypeRestart ==
    ASSUME TypeInv, Restart
    PROVE  TypeInv'
<1> USE DEF TypeInv, TypeOK
<1>1. RegistersOK'
  BY LayoutTyped DEF Restart, RegistersOK
<1>2. CountersOK' /\ Started'
  BY DEF Restart, CountersOK, Started
<1>3. DataOK'
  <2>1. <<>> \in Seq(EntryVal)
    OBVIOUS
  <2> QED BY <2>1, LayoutTyped DEF Restart, DataOK
<1>4. ThreadOK'
  <2>1. Back("idle") /\ todo' = {} /\ seen' = [a \in Arrays |-> 0]
    BY DEF Restart
  <2> QED BY <2>1, BackTyped DEF ThreadOK
<1> QED BY <1>1, <1>2, <1>3, <1>4

\* Every step keeps the type invariant.
LEMMA TypeNext == TypeInv /\ [Next]_vars => TypeInv'
<1> SUFFICES ASSUME TypeInv, [Next]_vars PROVE TypeInv'
  OBVIOUS
<1>1. CASE Firmware
  BY <1>1, TypeFwStart, TypeFwBurst, TypeFwWild DEF Firmware
<1>2. CASE Thread
  BY <1>2, TypePending, TypeRead, TypeReadClear, TypeAckClear, TypeGet, TypeFill,
     TypeUnassigned, TypeAbort, TypeRestart DEF Thread
<1>3. CASE IoError
  BY <1>3, TypeIoError
<1>4. CASE UNCHANGED vars
  BY <1>4 DEF vars, fw, client, local, ghost, TypeInv, TypeOK, Started,
              RegistersOK, CountersOK, DataOK, ThreadOK
<1> QED BY <1>1, <1>2, <1>3, <1>4 DEF Next

\* Every variable keeps its type, whatever the number of arrays, the sizes, and
\* the order in which the firmware and the poll thread move: no address, count
\* or stored entry ever leaves what the code's types hold.
THEOREM TypeCorrect == Spec => []TypeOK
<1>1. TypeInv => TypeOK
  BY DEF TypeInv
<1> QED BY <1>1, TypeInit, TypeNext, PTL DEF Spec
=============================================================================
