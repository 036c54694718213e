------------------------- MODULE FaultReaderProofs --------------------------
(***************************************************************************)
(* The readout of the fault buffers, for every number and size of buffers, *)
(* every chunk, entry and burst size, and every order of steps.            *)
(***************************************************************************)
EXTENDS FaultReader, MemoryLemmas

-----------------------------------------------------------------------------
(* Types *)

\* The units of an acquisition are counted from where it began, and whoever is
\* past update()'s choice of branch is at the front of the queue.
Started == \A f \in Faults : base[f] <= written[f]
Past == {"skip", "next", "rearm", "stamp", "append", "abort", "reset"}
QueueHeld == pc \in Past => queue = <<arr>>
TypeInv == TypeOK /\ Started /\ QueueHeld

\* Sizes and addresses are naturals.
LEMMA SizeTyped ==
    /\ RingUnits \in Nat /\ Start \in Nat /\ End \in Nat /\ End = Start + RingUnits
    /\ Start = RingUnits /\ RingUnits >= EntryUnits /\ EntryUnits \in Nat \ {0}
    /\ BurstUnits \in Nat \ {0} /\ ChunkEntries \in Nat \ {0} /\ ChunkEntries <= RingEntries
    /\ RingEntries \in Nat \ {0} /\ RingUnits = RingEntries * EntryUnits
    /\ Addresses \subseteq Nat /\ Faults \subseteq Nat /\ NoArray \notin Faults
<1>1. 1 * EntryUnits <= RingEntries * EntryUnits /\ RingEntries * EntryUnits \in Nat
  BY SizeAssumption, EntryAssumption, TimesMonotone
<1>2. 1 * EntryUnits = EntryUnits
  BY SizeAssumption, EntryAssumption
<1> QED BY <1>1, <1>2, SizeAssumption, EntryAssumption DEF RingUnits, Start, End, Addresses, NoArray

\* The addresses are those from the beginning of the ring to an entry past its end.
LEMMA AddressesAre ==
    ASSUME NEW w \in Nat
    PROVE  w \in Addresses <=> Start <= w /\ w <= End + EntryUnits
<1>1. ASSUME Start <= w, w <= End + EntryUnits PROVE w \in Addresses
  <2>1. w - Start \in 0 .. RingUnits + EntryUnits /\ w = Start + (w - Start)
    BY <1>1, SizeTyped
  <2> QED BY <2>1 DEF Addresses
<1>2. ASSUME w \in Addresses PROVE Start <= w /\ w <= End + EntryUnits
  BY <1>2, SizeTyped DEF Addresses
<1> QED BY <1>1, <1>2

\* What the firmware writes is a unit.
LEMMA UnitTyped ==
    ASSUME NEW f \in Faults, NEW b \in Nat, NEW k \in Nat
    PROVE  UnitAt(f, b, k) \in UnitVal
<1>1. k % EntryUnits \in Nat /\ (k % EntryUnits) <= k
  BY EntryAssumption, Division
<1>2. b + k - (k % EntryUnits) + 1 \in Nat
  BY <1>1
<1> QED BY <1>1, <1>2 DEF UnitAt, UnitVal

\* The waveforms keep entries, and not many more than a ring of them.
LEMMA AppendedTyped ==
    ASSUME NEW s \in Seq(EntryVal), NEW r \in Seq(EntryVal)
    PROVE  Appended(s, r) \in Seq(EntryVal) /\ Len(Appended(s, r)) <= RingEntries + 1
<1> DEFINE t == s \o r
           d == RingEntries + 1
           m == IF Len(t) > d THEN Len(t) - d + 1 ELSE 1
<1>1. t \in Seq(EntryVal) /\ Len(t) \in Nat /\ d \in Nat
  BY SizeTyped
<1>2. Appended(s, r) = SubSeq(t, m, Len(t))
  BY DEF Appended
<1> HIDE DEF t, d
<1>3. m \in 1 .. Len(t) + 1 /\ Len(t) - m + 1 <= d /\ Len(t) - m + 1 \in Nat
  BY <1>1
<1> HIDE DEF m
<1>4. SubSeq(t, m, Len(t)) \in Seq(EntryVal)
  BY <1>1, <1>3, Suffix
<1>5. Len(SubSeq(t, m, Len(t))) = Len(t) - m + 1
  BY <1>1, <1>3
<1> QED BY <1>2, <1>3, <1>4, <1>5 DEF d

\* A chunk has an integer length, and ends at naturals.
LEMMA ChunkTyped ==
    ASSUME NEW r \in [ts : Nat, next : Nat, last : Nat, preset : Nat, abort : BOOLEAN]
    PROVE  /\ Chunk(r).n \in Int /\ Chunk(r).nnext \in Nat
           /\ Chunk(r).from = r.next /\ Chunk(r).to \in Nat
<1> DEFINE next == r.next + ChunkEntries * EntryUnits
           limit == IF r.next < r.last THEN r.last ELSE End
           n == (limit - r.next) \div EntryUnits
<1>1. r.next \in Nat /\ r.last \in Nat /\ next \in Nat /\ limit \in Nat
  BY SizeTyped
<1>2. n \in Int
  BY <1>1, SizeTyped
<1>3. Chunk(r) = IF next < limit
                 THEN [from |-> r.next, to |-> next, n |-> ChunkEntries, nnext |-> next]
                 ELSE [from |-> r.next, to |-> limit, n |-> n,
                       nnext |-> IF r.next < r.last THEN r.last ELSE Start]
  BY Zenon DEF Chunk
<1> HIDE DEF next, limit, n
<1> QED BY <1>1, <1>2, <1>3, SizeTyped

\* What a chunk is assembled from are units, and it holds entries.
LEMMA ChunkEntriesTyped ==
    ASSUME DataOK, NEW f \in Faults,
           NEW r \in [ts : Nat, next : Nat, last : Nat, preset : Nat, abort : BOOLEAN]
    PROVE  ChunkEntriesOf(f, Chunk(r)) \in Seq(EntryVal)
<1> PICK c : c = Chunk(r)
  OBVIOUS
<1> DEFINE units == [i \in 0 .. c.n * EntryUnits - 1 |->
                        IF c.from + i \in Region THEN dram[f][c.from + i] ELSE Blank]
<1>1. c.n \in Int
  BY ChunkTyped
<1>2. ASSUME NEW i \in 0 .. c.n * EntryUnits - 1 PROVE units[i] \in UnitsOf(Faults)
  <2>1. units[i] = IF c.from + i \in Region THEN dram[f][c.from + i] ELSE Blank
    OBVIOUS
  <2>2. dram[f] \in [Region -> UnitVal]
    BY DEF DataOK
  <2> QED BY <2>1, <2>2 DEF UnitVal, UnitsOf
<1>3. ChunkEntriesOf(f, c) = Entries(units, c.n)
  BY Zenon DEF ChunkEntriesOf
<1> HIDE DEF units
<1>4. Entries(units, c.n) \in Seq(EntriesOf(Faults))
  BY <1>1, <1>2, SizeTyped, EntriesTyped
<1> QED BY <1>3, <1>4 DEF EntriesOf, EntryVal

-----------------------------------------------------------------------------
(* Every step keeps the types *)

\* The types hold at the start.
LEMMA TypeInit == Init => TypeInv
<1> SUFFICES ASSUME Init PROVE TypeInv
  OBVIOUS
<1>1. FirmwareOK
  <2>1. Start \in Addresses
    BY SizeTyped, AddressesAre
  <2> QED BY <2>1 DEF Init, FirmwareOK
<1>2. DataOK
  <2>1. <<>> \in Seq(EntryVal) /\ Len(<<>>) = 0
    OBVIOUS
  <2> QED BY <2>1, SizeTyped DEF Init, DataOK, UnitVal
<1>3. ReaderOK
  BY DEF Init, ReaderOK, NewReader
<1>4. ThreadOK
  BY DEF Init, ThreadOK, NoCur
<1> QED BY <1>1, <1>2, <1>3, <1>4 DEF Init, TypeInv, TypeOK, Started, QueueHeld, Past

\* An Init pulse rewinds to the beginning of the ring.
LEMMA RearmedTyped ==
    ASSUME FirmwareOK, Started, NEW f \in Faults, Rearmed(f)
    PROVE  FirmwareOK' /\ Started' /\ dram' = dram
<1>1. Start \in Addresses
  BY SizeTyped, AddressesAre
<1> QED BY <1>1 DEF Rearmed, FirmwareOK, Started

\* Leaving update() clears its locals.
LEMMA BackTyped ==
    ASSUME Back
    PROVE  /\ pc' = "scan" /\ arr' = NoArray /\ record' = <<>> /\ record' \in Seq(EntryVal)
           /\ cur' \in [ts : Nat, wr : Nat, wrap : BOOLEAN]
BY DEF Back, NoCur

\* The firmware's steps keep the types.
LEMMA TypeFirmware == TypeInv /\ Firmware => TypeInv'
<1> SUFFICES ASSUME TypeInv, NEW f \in Faults, FwBurst(f) \/ FwLatch(f) \/ FwErroneousDone(f)
             PROVE  TypeInv'
  BY DEF Firmware
<1> USE DEF TypeInv, TypeOK
<1>1. UNCHANGED <<sw, client, pc, local>>
  BY DEF FwBurst, FwLatch, FwErroneousDone
<1>2. ReaderOK' /\ ThreadOK' /\ QueueHeld'
  BY <1>1 DEF sw, client, local, ReaderOK, ThreadOK, QueueHeld
<1>3. CASE FwBurst(f)
  <2> DEFINE w == wrAddr[f]
             unit(x) == UnitAt(f, base[f], written[f] - base[f] + x - w)
  <2>1. w \in Nat /\ Start <= w /\ w + BurstUnits <= End
    BY <1>3, SizeTyped, AddressesAre DEF FwBurst, FirmwareOK
  <2>2. w + BurstUnits \in Addresses /\ Start \in Addresses
    <3>1. w + BurstUnits \in Nat /\ Start <= w + BurstUnits /\ w + BurstUnits <= End + EntryUnits
      BY <2>1, SizeTyped
    <3> QED BY <3>1, SizeTyped, AddressesAre
  <2>3. /\ wrAddr' = [wrAddr EXCEPT ![f] = IF w + BurstUnits = End THEN Start ELSE w + BurstUnits]
        /\ full' = [full EXCEPT ![f] = @ \/ w + BurstUnits = End]
        /\ written' = [written EXCEPT ![f] = @ + BurstUnits]
        /\ UNCHANGED <<tstamp, done, latched, base>>
    BY <1>3, Zenon DEF FwBurst
  <2>4. full' \in [Faults -> BOOLEAN]
    BY <2>3, Zenon DEF FirmwareOK
  <2>5. wrAddr' \in [Faults -> Addresses]
    <3> HIDE DEF w
    <3> QED BY <2>2, <2>3 DEF FirmwareOK
  <2>6. FirmwareOK' /\ Started'
    BY <2>3, <2>4, <2>5, SizeTyped DEF FirmwareOK, Started
  <2>7. dram' = [dram EXCEPT ![f] =
                    [x \in Region |-> IF x \in w .. w + BurstUnits - 1 THEN unit(x) ELSE dram[f][x]]]
    <3>1. dram \in [Faults -> [Region -> UnitVal]]
      BY DEF DataOK
    <3> QED BY <1>3, <3>1, Zenon DEF FwBurst
  <2>8. ASSUME NEW x \in w .. w + BurstUnits - 1 PROVE unit(x) \in UnitVal
    <3>1. written[f] - base[f] + x - w \in Nat /\ base[f] \in Nat
      BY <2>1, SizeTyped DEF FirmwareOK, Started
    <3> QED BY <3>1, UnitTyped
  <2>9. DataOK'
    <3>1. dram \in [Faults -> [Region -> UnitVal]]
      BY DEF DataOK
    <3> HIDE DEF unit, w
    <3>2. dram' \in [Faults -> [Region -> UnitVal]]
      BY <2>7, <2>8, <3>1
    <3> QED BY <1>1, <3>2 DEF client, local, DataOK
  <2> QED BY <1>2, <2>6, <2>9
<1>4. CASE FwLatch(f)
  <2>1. PICK w \in {wrAddr[f]} \cup (IF WildWrAddr THEN {End + EntryUnits} ELSE {}) :
           wrAddr' = [wrAddr EXCEPT ![f] = w]
    BY <1>4, Zenon DEF FwLatch
  <2>2. w \in Addresses
    <3>1. End + EntryUnits \in Addresses
      BY SizeTyped, AddressesAre
    <3> QED BY <3>1 DEF FirmwareOK
  <2>3. FirmwareOK' /\ Started' /\ DataOK'
    BY <1>1, <1>4, <2>1, <2>2 DEF FwLatch, FirmwareOK, Started, DataOK, client, local
  <2> QED BY <1>2, <2>3
<1>5. CASE FwErroneousDone(f)
  <2>1. FirmwareOK' /\ Started' /\ DataOK'
    BY <1>1, <1>5 DEF FwErroneousDone, FirmwareOK, Started, DataOK, client, local
  <2> QED BY <1>2, <2>1
<1> QED BY <1>3, <1>4, <1>5

\* The steps that read registers and choose a branch keep the types.
LEMMA TypeChoice ==
    ASSUME TypeInv,
           Pending \/ Sleep \/ ReadTs \/ ReadWr \/ ReadFull \/ OtherBuffer \/ Preset \/ Continue
    PROVE  TypeInv'
<1> USE DEF TypeInv, TypeOK
<1>1. FirmwareOK' /\ Started'
  BY DEF Pending, Sleep, ReadTs, ReadWr, ReadFull, OtherBuffer, Preset, Continue, fw,
         FirmwareOK, Started
<1>2. dram' = dram /\ pv' = pv /\ pvTs' = pvTs
  BY DEF Pending, Sleep, ReadTs, ReadWr, ReadFull, OtherBuffer, Preset, Continue, fw, client
<1>3. DataOK'
  <2>1. record' = record \/ Back
    BY DEF Pending, Sleep, ReadTs, ReadWr, ReadFull, OtherBuffer, Preset, Continue, local
  <2> QED BY <1>2, <2>1, BackTyped DEF DataOK
<1>4. CASE Pending
  BY <1>1, <1>2, <1>3, <1>4 DEF Pending, sw, ReaderOK, ThreadOK, QueueHeld, Past
<1>5. CASE Sleep
  BY <1>1, <1>2, <1>3, <1>5 DEF Sleep, sw, local, ReaderOK, ThreadOK, QueueHeld, Past
<1>6. CASE ReadTs
  <2>1. PICK f \in todo : /\ arr' = f /\ todo' = todo \ {f}
                          /\ cur' = [NoCur EXCEPT !.ts = tstamp[f]]
    BY <1>6 DEF ReadTs
  <2>2. f \in Faults /\ tstamp[f] \in Nat
    BY DEF ThreadOK, FirmwareOK
  <2>3. cur' \in [ts : Nat, wr : Nat, wrap : BOOLEAN]
    BY <2>1, <2>2 DEF NoCur
  <2> QED BY <1>1, <1>2, <1>3, <1>6, <2>1, <2>2, <2>3 DEF ReadTs, sw, ReaderOK, ThreadOK, QueueHeld, Past
<1>7. CASE ReadWr
  <2>1. arr \in Faults /\ wrAddr[arr] \in Nat
    BY <1>7, SizeTyped DEF ReadWr, ThreadOK, FirmwareOK
  <2> QED BY <1>1, <1>2, <1>3, <1>7, <2>1 DEF ReadWr, sw, ReaderOK, ThreadOK, QueueHeld, Past
<1>8. CASE ReadFull
  <2>1. arr \in Faults /\ full[arr] \in BOOLEAN
    BY <1>8 DEF ReadFull, ThreadOK, FirmwareOK
  <2> QED BY <1>1, <1>2, <1>3, <1>8, <2>1 DEF ReadFull, sw, ReaderOK, ThreadOK, QueueHeld, Past
<1>9. CASE OtherBuffer
  BY <1>1, <1>2, <1>3, <1>9, BackTyped DEF OtherBuffer, sw, ReaderOK, ThreadOK, QueueHeld, Past
<1>10. CASE Preset
  <2>1. arr \in Faults /\ cur.wr \in Nat
    BY <1>10 DEF Preset, ThreadOK
  <2>2. queue' \in Seq(Faults) /\ Len(queue') <= 1
    BY <1>10, <2>1 DEF Preset
  <2>3. ReaderOK'
    BY <1>2, <1>10, <2>1, <2>2 DEF Preset, ReaderOK
  <2> QED BY <1>1, <1>3, <1>10, <2>3, BackTyped DEF Preset, ThreadOK, QueueHeld, Past
<1>11. CASE Continue
  <2>1. queue \in Seq(Faults) /\ Len(queue) <= 1 /\ queue # <<>> /\ Head(queue) = arr
    BY <1>11 DEF Continue, ReaderOK
  <2>2. queue = <<arr>>
    BY <2>1, Singleton
  <2> QED BY <1>1, <1>2, <1>3, <1>11, <2>2 DEF Continue, sw, local, ReaderOK, ThreadOK, QueueHeld, Past
<1> QED BY <1>4, <1>5, <1>6, <1>7, <1>8, <1>9, <1>10, <1>11

\* A readout begins with the registers that were read.
LEMMA TypeReset == TypeInv /\ ResetReader => TypeInv'
<1> SUFFICES ASSUME TypeInv, ResetReader PROVE TypeInv'
  OBVIOUS
<1> USE DEF TypeInv, TypeOK
<1> DEFINE r == reader[arr]
           set == [r EXCEPT !.ts = cur.ts, !.last = cur.wr,
                            !.next = IF cur.wrap THEN cur.wr
                                     ELSE IF r.last # 0 THEN r.last ELSE Start]
           halted == [r EXCEPT !.next = cur.wr, !.last = cur.wr, !.abort = FALSE]
           Readers == [ts : Nat, next : Nat, last : Nat, preset : Nat, abort : BOOLEAN]
<1>1. FirmwareOK' /\ Started' /\ dram' = dram /\ record' = record
      /\ UNCHANGED <<queue, todo, arr, cur>>
  BY DEF ResetReader, fw, local, FirmwareOK, Started
<1>2. arr \in Faults /\ queue = <<arr>> /\ r \in Readers /\ cur.ts \in Nat /\ cur.wr \in Nat
  <2>1. queue \in Seq(Faults) /\ Len(queue) <= 1 /\ queue # <<>> /\ Head(queue) = arr
    BY DEF ResetReader, ReaderOK
  <2> QED BY <2>1, Singleton DEF ResetReader, ReaderOK, ThreadOK
<1>3. set \in Readers /\ halted \in Readers
  BY <1>2, SizeTyped
<1>4. /\ reader' \in {reader, [reader EXCEPT ![arr] = set], [reader EXCEPT ![arr] = halted]}
      /\ pc' \in {"skip", "next"}
      /\ \/ UNCHANGED client
         \/ /\ pv' = [pv EXCEPT ![arr] = <<>>]
            /\ pvTs' = [pvTs EXCEPT ![arr] = Provisional(cur.ts)]
  BY Zenon DEF ResetReader
<1> HIDE DEF set, halted, r
<1>5. reader' \in [Faults -> Readers]
  BY <1>2, <1>3, <1>4 DEF ReaderOK
<1>6. ReaderOK'
  <2>1. Provisional(cur.ts) \in Int
    BY <1>2 DEF Provisional
  <2>2. pvTs' = pvTs \/ pvTs' = [pvTs EXCEPT ![arr] = Provisional(cur.ts)]
    BY <1>4 DEF client
  <2>3. pvTs' \in [Faults -> Int]
    BY <1>2, <2>1, <2>2 DEF ReaderOK
  <2> QED BY <1>1, <1>5, <2>3 DEF ReaderOK
<1>7. DataOK'
  <2>1. PICK e : e = <<>> /\ e \in Seq(EntryVal) /\ Len(e) = 0
    <3>1. <<>> \in Seq(EntryVal) /\ Len(<<>>) = 0
      OBVIOUS
    <3> QED BY <3>1
  <2>2. pv' = pv \/ pv' = [pv EXCEPT ![arr] = e]
    BY <1>4, <2>1 DEF client
  <2>3. pv' \in [Faults -> Seq(EntryVal)]
    BY <1>2, <2>1, <2>2 DEF DataOK
  <2>4. \A f \in Faults : Len(pv'[f]) <= RingEntries + 1
    BY <1>2, <2>1, <2>2, SizeTyped DEF DataOK
  <2> QED BY <1>1, <2>3, <2>4 DEF DataOK
<1>8. ThreadOK' /\ QueueHeld'
  BY <1>1, <1>2, <1>4 DEF ThreadOK, QueueHeld, Past
<1> QED BY <1>1, <1>6, <1>7, <1>8

\* Leaving the queue empties it.
LEMMA QueueLeft ==
    ASSUME TypeInv, pc \in Past, queue' = Tail(queue)
    PROVE  queue' = <<>> /\ queue' \in Seq(Faults) /\ Len(queue') <= 1 /\ arr \in Faults
<1>1. arr \in Faults /\ queue = <<arr>>
  BY DEF TypeInv, TypeOK, ThreadOK, QueueHeld, Past
<1>2. queue' = <<>>
  BY <1>1
<1> QED BY <1>1, <1>2

\* Re-arming without reading, and leaving an aborted reader.
LEMMA TypeSkip == TypeInv /\ (Skip \/ NextAborted) => TypeInv'
<1> SUFFICES ASSUME TypeInv, Skip \/ NextAborted PROVE TypeInv'
  OBVIOUS
<1> USE DEF TypeInv, TypeOK
<1>1. Back /\ UNCHANGED <<pv, pvTs, todo>> /\ queue' = Tail(queue)
      /\ pc \in Past
  BY DEF Skip, NextAborted, client, Past
<1>2. queue' \in Seq(Faults) /\ Len(queue') <= 1 /\ arr \in Faults
  BY <1>1, QueueLeft
<1>3. FirmwareOK' /\ Started' /\ dram' = dram
  <2>1. Rearmed(arr) \/ UNCHANGED fw
    BY DEF Skip, NextAborted
  <2> QED BY <1>2, <2>1, RearmedTyped DEF fw, FirmwareOK, Started
<1>4. ReaderOK'
  <2>1. reader' \in {reader, [reader EXCEPT ![arr].next = reader[arr].last]}
    BY DEF Skip, NextAborted
  <2> QED BY <1>1, <1>2, <2>1 DEF ReaderOK
<1>5. DataOK'
  BY <1>1, <1>3, BackTyped DEF DataOK
<1>6. ThreadOK' /\ QueueHeld'
  BY <1>1, BackTyped DEF ThreadOK, QueueHeld, Past
<1> QED BY <1>3, <1>4, <1>5, <1>6

\* A chunk appended to the waveforms leaves entries in them.
LEMMA DeliverTyped ==
    ASSUME DataOK, NEW r \in Seq(EntryVal), arr \in Faults, Deliver(r)
    PROVE  pv' \in [Faults -> Seq(EntryVal)] /\ \A f \in Faults : Len(pv'[f]) <= RingEntries + 1
<1>1. pv \in [Faults -> Seq(EntryVal)] /\ \A f \in Faults : Len(pv[f]) <= RingEntries + 1
  BY DEF DataOK
<1>2. PICK s : s = Appended(pv[arr], r)
  OBVIOUS
<1>3. s \in Seq(EntryVal) /\ Len(s) <= RingEntries + 1
  BY <1>1, <1>2, AppendedTyped
<1>4. pv' = [pv EXCEPT ![arr] = s]
  BY <1>2 DEF Deliver
<1> QED BY <1>1, <1>3, <1>4

\* A chunk moves the reader on, and is kept or delivered.
LEMMA TypeNextChunk == TypeInv /\ NextChunk => TypeInv'
<1> SUFFICES ASSUME TypeInv, NextChunk PROVE TypeInv'
  OBVIOUS
<1> USE DEF TypeInv, TypeOK
<1>1. PICK c : c = Chunk(reader[arr])
  OBVIOUS
<1>2. /\ pc = "next" /\ UNCHANGED <<fw, queue>>
      /\ \/ pc' = "abort" /\ UNCHANGED <<reader, client, local>>
         \/ /\ reader' = [reader EXCEPT ![arr].next = c.nnext]
            /\ \/ /\ record' = ChunkEntriesOf(arr, c)
                  /\ pc' = "rearm" /\ UNCHANGED <<client, todo, arr, cur>>
               \/ Deliver(ChunkEntriesOf(arr, c)) /\ Back /\ UNCHANGED <<pvTs, todo>>
  BY <1>1, Zenon DEF NextChunk
<1>3. /\ FirmwareOK' /\ Started' /\ dram' = dram /\ arr \in Faults /\ queue = <<arr>> /\ queue' = queue
      /\ reader[arr] \in [ts : Nat, next : Nat, last : Nat, preset : Nat, abort : BOOLEAN]
  BY <1>2 DEF fw, FirmwareOK, Started, ThreadOK, QueueHeld, Past, ReaderOK
<1>4. c.nnext \in Nat
  BY <1>1, <1>3, ChunkTyped
<1>5. PICK e : e = ChunkEntriesOf(arr, c)
  OBVIOUS
<1>6. e \in Seq(EntryVal)
  BY <1>1, <1>3, <1>5, ChunkEntriesTyped
<1>7. CASE pc' = "abort" /\ UNCHANGED <<reader, client, local>>
  BY <1>3, <1>7 DEF client, local, ReaderOK, DataOK, ThreadOK, QueueHeld, Past
<1>8. CASE /\ reader' = [reader EXCEPT ![arr].next = c.nnext] /\ record' = e
           /\ pc' = "rearm" /\ UNCHANGED <<client, todo, arr, cur>>
  BY <1>3, <1>4, <1>6, <1>8 DEF client, ReaderOK, DataOK, ThreadOK, QueueHeld, Past
<1>9. CASE /\ reader' = [reader EXCEPT ![arr].next = c.nnext]
           /\ Deliver(e) /\ Back /\ UNCHANGED <<pvTs, todo>>
  <2>1. DataOK'
    BY <1>3, <1>6, <1>9, DeliverTyped, BackTyped DEF DataOK
  <2> QED BY <1>3, <1>4, <1>9, <2>1, BackTyped DEF ReaderOK, ThreadOK, QueueHeld, Past
<1> QED BY <1>2, <1>5, <1>7, <1>8, <1>9

\* The end of a readout.
LEMMA TypeLast == TypeInv /\ (LastRearm \/ LastStamp \/ LastAppend) => TypeInv'
<1> SUFFICES ASSUME TypeInv, LastRearm \/ LastStamp \/ LastAppend PROVE TypeInv'
  OBVIOUS
<1> USE DEF TypeInv, TypeOK
<1>1. CASE LastRearm
  <2>1. arr \in Faults /\ queue = <<arr>> /\ UNCHANGED <<sw, client, local>> /\ pc' = "stamp"
    BY <1>1 DEF LastRearm, ThreadOK, QueueHeld, Past
  <2>2. FirmwareOK' /\ Started' /\ dram' = dram
    BY <1>1, <2>1, RearmedTyped DEF LastRearm
  <2> QED BY <2>1, <2>2 DEF sw, client, local, ReaderOK, DataOK, ThreadOK, QueueHeld
<1>2. CASE LastStamp
  <2>1. /\ arr \in Faults /\ queue = <<arr>> /\ UNCHANGED <<fw, sw, pv, local>> /\ pc' = "append"
        /\ pvTs' = [pvTs EXCEPT ![arr] = reader[arr].ts]
    BY <1>2 DEF LastStamp, ThreadOK, QueueHeld, Past
  <2>2. PICK t \in Int : t = reader[arr].ts
    BY <2>1 DEF ReaderOK
  <2>3. ReaderOK'
    BY <2>1, <2>2 DEF sw, ReaderOK
  <2> QED BY <2>1, <2>3 DEF fw, sw, local, FirmwareOK, Started, DataOK, ThreadOK, QueueHeld
<1>3. CASE LastAppend
  <2>1. queue' \in Seq(Faults) /\ Len(queue') <= 1 /\ arr \in Faults
    BY <1>3, QueueLeft DEF LastAppend, Past
  <2>2. FirmwareOK' /\ Started' /\ dram' = dram /\ ReaderOK'
    BY <1>3, <2>1 DEF LastAppend, fw, FirmwareOK, Started, ReaderOK
  <2>3. DataOK'
    <3>1. record \in Seq(EntryVal) /\ Deliver(record) /\ Back
      BY <1>3 DEF LastAppend, DataOK
    <3> QED BY <2>1, <2>2, <3>1, DeliverTyped, BackTyped DEF DataOK
  <2>4. ThreadOK' /\ QueueHeld'
    BY <1>3, BackTyped DEF LastAppend, ThreadOK, QueueHeld, Past
  <2> QED BY <2>2, <2>3, <2>4
<1> QED BY <1>1, <1>2, <1>3

\* abort().
LEMMA TypeAbort == TypeInv /\ (AbortPv \/ AbortReset) => TypeInv'
<1> SUFFICES ASSUME TypeInv, AbortPv \/ AbortReset PROVE TypeInv'
  OBVIOUS
<1> USE DEF TypeInv, TypeOK
<1>1. arr \in Faults /\ queue = <<arr>> /\ <<>> \in Seq(EntryVal) /\ Len(<<>>) = 0
  BY DEF AbortPv, AbortReset, ThreadOK, QueueHeld, Past
<1>2. CASE AbortPv
  <2>1. /\ reader' \in {reader, [reader EXCEPT ![arr].abort = TRUE]} /\ UNCHANGED <<fw, queue, local>>
        /\ pv' = [pv EXCEPT ![arr] = <<>>] /\ pvTs' = [pvTs EXCEPT ![arr] = tstamp[arr]] /\ pc' = "reset"
    BY <1>2, Zenon DEF AbortPv
  <2>2. ReaderOK'
    <3>1. reader' = reader \/ reader' = [reader EXCEPT ![arr].abort = TRUE]
      BY <2>1
    <3>2. PICK t \in Int : t = tstamp[arr]
      BY <1>1 DEF FirmwareOK
    <3>3. pvTs' \in [Faults -> Int]
      BY <2>1, <3>2 DEF ReaderOK
    <3>4. reader' \in [Faults -> [ts : Nat, next : Nat, last : Nat, preset : Nat, abort : BOOLEAN]]
      BY <1>1, <3>1 DEF ReaderOK
    <3> QED BY <2>1, <3>3, <3>4 DEF ReaderOK
  <2>3. DataOK'
    BY <1>1, <2>1, SizeTyped DEF fw, local, DataOK
  <2>4. FirmwareOK' /\ Started' /\ ThreadOK' /\ QueueHeld'
    BY <1>1, <2>1 DEF fw, local, FirmwareOK, Started, ThreadOK, QueueHeld
  <2> QED BY <2>2, <2>3, <2>4
<1>3. CASE AbortReset
  <2>1. Rearmed(arr) /\ Back /\ UNCHANGED <<sw, client, todo>>
    BY <1>3 DEF AbortReset
  <2>2. FirmwareOK' /\ Started' /\ dram' = dram
    BY <1>1, <2>1, RearmedTyped
  <2>3. ReaderOK' /\ DataOK'
    BY <2>1, <2>2, BackTyped DEF sw, client, ReaderOK, DataOK
  <2> QED BY <2>1, <2>2, <2>3, BackTyped DEF ThreadOK, QueueHeld, Past
<1> QED BY <1>2, <1>3

\* An access that throws, and a client that is started again.
LEMMA TypeCrash == TypeInv /\ (IoError \/ Restart) => TypeInv'
<1> SUFFICES ASSUME TypeInv, IoError \/ Restart PROVE TypeInv'
  OBVIOUS
<1> USE DEF TypeInv, TypeOK
<1>1. <<>> \in Seq(EntryVal) /\ Len(<<>>) = 0 /\ NoCur \in [ts : Nat, wr : Nat, wrap : BOOLEAN]
  BY DEF NoCur
<1>2. CASE IoError
  <2>1. /\ UNCHANGED <<sw, client>> /\ record' = <<>>
        /\ \/ pc \in {"skip", "next", "rearm", "append"} /\ pc' = "abort" /\ UNCHANGED <<todo, arr, cur>>
           \/ Crash
        /\ (pc \in {"skip", "rearm", "reset"} /\ Rearmed(arr)) \/ UNCHANGED fw
    BY <1>2 DEF IoError
  <2>2. FirmwareOK' /\ Started' /\ dram' = dram
    <3>1. pc \in {"skip", "rearm", "reset"} => arr \in Faults
      BY DEF ThreadOK
    <3> QED BY <2>1, <3>1, RearmedTyped DEF fw, FirmwareOK, Started
  <2>3. ReaderOK' /\ DataOK'
    BY <1>1, <2>1, <2>2 DEF sw, client, ReaderOK, DataOK
  <2>4. ThreadOK' /\ QueueHeld'
    <3>1. CASE pc \in {"skip", "next", "rearm", "append"} /\ pc' = "abort" /\ UNCHANGED <<todo, arr, cur>>
      BY <2>1, <3>1 DEF sw, ThreadOK, QueueHeld, Past
    <3>2. CASE Crash
      BY <1>1, <3>2 DEF Crash, ThreadOK, QueueHeld, Past
    <3> QED BY <2>1, <3>1, <3>2
  <2> QED BY <2>2, <2>3, <2>4
<1>3. CASE Restart
  <2>1. FirmwareOK' /\ Started'
    <3>1. Start \in Addresses
      BY SizeTyped, AddressesAre
    <3> QED BY <1>3, <3>1 DEF Restart, FirmwareOK, Started
  <2>2. DataOK'
    BY <1>1, <1>3, SizeTyped DEF Restart, DataOK
  <2>3. ReaderOK'
    BY <1>3 DEF Restart, ReaderOK, NewReader
  <2> QED BY <1>3, <2>1, <2>2, <2>3 DEF Restart, ThreadOK, QueueHeld, Past
<1> QED BY <1>2, <1>3

\* Every step keeps the type invariant.
LEMMA TypeNext == TypeInv /\ [Next]_vars => TypeInv'
<1> SUFFICES ASSUME TypeInv, [Next]_vars PROVE TypeInv'
  OBVIOUS
<1>1. CASE Firmware
  BY <1>1, TypeFirmware
<1>2. CASE Thread
  BY <1>2, TypeChoice, TypeReset, TypeSkip, TypeNextChunk, TypeLast, TypeAbort DEF Thread
<1>3. CASE IoError \/ Restart
  BY <1>3, TypeCrash
<1>4. CASE UNCHANGED vars
  BY <1>4 DEF vars, fw, sw, client, local, TypeInv, TypeOK, Started, QueueHeld,
              FirmwareOK, DataOK, ReaderOK, ThreadOK
<1> QED BY <1>1, <1>2, <1>3, <1>4 DEF Next

\* Every variable keeps its type, whatever the done bits, the write addresses and
\* the failing accesses do: no count, address or entry of a readout leaves what
\* the code's types hold, and the reader queue never holds a second buffer.
THEOREM TypeCorrect == Spec => []TypeOK
<1>1. TypeInv => TypeOK
  BY DEF TypeInv
<1> QED BY <1>1, TypeInit, TypeNext, PTL DEF Spec

-----------------------------------------------------------------------------
(* What each step does to the readers *)

Readers == [ts : Nat, next : Nat, last : Nat, preset : Nat, abort : BOOLEAN]

\* One reader is replaced.
LEMMA OneReader ==
    ASSUME reader \in [Faults -> Readers], arr \in Faults, NEW r \in Readers,
           reader' = [reader EXCEPT ![arr] = r]
    PROVE  reader'[arr] = r /\ \A f \in Faults \ {arr} : reader'[f] = reader[f]
OBVIOUS

\* The thread is at one buffer.
LEMMA AtBuffer ==
    ASSUME TypeInv, pc \notin {"idle", "scan", "crashed"}
    PROVE  /\ arr \in Faults /\ reader \in [Faults -> Readers] /\ reader[arr] \in Readers
           /\ cur.ts \in Nat /\ cur.wr \in Nat /\ cur.wrap \in BOOLEAN
           /\ cur \in [ts : Nat, wr : Nat, wrap : BOOLEAN]
BY DEF TypeInv, TypeOK, ReaderOK, ThreadOK, Readers

\* The front of the queue is all of it.
LEMMA FrontOfQueue ==
    ASSUME TypeInv, queue # <<>>, Head(queue) = arr
    PROVE  queue = <<arr>> /\ Tail(queue) = <<>>
BY Singleton DEF TypeInv, TypeOK, ReaderOK

\* Reader::preset queues the array's reader at the write address read, and nothing else.
LEMMA PresetDoes ==
    ASSUME TypeInv, Preset
    PROVE  /\ arr \in Faults /\ queue = <<>> /\ queue' = <<arr>> /\ Back /\ UNCHANGED <<fw, pv, pvTs, todo>>
           /\ reader'[arr].preset = cur.wr /\ reader'[arr].next = reader[arr].next
           /\ reader'[arr].last = reader[arr].last /\ reader'[arr].ts = reader[arr].ts
           /\ reader'[arr].abort = reader[arr].abort
           /\ \A f \in Faults \ {arr} : reader'[f] = reader[f]
<1>1. arr \in Faults /\ reader \in [Faults -> Readers] /\ reader[arr] \in Readers /\ cur.wr \in Nat
  BY AtBuffer DEF Preset
<1>2. PICK r : r = [reader[arr] EXCEPT !.preset = cur.wr]
  OBVIOUS
<1>3. /\ r \in Readers /\ r.preset = cur.wr /\ r.next = reader[arr].next /\ r.last = reader[arr].last
      /\ r.ts = reader[arr].ts /\ r.abort = reader[arr].abort
  BY <1>1, <1>2 DEF Readers
<1>4. reader' = [reader EXCEPT ![arr] = r]
  BY <1>2, Zenon DEF Preset
<1> QED BY <1>1, <1>3, <1>4, OneReader DEF Preset, client

\* Reader::reset, of a reader that is done: it takes the readout's place, or drops
\* an abort left from the last one.
LEMMA ResetDoes ==
    ASSUME TypeInv, ResetReader
    PROVE  /\ arr \in Faults /\ queue = <<arr>> /\ ReaderDone(reader[arr])
           /\ pc = "dispatch" /\ UNCHANGED <<fw, queue, todo, arr, cur, record>>
           /\ \A f \in Faults \ {arr} : reader'[f] = reader[f]
           /\ reader'[arr].preset = reader[arr].preset
           /\ \/ /\ reader[arr].abort /\ ~reader'[arr].abort /\ reader'[arr].ts = reader[arr].ts
                 /\ reader'[arr].next = cur.wr /\ reader'[arr].last = cur.wr
                 /\ pc' = "skip" /\ UNCHANGED <<pv, pvTs>>
              \/ /\ ~reader[arr].abort /\ cur.wr # reader[arr].preset
                 /\ reader' = reader /\ pc' = "skip" /\ UNCHANGED <<pv, pvTs>>
              \/ /\ ~reader[arr].abort /\ ~reader'[arr].abort /\ cur.wr = reader[arr].preset
                 /\ reader'[arr].ts = cur.ts /\ reader'[arr].last = cur.wr
                 /\ reader'[arr].next = IF cur.wrap THEN cur.wr
                                        ELSE IF reader[arr].last # 0 THEN reader[arr].last ELSE Start
                 /\ \/ /\ cur.wr % EntryUnits # 0
                       /\ pc' = "skip" /\ UNCHANGED <<pv, pvTs>>
                    \/ /\ cur.wr % EntryUnits = 0 /\ pc' = "next"
                       /\ pv' = [pv EXCEPT ![arr] = <<>>] /\ pvTs' = [pvTs EXCEPT ![arr] = cur.ts - 2]
<1> PICK r : r = reader[arr]
  OBVIOUS
<1>1. arr \in Faults /\ reader \in [Faults -> Readers] /\ r \in Readers /\ cur.wr \in Nat /\ cur.ts \in Nat
  BY AtBuffer DEF ResetReader
<1>2. /\ queue = <<arr>> /\ ReaderDone(r) /\ pc = "dispatch"
      /\ UNCHANGED <<fw, queue, todo, arr, cur, record>>
  BY FrontOfQueue DEF ResetReader, local
<1>3. PICK set : set = [r EXCEPT !.ts = cur.ts, !.last = cur.wr,
                                 !.next = IF cur.wrap THEN cur.wr
                                          ELSE IF r.last # 0 THEN r.last ELSE Start]
  OBVIOUS
<1>4. PICK halted : halted = [r EXCEPT !.next = cur.wr, !.last = cur.wr, !.abort = FALSE]
  OBVIOUS
<1>5. /\ set \in Readers /\ set.ts = cur.ts /\ set.last = cur.wr /\ set.preset = r.preset
      /\ set.next = IF cur.wrap THEN cur.wr ELSE IF r.last # 0 THEN r.last ELSE Start
      /\ set.abort = r.abort
  BY <1>1, <1>3, SizeTyped DEF Readers
<1>6. /\ halted \in Readers /\ halted.ts = r.ts /\ halted.next = cur.wr /\ halted.last = cur.wr
      /\ halted.preset = r.preset /\ ~halted.abort
  BY <1>1, <1>4 DEF Readers
<1>7. \/ /\ r.abort /\ reader' = [reader EXCEPT ![arr] = halted]
         /\ pc' = "skip" /\ UNCHANGED client
      \/ /\ ~r.abort /\ cur.wr # r.preset
         /\ pc' = "skip" /\ UNCHANGED <<reader, client>>
      \/ /\ ~r.abort /\ cur.wr = r.preset /\ cur.wr % EntryUnits # 0
         /\ reader' = [reader EXCEPT ![arr] = set]
         /\ pc' = "skip" /\ UNCHANGED client
      \/ /\ ~r.abort /\ cur.wr = r.preset /\ cur.wr % EntryUnits = 0
         /\ reader' = [reader EXCEPT ![arr] = set]
         /\ pv' = [pv EXCEPT ![arr] = <<>>]
         /\ pvTs' = [pvTs EXCEPT ![arr] = cur.ts - 2]
         /\ pc' = "next"
  BY <1>3, <1>4, Zenon DEF ResetReader, Provisional
<1>8. CASE r.abort /\ reader' = [reader EXCEPT ![arr] = halted] /\ pc' = "skip" /\ UNCHANGED client
  BY <1>1, <1>2, <1>6, <1>8, OneReader DEF client
<1>9. CASE ~r.abort /\ cur.wr # r.preset /\ pc' = "skip" /\ UNCHANGED <<reader, client>>
  BY <1>1, <1>2, <1>9 DEF client
<1>10. CASE /\ ~r.abort /\ cur.wr = r.preset /\ reader' = [reader EXCEPT ![arr] = set]
            /\ \/ /\ cur.wr % EntryUnits # 0
                  /\ pc' = "skip" /\ UNCHANGED client
               \/ /\ cur.wr % EntryUnits = 0
                  /\ pv' = [pv EXCEPT ![arr] = <<>>] /\ pvTs' = [pvTs EXCEPT ![arr] = cur.ts - 2]
                  /\ pc' = "next"
  <2>1. reader'[arr] = set /\ \A f \in Faults \ {arr} : reader'[f] = reader[f]
    BY <1>1, <1>5, <1>10, OneReader
  <2> QED BY <1>1, <1>2, <1>5, <1>10, <2>1, Zenon DEF client
<1> QED BY <1>7, <1>8, <1>9, <1>10, Zenon

\* Reader::next of an aborted reader leaves the queue as if it were done.
LEMMA NextAbortedDoes ==
    ASSUME TypeInv, NextAborted
    PROVE  /\ arr \in Faults /\ queue = <<arr>> /\ queue' = <<>> /\ Back /\ UNCHANGED <<fw, pv, pvTs, todo>>
           /\ reader[arr].abort /\ reader'[arr].abort /\ reader'[arr].next = reader[arr].last
           /\ reader'[arr].last = reader[arr].last /\ reader'[arr].ts = reader[arr].ts
           /\ reader'[arr].preset = reader[arr].preset
           /\ \A f \in Faults \ {arr} : reader'[f] = reader[f]
<1>1. arr \in Faults /\ reader \in [Faults -> Readers] /\ reader[arr] \in Readers
  BY AtBuffer DEF NextAborted
<1>2. PICK r : r = [reader[arr] EXCEPT !.next = reader[arr].last]
  OBVIOUS
<1>3. /\ r \in Readers /\ r.preset = reader[arr].preset /\ r.next = reader[arr].last
      /\ r.last = reader[arr].last /\ r.ts = reader[arr].ts /\ r.abort = reader[arr].abort
  BY <1>1, <1>2 DEF Readers
<1>4. reader' = [reader EXCEPT ![arr] = r]
  BY <1>2, Zenon DEF NextAborted
<1>5. queue = <<arr>> /\ queue' = <<>>
  BY QueueLeft DEF NextAborted, TypeInv, QueueHeld, Past
<1> QED BY <1>1, <1>3, <1>4, <1>5, OneReader DEF NextAborted, client

\* Reader::next fetches a chunk and moves on by it, or a chunk too long aborts.
LEMMA NextChunkDoes ==
    ASSUME TypeInv, NextChunk
    PROVE  /\ arr \in Faults /\ queue = <<arr>> /\ UNCHANGED <<fw, queue, pvTs, todo>>
           /\ pc = "next" /\ ~reader[arr].abort
           /\ \/ /\ Chunk(reader[arr]).n \notin 0 .. RingEntries
                 /\ pc' = "abort" /\ UNCHANGED <<reader, pv, arr, cur, record>>
              \/ /\ Chunk(reader[arr]).n \in 0 .. RingEntries
                 /\ reader'[arr].next = Chunk(reader[arr]).nnext
                 /\ reader'[arr].last = reader[arr].last /\ reader'[arr].ts = reader[arr].ts
                 /\ reader'[arr].preset = reader[arr].preset /\ ~reader'[arr].abort
                 /\ \A f \in Faults \ {arr} : reader'[f] = reader[f]
                 /\ \/ /\ reader'[arr].next = reader[arr].last /\ pc' = "rearm"
                       /\ record' = ChunkEntriesOf(arr, Chunk(reader[arr]))
                       /\ UNCHANGED <<pv, arr, cur>>
                    \/ /\ reader'[arr].next # reader[arr].last /\ Back
                       /\ Deliver(ChunkEntriesOf(arr, Chunk(reader[arr])))
<1> PICK c : c = Chunk(reader[arr])
  OBVIOUS
<1>1. arr \in Faults /\ reader \in [Faults -> Readers] /\ reader[arr] \in Readers
      /\ queue = <<arr>> /\ pc = "next" /\ ~reader[arr].abort
  BY AtBuffer DEF NextChunk, TypeInv, QueueHeld, Past
<1>2. c.nnext \in Nat
  BY <1>1, ChunkTyped DEF Readers
<1>3. PICK r : r = [reader[arr] EXCEPT !.next = c.nnext]
  OBVIOUS
<1>4. /\ r \in Readers /\ r.preset = reader[arr].preset /\ r.next = c.nnext
      /\ r.last = reader[arr].last /\ r.ts = reader[arr].ts /\ r.abort = reader[arr].abort
  BY <1>1, <1>2, <1>3 DEF Readers
<1>5. /\ UNCHANGED <<fw, queue>>
      /\ \/ c.n \notin 0 .. RingEntries /\ pc' = "abort" /\ UNCHANGED <<reader, client, local>>
         \/ /\ c.n \in 0 .. RingEntries /\ reader' = [reader EXCEPT ![arr] = r]
            /\ \/ /\ c.nnext = reader[arr].last /\ record' = ChunkEntriesOf(arr, c)
                  /\ pc' = "rearm" /\ UNCHANGED <<client, todo, arr, cur>>
               \/ /\ c.nnext # reader[arr].last
                  /\ Deliver(ChunkEntriesOf(arr, c)) /\ Back /\ UNCHANGED <<pvTs, todo>>
  BY <1>3, Zenon DEF NextChunk
<1>6. CASE c.n \notin 0 .. RingEntries /\ pc' = "abort" /\ UNCHANGED <<reader, client, local>>
  BY <1>1, <1>5, <1>6, Zenon DEF client, local
<1>7. CASE /\ c.n \in 0 .. RingEntries /\ reader' = [reader EXCEPT ![arr] = r]
           /\ \/ /\ c.nnext = reader[arr].last /\ record' = ChunkEntriesOf(arr, c)
                 /\ pc' = "rearm" /\ UNCHANGED <<client, todo, arr, cur>>
              \/ /\ c.nnext # reader[arr].last
                 /\ Deliver(ChunkEntriesOf(arr, c)) /\ Back /\ UNCHANGED <<pvTs, todo>>
  <2>1. reader'[arr] = r /\ \A f \in Faults \ {arr} : reader'[f] = reader[f]
    BY <1>1, <1>4, <1>7, OneReader
  <2> QED BY <1>1, <1>4, <1>5, <1>7, <2>1, Zenon DEF client
<1> QED BY <1>5, <1>6, <1>7, Zenon

\* abort() empties the waveforms and marks the reader; readers keep their places.
LEMMA AbortPvDoes ==
    ASSUME TypeInv, AbortPv
    PROVE  /\ arr \in Faults /\ queue = <<arr>> /\ UNCHANGED <<fw, queue, todo, arr, cur, record>>
           /\ pc = "abort" /\ pc' = "reset"
           /\ pv' = [pv EXCEPT ![arr] = <<>>] /\ pvTs' = [pvTs EXCEPT ![arr] = tstamp[arr]]
           /\ reader'[arr].abort /\ \A f \in Faults \ {arr} : reader'[f] = reader[f]
           /\ \A f \in Faults : /\ reader'[f].next = reader[f].next /\ reader'[f].last = reader[f].last
                                /\ reader'[f].ts = reader[f].ts /\ reader'[f].preset = reader[f].preset
<1>1. arr \in Faults /\ reader \in [Faults -> Readers] /\ reader[arr] \in Readers
  BY AtBuffer DEF AbortPv
<1>2. PICK r : r = [reader[arr] EXCEPT !.abort = TRUE]
  OBVIOUS
<1>3. /\ r \in Readers /\ r.preset = reader[arr].preset /\ r.next = reader[arr].next
      /\ r.last = reader[arr].last /\ r.ts = reader[arr].ts /\ r.abort = TRUE
  BY <1>1, <1>2 DEF Readers
<1>4. queue = <<arr>> /\ queue # <<>> /\ Head(queue) = arr
  BY DEF AbortPv, TypeInv, QueueHeld, Past
<1>5. reader' = [reader EXCEPT ![arr] = r]
  BY <1>2, <1>4, Zenon DEF AbortPv
<1>6. /\ UNCHANGED <<fw, queue, todo, arr, cur, record>> /\ pc = "abort" /\ pc' = "reset"
      /\ pv' = [pv EXCEPT ![arr] = <<>>] /\ pvTs' = [pvTs EXCEPT ![arr] = tstamp[arr]]
  BY DEF AbortPv, local
<1> QED BY <1>1, <1>3, <1>4, <1>5, <1>6, OneReader

\* Then it re-arms the buffer.
LEMMA AbortResetDoes ==
    ASSUME TypeInv, AbortReset
    PROVE  /\ arr \in Faults /\ queue = <<arr>> /\ pc = "reset" /\ Rearmed(arr) /\ Back
           /\ UNCHANGED <<reader, queue, pv, pvTs, todo>>
<1>1. arr \in Faults
  BY AtBuffer DEF AbortReset
<1> QED BY <1>1 DEF AbortReset, TypeInv, QueueHeld, Past, sw, client

\* A readout's end leaves the readers alone.
LEMMA LastDoes ==
    ASSUME TypeInv, LastRearm \/ LastStamp \/ LastAppend
    PROVE  arr \in Faults /\ queue = <<arr>> /\ UNCHANGED <<reader, todo>>
<1>1. arr \in Faults
  BY AtBuffer DEF LastRearm, LastStamp, LastAppend
<1> QED BY <1>1 DEF LastRearm, LastStamp, LastAppend, TypeInv, QueueHeld, Past, sw, local

\* A client that is started again finds its buffers re-armed and empty.
LEMMA RestartDoes ==
    ASSUME TypeInv, Restart
    PROVE  /\ pc = "crashed" /\ pc' = "idle" /\ queue' = <<>> /\ todo' = {} /\ arr \notin Faults
           /\ UNCHANGED <<tstamp, dram, written, arr, cur, record>>
           /\ \A f \in Faults :
                 /\ wrAddr'[f] = Start /\ ~full'[f] /\ ~done'[f] /\ ~latched'[f]
                 /\ base'[f] = written[f] /\ pv'[f] = <<>> /\ pvTs'[f] = 0
                 /\ reader'[f].ts = 0 /\ reader'[f].next = 0 /\ reader'[f].last = 0
                 /\ ~reader'[f].abort
BY SizeTyped DEF Restart, NewReader, TypeInv, TypeOK, FirmwareOK, ThreadOK

-----------------------------------------------------------------------------
(* The time stamp says when the waveforms are complete *)

\* Time stamps only move forward: the waveforms of a buffer are never ahead of its
\* register, and behind it by more than half a second once a fault is latched, where
\* abort() and a crash do not intervene; and a readout whose buffer was re-armed is
\* behind the next fault.
Stamped ==
    /\ \A f \in Faults :
          /\ pvTs[f] <= tstamp[f] /\ reader[f].ts <= tstamp[f]
          /\ latched[f] /\ ~Aborting(f) /\ pc # "crashed" => pvTs[f] <= tstamp[f] - 2
    /\ arr \in Faults => cur.ts <= tstamp[arr]
    /\ pc = "stamp" /\ latched[arr] => reader[arr].ts <= tstamp[arr] - 2

\* A firmware step leaves the software alone, and a fault moves its time stamp on.
LEMMA FirmwareStamps ==
    ASSUME TypeInv, Firmware
    PROVE  /\ UNCHANGED <<reader, queue, pv, pvTs, pc, todo, arr, cur, record>>
           /\ \A f \in Faults :
                 \/ tstamp'[f] = tstamp[f] /\ latched'[f] = latched[f]
                 \/ tstamp'[f] = tstamp[f] + 4 /\ latched'[f] /\ ~latched[f]
<1>1. PICK f \in Faults : FwBurst(f) \/ FwLatch(f) \/ FwErroneousDone(f)
  BY DEF Firmware
<1>2. UNCHANGED <<reader, queue, pv, pvTs, pc, todo, arr, cur, record>>
  BY <1>1 DEF FwBurst, FwLatch, FwErroneousDone, sw, client, local
<1>3. CASE UNCHANGED <<tstamp, latched>>
  BY <1>2, <1>3
<1>4. CASE FwLatch(f)
  BY <1>2, <1>4 DEF FwLatch, TypeInv, TypeOK, FirmwareOK
<1> QED BY <1>1, <1>3, <1>4 DEF FwBurst, FwErroneousDone

\* An Init pulse leaves the time stamp and ends the latch.
LEMMA RearmedStamps ==
    ASSUME TypeInv, Rearmed(arr) \/ UNCHANGED fw
    PROVE  /\ tstamp' = tstamp
           /\ \A f \in Faults : latched'[f] = latched[f] \/ ~latched'[f]
BY DEF Rearmed, fw, TypeInv, TypeOK, FirmwareOK

\* No step puts the stamp of a waveform or reader ahead of its register.
LEMMA StampedNext == TypeInv /\ Stamped /\ [Next]_vars => Stamped'
<1> SUFFICES ASSUME TypeInv, Stamped, [Next]_vars PROVE Stamped'
  OBVIOUS
<1>1. /\ tstamp \in [Faults -> Nat] /\ latched \in [Faults -> BOOLEAN]
      /\ reader \in [Faults -> Readers] /\ pvTs \in [Faults -> Int]
      /\ cur \in [ts : Nat, wr : Nat, wrap : BOOLEAN]
      /\ pc \notin {"idle", "scan", "crashed"} => arr \in Faults
      /\ arr \notin Faults => arr = NoArray
  BY DEF TypeInv, TypeOK, FirmwareOK, ReaderOK, ThreadOK, Readers
<1>2. CASE Firmware
  <2>1. UNCHANGED <<reader, pvTs, pc, arr, cur>>
    BY <1>2, FirmwareStamps
  <2>2. ASSUME NEW f \in Faults
        PROVE  /\ pvTs[f] <= tstamp'[f] /\ reader[f].ts <= tstamp'[f] /\ tstamp[f] <= tstamp'[f]
               /\ latched'[f] /\ ~Aborting(f) /\ pc # "crashed" => pvTs[f] <= tstamp'[f] - 2
               /\ pc = "stamp" /\ arr = f /\ latched'[f] => reader[f].ts <= tstamp'[f] - 2
               /\ tstamp[f] \in Nat /\ tstamp'[f] \in Nat
    <3>1. /\ pvTs[f] <= tstamp[f] /\ reader[f].ts <= tstamp[f]
          /\ latched[f] /\ ~Aborting(f) /\ pc # "crashed" => pvTs[f] <= tstamp[f] - 2
          /\ pc = "stamp" /\ arr = f /\ latched[f] => reader[f].ts <= tstamp[f] - 2
      BY DEF Stamped
    <3>2. pvTs[f] \in Int /\ reader[f].ts \in Nat /\ tstamp[f] \in Nat
      BY <1>1 DEF Readers
    <3>3. CASE tstamp'[f] = tstamp[f] /\ latched'[f] = latched[f]
      BY <3>1, <3>2, <3>3
    <3>4. CASE tstamp'[f] = tstamp[f] + 4
      BY <3>1, <3>2, <3>4
    <3> QED BY <1>2, <3>3, <3>4, FirmwareStamps
  <2> QED BY <1>1, <2>1, <2>2 DEF Stamped, Aborting
\* Steps that leave the waveforms' time stamps and the readers' alone.
<1> DEFINE Quiet == /\ pvTs' = pvTs /\ \A f \in Faults : reader'[f].ts = reader[f].ts
                    /\ (cur' = cur /\ arr' = arr) \/ arr' = NoArray
                    /\ pc \notin {"reset", "crashed"} \/ pc' = "crashed" \/ UNCHANGED <<pc, arr>>
                    /\ pc' = "stamp" => (pc = "stamp" /\ arr' = arr) \/ ~latched'[arr']
<1>3. CASE Quiet /\ (Rearmed(arr) \/ UNCHANGED fw)
  <2>1. tstamp' = tstamp /\ \A f \in Faults : latched'[f] => latched[f]
    BY <1>3, RearmedStamps
  <2>2. ASSUME NEW f \in Faults
        PROVE  /\ pvTs'[f] <= tstamp'[f] /\ reader'[f].ts <= tstamp'[f]
               /\ latched'[f] /\ ~Aborting(f)' /\ pc' # "crashed" => pvTs'[f] <= tstamp'[f] - 2
    BY <1>3, <2>1 DEF Stamped, Aborting
  <2>3. arr' \in Faults => cur'.ts <= tstamp'[arr']
    BY <1>3, <2>1, SizeTyped DEF Stamped
  <2>4. pc' = "stamp" /\ latched'[arr'] => reader'[arr'].ts <= tstamp'[arr'] - 2
    <3>1. SUFFICES ASSUME pc' = "stamp", latched'[arr'] PROVE reader'[arr'].ts <= tstamp'[arr'] - 2
      OBVIOUS
    <3>2. pc = "stamp" /\ arr' = arr /\ arr \in Faults
      BY <1>1, <1>3, <3>1
    <3> QED BY <1>3, <2>1, <3>1, <3>2 DEF Stamped
  <2> QED BY <2>2, <2>3, <2>4 DEF Stamped
<1>4. CASE Pending \/ Sleep \/ Continue \/ UNCHANGED vars
  <2>1. Quiet /\ UNCHANGED fw
    BY <1>4 DEF Pending, Sleep, Continue, vars, sw, client, local
  <2> QED BY <1>3, <2>1
<1>5. CASE OtherBuffer \/ Preset
  <2>1. CASE OtherBuffer
    BY <1>3, <2>1 DEF OtherBuffer, Back, sw, client
  <2>2. CASE Preset
    <3>1. Quiet
      <4>1. \A f \in Faults : reader'[f].ts = reader[f].ts
        BY <2>2, PresetDoes
      <4> QED BY <2>2, <4>1, PresetDoes DEF Back, Preset
    <3> QED BY <1>3, <2>2, <3>1, PresetDoes
  <2> QED BY <1>5, <2>1, <2>2
<1>6. CASE ReadTs
  <2>1. PICK f \in Faults : arr' = f /\ cur' = [NoCur EXCEPT !.ts = tstamp[f]]
    BY <1>6 DEF ReadTs, TypeInv, TypeOK, ThreadOK
  <2>2. UNCHANGED <<tstamp, latched, reader, pvTs>> /\ pc = "scan" /\ pc' = "readWr"
    BY <1>6 DEF ReadTs, fw, sw, client
  <2> QED BY <1>1, <2>1, <2>2 DEF Stamped, Aborting, NoCur
<1>7. CASE ReadWr \/ ReadFull
  <2>1. /\ arr' = arr /\ cur'.ts = cur.ts /\ UNCHANGED <<tstamp, latched, reader, pvTs>>
        /\ pc \in {"readWr", "readFull"} /\ pc' \in {"readFull", "dispatch"}
    BY <1>1, <1>7 DEF ReadWr, ReadFull, fw, sw, client
  <2> QED BY <1>1, <2>1 DEF Stamped, Aborting
<1>8. CASE ResetReader
  <2>1. /\ arr \in Faults /\ arr' = arr /\ cur' = cur /\ UNCHANGED <<tstamp, latched>>
        /\ pc = "dispatch" /\ pc' \in {"skip", "next"}
    BY <1>8, ResetDoes DEF fw
  <2>2. \A f \in Faults : reader'[f].ts = reader[f].ts \/ (f = arr /\ reader'[f].ts = cur.ts)
    BY <1>8, ResetDoes
  <2>3. pvTs' = pvTs \/ pvTs' = [pvTs EXCEPT ![arr] = cur.ts - 2]
    BY <1>8, ResetDoes
  <2>4. \A f \in Faults : pvTs'[f] = pvTs[f] \/ (f = arr /\ pvTs'[f] = cur.ts - 2)
    BY <1>1, <2>1, <2>3
  <2> QED BY <1>1, <2>1, <2>2, <2>4 DEF Stamped, Aborting
<1>9. CASE Skip
  BY <1>3, <1>9 DEF Skip, Back, client
<1>10. CASE NextAborted
  <2>1. Quiet
    BY <1>10, NextAbortedDoes DEF Back, NextAborted
  <2> QED BY <1>3, <1>10, <2>1, NextAbortedDoes
<1>11. CASE NextChunk
  <2>1. Quiet
    BY <1>11, NextChunkDoes DEF Back
  <2> QED BY <1>3, <1>11, <2>1, NextChunkDoes
<1>12. CASE LastRearm
  <2>1. Rearmed(arr) /\ UNCHANGED <<reader, pvTs, cur, arr>> /\ pc = "rearm" /\ pc' = "stamp" /\ arr \in Faults
    BY <1>1, <1>12 DEF LastRearm, sw, client, local
  <2>2. ~latched'[arr']
    BY <1>1, <2>1 DEF Rearmed
  <2> QED BY <1>3, <2>1, <2>2
<1>13. CASE LastStamp
  <2>1. /\ arr \in Faults /\ UNCHANGED <<fw, reader, arr, cur>> /\ pc = "stamp" /\ pc' = "append"
        /\ pvTs' = [pvTs EXCEPT ![arr] = reader[arr].ts]
    BY <1>1, <1>13 DEF LastStamp, sw, local
  <2>2. UNCHANGED <<tstamp, latched>>
    BY <2>1 DEF fw
  <2>3. ASSUME NEW f \in Faults
        PROVE  pvTs'[f] <= tstamp[f] /\ (latched[f] => pvTs'[f] <= tstamp[f] - 2)
    <3>1. CASE f = arr
      BY <1>1, <2>1, <3>1 DEF Stamped
    <3>2. CASE f # arr
      <4>1. pvTs'[f] = pvTs[f]
        BY <1>1, <2>1, <3>2
      <4> QED BY <2>1, <3>2, <4>1 DEF Stamped, Aborting
    <3> QED BY <3>1, <3>2
  <2> QED BY <1>1, <2>1, <2>2, <2>3 DEF Stamped
<1>14. CASE LastAppend
  <2>1. Quiet /\ UNCHANGED fw
    BY <1>14 DEF LastAppend, Back
  <2> QED BY <1>3, <2>1
<1>15. CASE AbortPv
  <2>1. /\ arr \in Faults /\ UNCHANGED <<fw, arr, cur>> /\ pvTs' = [pvTs EXCEPT ![arr] = tstamp[arr]]
        /\ pc = "abort" /\ pc' = "reset" /\ \A f \in Faults : reader'[f].ts = reader[f].ts
    BY <1>15, AbortPvDoes
  <2>2. UNCHANGED <<tstamp, latched>>
    BY <2>1 DEF fw
  <2>3. ASSUME NEW f \in Faults
        PROVE  pvTs'[f] <= tstamp[f] /\ (latched[f] /\ f # arr => pvTs'[f] <= tstamp[f] - 2)
    BY <1>1, <2>1 DEF Stamped, Aborting
  <2> QED BY <1>1, <2>1, <2>2, <2>3 DEF Stamped, Aborting
<1>16. CASE AbortReset
  <2>1. /\ arr \in Faults /\ arr' = NoArray /\ pc' = "scan" /\ UNCHANGED <<reader, pvTs>> /\ pc = "reset"
        /\ tstamp' = tstamp /\ latched' = [latched EXCEPT ![arr] = FALSE]
    BY <1>16, AbortResetDoes DEF Rearmed, Back
  <2>2. ASSUME NEW f \in Faults
        PROVE  pvTs[f] <= tstamp[f] /\ (latched'[f] => pvTs[f] <= tstamp[f] - 2)
    BY <1>1, <2>1 DEF Stamped, Aborting
  <2> QED BY <2>1, <2>2, SizeTyped DEF Stamped
<1>17. CASE IoError
  <2>1. Quiet /\ (Rearmed(arr) \/ UNCHANGED fw)
    BY <1>17 DEF IoError, Crash, sw, client
  <2> QED BY <1>3, <2>1
<1>18. CASE Restart
  BY <1>1, <1>18, RestartDoes DEF Stamped
<1> QED BY <1>2, <1>4, <1>5, <1>6, <1>7, <1>8, <1>9, <1>10, <1>11, <1>12, <1>13, <1>14, <1>15, <1>16,
           <1>17, <1>18 DEF Next, Thread

\* The waveforms of a latched buffer never carry its fault's time stamp: a client that
\* takes a stamp within half a second of the fault's for a complete readout (fltbdone.py)
\* is not told so early, whatever the done bits, the write addresses and the accesses
\* do, and though a new fault may latch between Reader::next's re-arm and its stamp.
\* Not so within abort(), which stamps what it emptied before it re-arms
\* (Processor.cc:368, 387), nor of a client that ended there.
THEOREM StampNeverEarly == Spec => []StampNotEarly
<1>1. Init => Stamped
  BY SizeTyped DEF Init, Stamped, NewReader
<1>2. TypeInv /\ Stamped => StampNotEarly
  BY DEF TypeInv, TypeOK, FirmwareOK, ReaderOK, Stamped, StampNotEarly
<1> QED BY <1>1, <1>2, TypeInit, TypeNext, StampedNext, PTL DEF Spec

-----------------------------------------------------------------------------
(* One readout at a time *)

\* A firmware that writes whole entries, so that WrAddr is always at the beginning
\* of one.
WholeEntries == \E k \in Nat : BurstUnits = k * EntryUnits

\* Address x begins an entry.
Aligned(x) == \E j \in Nat : x = j * EntryUnits

\* OneReadout is not inductive alone: a buffer whose WrAddr splits an entry, or
\* whose readout is over, leaves the queue, and is done only if the readers'
\* addresses are those of entries.
OneAtATime ==
    /\ \A f \in Faults :
          Aligned(wrAddr[f]) /\ Aligned(reader[f].next) /\ Aligned(reader[f].last)
    /\ Aligned(cur.wr)
    /\ OneReadout
    /\ pc \in {"skip", "rearm", "stamp", "append"} => ReaderDone(reader[arr])

\* Addresses of entries.
LEMMA AlignedAre ==
    /\ Aligned(0) /\ Aligned(Start) /\ Aligned(End) /\ Aligned(End + EntryUnits)
    /\ Aligned(ChunkEntries * EntryUnits)
<1>1. /\ 0 = 0 * EntryUnits /\ Start = RingEntries * EntryUnits
      /\ End = (RingEntries + RingEntries) * EntryUnits
      /\ End + EntryUnits = (RingEntries + RingEntries + 1) * EntryUnits
  BY SizeTyped
<1>2. RingEntries + RingEntries \in Nat /\ RingEntries + RingEntries + 1 \in Nat /\ 0 \in Nat
  BY SizeTyped
<1> QED BY <1>1, <1>2, SizeTyped DEF Aligned

\* So many entries further on is the address of an entry.
LEMMA AlignedSum ==
    ASSUME NEW x, NEW y, Aligned(x), Aligned(y)
    PROVE  Aligned(x + y)
<1>1. PICK i \in Nat : x = i * EntryUnits
  BY DEF Aligned
<1>2. PICK j \in Nat : y = j * EntryUnits
  BY DEF Aligned
<1>3. x + y = (i + j) * EntryUnits /\ i + j \in Nat
  BY <1>1, <1>2, SizeTyped
<1> QED BY <1>3 DEF Aligned

\* And splits none.
LEMMA AlignedSplitsNone ==
    ASSUME NEW x, Aligned(x)
    PROVE  x \in Nat /\ x % EntryUnits = 0
<1>1. PICK i \in Nat : x = i * EntryUnits
  BY DEF Aligned
<1>2. (i * EntryUnits + 0) % EntryUnits = 0
  BY SizeTyped, Remainder
<1>3. i * EntryUnits \in Nat /\ i * EntryUnits + 0 = i * EntryUnits
  BY SizeTyped
<1> QED BY <1>1, <1>2, <1>3

\* A chunk ends at the address of an entry.
LEMMA AlignedChunk ==
    ASSUME NEW r \in Readers, Aligned(r.next), Aligned(r.last)
    PROVE  Aligned(Chunk(r).nnext)
<1> DEFINE next == r.next + ChunkEntries * EntryUnits
           limit == IF r.next < r.last THEN r.last ELSE End
<1>1. Aligned(next)
  BY AlignedAre, AlignedSum
<1>2. Chunk(r).nnext = IF next < limit THEN next ELSE IF r.next < r.last THEN r.last ELSE Start
  BY DEF Chunk
<1> HIDE DEF next, limit
<1> QED BY <1>1, <1>2, AlignedAre

\* The firmware's WrAddr stays at the beginning of an entry, even a wild one.
LEMMA AlignedFirmware ==
    ASSUME WholeEntries, TypeInv, \A f \in Faults : Aligned(wrAddr[f]),
           Firmware \/ (arr \in Faults /\ Rearmed(arr)) \/ Restart \/ UNCHANGED wrAddr
    PROVE  \A f \in Faults : Aligned(wrAddr'[f])
<1>1. wrAddr \in [Faults -> Addresses]
  BY DEF TypeInv, TypeOK, FirmwareOK
<1>2. ASSUME NEW f \in Faults, FwBurst(f) PROVE \A g \in Faults : Aligned(wrAddr'[g])
  <2>1. Aligned(BurstUnits)
    BY DEF WholeEntries, Aligned
  <2>2. Aligned(wrAddr[f] + BurstUnits)
    BY <2>1, AlignedSum
  <2>3. PICK w : Aligned(w) /\ wrAddr' = [wrAddr EXCEPT ![f] = w]
    BY <1>2, <2>2, AlignedAre, Zenon DEF FwBurst
  <2> QED BY <1>1, <2>3
<1>3. ASSUME NEW f \in Faults, FwLatch(f) PROVE \A g \in Faults : Aligned(wrAddr'[g])
  <2>1. PICK w \in {wrAddr[f], End + EntryUnits} : wrAddr' = [wrAddr EXCEPT ![f] = w]
    BY <1>3 DEF FwLatch
  <2> QED BY <1>1, <2>1, AlignedAre
<1>4. ASSUME NEW f \in Faults, FwErroneousDone(f) PROVE \A g \in Faults : Aligned(wrAddr'[g])
  BY <1>4 DEF FwErroneousDone
<1>5. CASE arr \in Faults /\ Rearmed(arr)
  BY <1>1, <1>5, AlignedAre DEF Rearmed
<1>6. CASE Restart
  BY <1>6, RestartDoes, AlignedAre
<1> QED BY <1>2, <1>3, <1>4, <1>5, <1>6 DEF Firmware

\* Nothing is being read at the start.
LEMMA OneInit == Init => OneAtATime
<1> SUFFICES ASSUME Init PROVE OneAtATime
  OBVIOUS
<1>1. \A f \in Faults : wrAddr[f] = Start /\ reader[f].next = 0 /\ reader[f].last = 0
  BY DEF Init, NewReader
<1>2. cur.wr = 0 /\ pc = "idle"
  BY DEF Init, NoCur
<1> QED BY <1>1, <1>2, AlignedAre DEF OneAtATime, OneReadout, ReaderDone

\* No step queues a second readout, or moves a reader off whole entries.
LEMMA OneNext == WholeEntries /\ TypeInv /\ OneAtATime /\ [Next]_vars => OneAtATime'
<1> SUFFICES ASSUME WholeEntries, TypeInv, OneAtATime, [Next]_vars PROVE OneAtATime'
  OBVIOUS
<1>1. /\ reader \in [Faults -> Readers] /\ \A f \in Faults : Aligned(wrAddr[f])
      /\ pc \notin {"idle", "scan", "crashed"} => arr \in Faults
  BY DEF TypeInv, TypeOK, ReaderOK, ThreadOK, Readers, OneAtATime
<1>2. \A f \in Faults : Aligned(wrAddr'[f])
  <2>1. Firmware \/ (arr \in Faults /\ Rearmed(arr)) \/ Restart \/ UNCHANGED wrAddr
    <3>1. CASE Thread
      BY <1>1, <3>1 DEF Thread, Pending, Sleep, ReadTs, ReadWr, ReadFull, Preset, OtherBuffer,
         ResetReader, Continue, Skip, NextAborted, NextChunk, LastRearm, LastStamp, LastAppend,
         AbortPv, AbortReset, fw
    <3>2. CASE IoError
      BY <1>1, <3>2 DEF IoError, fw
    <3> QED BY <3>1, <3>2 DEF Next, vars, fw
  <2> QED BY <1>1, <2>1, AlignedFirmware
\* Steps that leave the readers and the queue alone.
<1> DEFINE Quiet == /\ UNCHANGED <<reader, queue>> /\ (cur' = cur \/ Aligned(cur'.wr))
                    /\ pc' \in {"skip", "rearm"} => pc' = pc /\ arr' = arr
                    /\ pc' \in {"stamp", "append"} => arr' = arr /\ pc \in {"rearm", "stamp", "append"}
<1>3. CASE Quiet
  BY <1>2, <1>3 DEF OneAtATime, OneReadout
<1>4. CASE Firmware
  BY <1>3, <1>4, FirmwareStamps
<1>5. CASE Pending \/ Sleep \/ Continue \/ UNCHANGED vars
  BY <1>3, <1>5 DEF Pending, Sleep, Continue, vars, sw, local
<1>6. CASE ReadTs \/ ReadFull \/ OtherBuffer
  <2>1. cur \in [ts : Nat, wr : Nat, wrap : BOOLEAN]
    BY DEF TypeInv, TypeOK, ThreadOK
  <2>2. cur'.wr = 0 \/ cur'.wr = cur.wr
    BY <1>6, <2>1 DEF ReadTs, ReadFull, OtherBuffer, Back, NoCur
  <2>3. Aligned(cur'.wr)
    BY <2>2, AlignedAre DEF OneAtATime
  <2> QED BY <1>3, <1>6, <2>3 DEF ReadTs, ReadFull, OtherBuffer, Back, sw
<1>7. CASE ReadWr
  <2>1. cur'.wr = wrAddr[arr]
    BY <1>1, <1>7, AtBuffer DEF ReadWr
  <2> QED BY <1>1, <1>3, <1>7, <2>1 DEF ReadWr, sw
<1>8. CASE IoError \/ LastRearm \/ LastStamp
  <2>1. CASE IoError
    <3>1. cur' = cur \/ Aligned(cur'.wr)
      BY <2>1, AlignedAre DEF IoError, Crash, NoCur
    <3> QED BY <1>3, <2>1, <3>1 DEF IoError, Crash, sw
  <2>2. CASE LastRearm \/ LastStamp
    BY <1>3, <2>2 DEF LastRearm, LastStamp, sw, local
  <2> QED BY <1>8, <2>1, <2>2
\* Leaving update() clears its locals.
<1>9. Back => Aligned(cur'.wr) /\ pc' = "scan"
  BY AlignedAre DEF Back, NoCur
<1>10. CASE Preset
  <2>1. \A f \in Faults : reader'[f].next = reader[f].next /\ reader'[f].last = reader[f].last
    BY <1>10, PresetDoes
  <2>2. \A f \in Faults : ReaderDone(reader[f])
    BY <1>10 DEF Preset, OneAtATime, OneReadout
  <2> QED BY <1>2, <1>9, <1>10, <2>1, <2>2 DEF OneAtATime, OneReadout, ReaderDone, Preset
<1>11. CASE ResetReader
  <2>1. /\ arr \in Faults /\ queue = <<arr>> /\ queue' = queue /\ cur' = cur /\ arr' = arr
        /\ ReaderDone(reader[arr]) /\ \A f \in Faults \ {arr} : reader'[f] = reader[f]
    BY <1>11, ResetDoes
  <2>2. Aligned(cur.wr) /\ cur.wr % EntryUnits = 0
    BY AlignedSplitsNone DEF OneAtATime
  <2>3. Aligned(reader'[arr].next) /\ Aligned(reader'[arr].last)
        /\ (pc' = "skip" => ReaderDone(reader'[arr])) /\ pc' \in {"skip", "next"}
    BY <1>11, <2>1, <2>2, ResetDoes, AlignedAre DEF OneAtATime, ReaderDone
  <2>4. \A f \in Faults : ~ReaderDone(reader'[f]) => queue' = <<f>>
    BY <2>1 DEF OneAtATime, OneReadout
  <2> QED BY <1>2, <2>1, <2>2, <2>3, <2>4 DEF OneAtATime, OneReadout
\* Leaving the queue: nobody else had chunks left, and this buffer has none.
<1>12. CASE Skip
  <2>1. arr \in Faults /\ queue = <<arr>> /\ UNCHANGED reader /\ Back /\ ReaderDone(reader[arr])
    BY <1>1, <1>12 DEF Skip, TypeInv, QueueHeld, Past, OneAtATime
  <2>2. \A f \in Faults : ReaderDone(reader[f])
    BY <2>1 DEF OneAtATime, OneReadout
  <2> QED BY <1>2, <1>9, <2>1, <2>2 DEF OneAtATime, OneReadout
<1>13. CASE NextAborted
  <2>1. /\ arr \in Faults /\ queue = <<arr>> /\ Back /\ \A f \in Faults \ {arr} : reader'[f] = reader[f]
        /\ reader'[arr].next = reader[arr].last /\ reader'[arr].last = reader[arr].last
    BY <1>13, NextAbortedDoes
  <2>2. \A f \in Faults : ReaderDone(reader'[f])
    BY <2>1 DEF OneAtATime, OneReadout, ReaderDone
  <2>3. \A f \in Faults : Aligned(reader'[f].next) /\ Aligned(reader'[f].last)
    BY <2>1 DEF OneAtATime
  <2> QED BY <1>2, <1>9, <2>1, <2>2, <2>3 DEF OneAtATime, OneReadout
<1>14. CASE NextChunk
  <2>1. arr \in Faults /\ queue = <<arr>> /\ queue' = queue
    BY <1>14, NextChunkDoes
  <2>2. CASE UNCHANGED <<reader, arr, cur>> /\ pc' = "abort"
    BY <1>3, <2>1, <2>2
  <2>3. CASE /\ reader'[arr].next = Chunk(reader[arr]).nnext /\ reader'[arr].last = reader[arr].last
             /\ \A f \in Faults \ {arr} : reader'[f] = reader[f]
             /\ \/ reader'[arr].next = reader[arr].last /\ pc' = "rearm" /\ UNCHANGED <<arr, cur>>
                \/ Back
    <3>1. Aligned(reader'[arr].next) /\ Aligned(reader'[arr].last)
      BY <1>1, <2>1, <2>3, AlignedChunk DEF OneAtATime
    <3>2. \A f \in Faults : ~ReaderDone(reader'[f]) => queue' = <<f>>
      BY <2>1, <2>3 DEF OneAtATime, OneReadout
    <3>3. /\ Aligned(cur'.wr)
          /\ pc' \in {"skip", "rearm", "stamp", "append"} => ReaderDone(reader'[arr]) /\ arr' = arr
      BY <1>9, <2>3 DEF OneAtATime, ReaderDone
    <3> QED BY <1>2, <2>1, <2>3, <3>1, <3>2, <3>3 DEF OneAtATime, OneReadout
  <2> QED BY <1>14, <2>2, <2>3, NextChunkDoes
<1>15. CASE LastAppend
  <2>1. arr \in Faults /\ queue = <<arr>> /\ UNCHANGED reader /\ Back /\ ReaderDone(reader[arr])
    BY <1>1, <1>15, LastDoes DEF LastAppend, OneAtATime
  <2>2. \A f \in Faults : ReaderDone(reader[f])
    BY <2>1 DEF OneAtATime, OneReadout
  <2> QED BY <1>2, <1>9, <2>1, <2>2 DEF OneAtATime, OneReadout
<1>16. CASE AbortPv
  <2>1. /\ UNCHANGED <<queue, cur>> /\ pc' = "reset"
        /\ \A f \in Faults : reader'[f].next = reader[f].next /\ reader'[f].last = reader[f].last
    BY <1>16, AbortPvDoes
  <2> QED BY <1>2, <2>1 DEF OneAtATime, OneReadout, ReaderDone
<1>17. CASE AbortReset
  BY <1>3, <1>9, <1>17, AbortResetDoes
<1>18. CASE Restart
  <2>1. \A f \in Faults : reader'[f].next = 0 /\ reader'[f].last = 0
    BY <1>18, RestartDoes
  <2>2. cur' = cur /\ pc' = "idle"
    BY <1>18, RestartDoes
  <2> QED BY <1>2, <2>1, <2>2, AlignedAre DEF OneAtATime, OneReadout, ReaderDone
<1> QED BY <1>4, <1>5, <1>6, <1>7, <1>8, <1>10, <1>11, <1>12, <1>13, <1>14, <1>15, <1>16, <1>17, <1>18
        DEF Next, Thread

\* The readout is throttled to one buffer at a time, whatever fails on the way: a
\* reader that has chunks left to read is at the front of the queue, alone, so no
\* second fault's readout begins before the first one's ends.
THEOREM OneReadoutOnly == WholeEntries => (Spec => []OneReadout)
<1> SUFFICES ASSUME WholeEntries PROVE Spec => []OneReadout
  OBVIOUS
<1>1. OneAtATime => OneReadout
  BY DEF OneAtATime
<1>2. TypeInv /\ OneAtATime /\ [Next]_vars => OneAtATime'
  BY OneNext
<1> QED BY <1>1, <1>2, TypeInit, TypeNext, OneInit, PTL DEF Spec

-----------------------------------------------------------------------------
(* Every chunk lies in the ring *)

\* WrAddr stays in its region, and the readers take theirs from it.
InRing ==
    /\ \A f \in Faults :
          /\ wrAddr[f] \in Region
          /\ \/ reader[f].next = 0 /\ reader[f].last = 0
             \/ reader[f].next \in Region /\ reader[f].last \in Region
    /\ pc \in {"readFull", "dispatch"} => cur.wr \in Region
    /\ pc = "next" => reader[arr].last # 0

\* The entries a reader has still to read.
Left(r) == (r.last + (IF r.next < r.last THEN 0 ELSE RingUnits) - r.next) \div EntryUnits

\* A chunk takes at least one of the entries left, and never leaves the ring.
LEMMA ChunkIs ==
    ASSUME NEW r \in Readers, Aligned(r.next), Aligned(r.last), r.next \in Region, r.last \in Region
    PROVE  LET c == Chunk(r)  m == Left(r)
           IN  /\ m \in 1 .. RingEntries
               /\ r.next + m * EntryUnits = r.last + (IF r.next < r.last THEN 0 ELSE RingUnits)
               /\ c.n \in 1 .. m /\ c.from = r.next /\ c.to = r.next + c.n * EntryUnits /\ c.to <= End
               /\ c.nnext \in Region
               /\ c.n = m <=> c.nnext = r.last
               /\ \A s \in Readers :
                     s.next = c.nnext /\ s.last = r.last /\ c.nnext # r.last =>
                         Left(s) = m - c.n /\ (r.next < r.last => s.next < s.last)
<1> DEFINE E == EntryUnits  R == RingEntries  C == ChunkEntries
<1>1. E \in Nat \ {0} /\ R \in Nat \ {0} /\ C \in Nat \ {0} /\ C <= R
      /\ Start = R * E /\ End = Start + R * E /\ RingUnits = R * E
  BY SizeTyped
<1>2. ASSUME NEW x, Aligned(x), x \in Region PROVE \E j \in 0 .. R - 1 : x = Start + j * E
  <2>1. PICK a \in Nat : x = a * E
    BY <1>2 DEF Aligned
  <2>2. R * E <= a * E /\ a * E < (R + R) * E
    BY <1>1, <1>2, <2>1 DEF Region
  <2>3. R <= a /\ a < R + R
    BY <1>1, <2>2, TimesOrder
  <2>4. a - R \in 0 .. R - 1 /\ x = Start + (a - R) * E
    BY <1>1, <2>1, <2>3
  <2> QED BY <2>4
<1>3. PICK i \in 0 .. R - 1 : r.next = Start + i * E
  BY <1>2
<1>4. PICK j \in 0 .. R - 1 : r.last = Start + j * E
  BY <1>2
<1>5. i \in Nat /\ j \in Nat /\ i * E \in Nat /\ j * E \in Nat /\ R * E \in Nat /\ C * E \in Nat
  BY <1>1
<1>6. r.next < r.last <=> i < j
  BY <1>1, <1>3, <1>4, <1>5, TimesOrder
<1> PICK l \in 1 .. R : l = IF i < j THEN j ELSE R
  BY <1>1
<1> PICK m \in 1 .. R : m = IF i < j THEN j - i ELSE R - i + j
  <2>1. CASE i < j
    <3>1. j - i \in 1 .. R
      BY <1>1, <1>5, <2>1
    <3> QED BY <2>1, <3>1
  <2>2. CASE ~(i < j)
    <3>1. R - i + j \in 1 .. R
      BY <1>1, <1>5, <2>2
    <3> QED BY <2>2, <3>1
  <2> QED BY <2>1, <2>2
<1>7. r.next + m * E = r.last + (IF r.next < r.last THEN 0 ELSE RingUnits)
  <2>1. CASE i < j
    BY <1>1, <1>3, <1>4, <1>6, <2>1
  <2>2. CASE ~(i < j)
    BY <1>1, <1>3, <1>4, <1>6, <2>2
  <2> QED BY <2>1, <2>2
<1>8. Left(r) = m
  <2>1. r.last + (IF r.next < r.last THEN 0 ELSE RingUnits) - r.next = m * E
    <3>1. PICK e : e = IF r.next < r.last THEN 0 ELSE RingUnits
      OBVIOUS
    <3>2. m * E \in Nat /\ r.next \in Nat /\ r.last \in Nat /\ e \in Nat
      BY <1>1, <1>3, <1>4, <1>5, <3>1
    <3>3. r.next + m * E = r.last + e
      BY <1>7, <3>1
    <3>4. PICK x \in Nat : x = m * E
      BY <3>2
    <3>5. r.last + e - r.next = x
      BY <3>2, <3>3, <3>4
    <3> QED BY <3>1, <3>4, <3>5
  <2> QED BY <1>1, <2>1, ExactDivision DEF Left
<1>9. PICK n \in 1 .. m : n = IF i + C < l THEN C ELSE l - i
  <2>1. i < l /\ l - i <= m
    <3>1. CASE i < j
      BY <1>1, <1>5, <3>1
    <3>2. CASE ~(i < j)
      BY <1>1, <1>5, <3>2
    <3> QED BY <3>1, <3>2
  <2>2. CASE i + C < l
    <3>1. C \in 1 .. m
      BY <1>1, <1>5, <2>1, <2>2
    <3> QED BY <2>2, <3>1
  <2>3. CASE ~(i + C < l)
    <3>1. l - i \in 1 .. m
      BY <1>1, <1>5, <2>1
    <3> QED BY <2>3, <3>1
  <2> QED BY <2>2, <2>3
<1>10. /\ Chunk(r).n = n /\ Chunk(r).from = r.next /\ Chunk(r).to = Start + (i + n) * E
       /\ Chunk(r).nnext = IF i + n < l THEN Start + (i + n) * E
                           ELSE IF i < j THEN r.last ELSE Start
  <2> DEFINE next == r.next + C * E
             limit == IF r.next < r.last THEN r.last ELSE End
  <2>1. next = Start + (i + C) * E /\ limit = Start + l * E
    BY <1>1, <1>3, <1>4, <1>6
  <2>2. next < limit <=> i + C < l
    <3>1. (i + C) * E < l * E <=> i + C < l
      BY <1>1, <1>5, TimesOrder
    <3>2. (i + C) * E \in Nat /\ l * E \in Nat
      BY <1>1, <1>5
    <3> QED BY <1>1, <1>5, <2>1, <3>1, <3>2
  <2>3. Chunk(r) = IF next < limit
                   THEN [from |-> r.next, to |-> next, n |-> C, nnext |-> next]
                   ELSE [from |-> r.next, to |-> limit, n |-> (limit - r.next) \div E,
                         nnext |-> IF r.next < r.last THEN r.last ELSE Start]
    BY Zenon DEF Chunk
  <2>4. ~(i + C < l) => (limit - r.next) \div E = l - i
    <3>1. limit - r.next = (l - i) * E
      BY <1>1, <1>3, <1>5, <2>1
    <3>2. l - i \in Nat
      BY <1>1
    <3> QED BY <1>1, <3>1, <3>2, ExactDivision
  <2> HIDE DEF next, limit
  <2>5. CASE i + C < l
    <3>1. Chunk(r) = [from |-> r.next, to |-> next, n |-> C, nnext |-> next]
      BY <2>2, <2>3, <2>5
    <3>2. n = C /\ i + n < l
      BY <1>9, <2>5
    <3> QED BY <2>1, <3>1, <3>2
  <2>6. CASE ~(i + C < l)
    <3>1. Chunk(r) = [from |-> r.next, to |-> limit, n |-> l - i,
                      nnext |-> IF r.next < r.last THEN r.last ELSE Start]
      BY <2>2, <2>3, <2>4, <2>6
    <3>2. n = l - i /\ ~(i + n < l) /\ i + n = l
      BY <1>1, <1>9, <2>6
    <3> QED BY <1>6, <2>1, <3>1, <3>2
  <2> QED BY <2>5, <2>6
<1>11. i + n \in Nat /\ i + n <= l /\ i + n <= R
  BY <1>1, <1>9
<1>12. Chunk(r).to = r.next + n * E /\ Chunk(r).to <= End
  <2>1. (i + n) * E <= R * E /\ (i + n) * E \in Nat /\ (i + n) * E = i * E + n * E
    BY <1>1, <1>5, <1>11, TimesOrder
  <2> QED BY <1>1, <1>3, <1>5, <1>10, <2>1
<1>13. PICK k \in 0 .. R - 1 : Chunk(r).nnext = Start + k * E
                               /\ k = IF i + n < l THEN i + n ELSE IF i < j THEN j ELSE 0
  BY <1>1, <1>4, <1>10, <1>11
<1>14. ASSUME NEW x \in 0 .. R - 1 PROVE Start + x * E \in Region
  <2>1. x * E < R * E /\ x * E \in Nat
    BY <1>1, TimesOrder
  <2> QED BY <1>1, <1>5, <2>1 DEF Region
<1>15. Chunk(r).nnext \in Region
  BY <1>13, <1>14
<1>16. n = m <=> Chunk(r).nnext = r.last
  <2>1. k = j <=> k * E = j * E
    BY <1>1, TimesOrder
  <2>2. Chunk(r).nnext = r.last <=> k = j
    BY <1>1, <1>4, <1>5, <1>13, <2>1
  <2>3. n = m <=> k = j
    BY <1>1, <1>9, <1>13
  <2> QED BY <2>2, <2>3
<1>17. ASSUME NEW s \in Readers, s.next = Chunk(r).nnext, s.last = r.last, Chunk(r).nnext # r.last
       PROVE  Left(s) = m - n /\ (r.next < r.last => s.next < s.last)
  <2>1. k # j /\ n # m
    BY <1>4, <1>13, <1>16, <1>17
  <2>2. s.next < s.last <=> k < j
    <3>1. k < j <=> k * E < j * E
      BY <1>1, TimesOrder
    <3>2. k * E \in Nat
      BY <1>1
    <3> QED BY <1>1, <1>4, <1>5, <1>13, <1>17, <3>1, <3>2
  <2>3. m - n \in Nat /\ m - n = (IF k < j THEN j - k ELSE R - k + j)
    BY <1>1, <1>9, <1>13, <2>1
  <2>4. s.last + (IF s.next < s.last THEN 0 ELSE RingUnits) - s.next = (m - n) * E
    <3>1. CASE k < j
      BY <1>1, <1>4, <1>5, <1>13, <1>17, <2>2, <2>3, <3>1
    <3>2. CASE ~(k < j)
      BY <1>1, <1>4, <1>5, <1>13, <1>17, <2>2, <2>3, <3>2
    <3> QED BY <3>1, <3>2
  <2>5. Left(s) = m - n
    BY <1>1, <2>3, <2>4, ExactDivision DEF Left
  <2>6. i < j => k < j
    BY <1>1, <1>9, <1>13, <2>1
  <2> QED BY <1>6, <2>2, <2>5, <2>6
<1> QED BY <1>7, <1>8, <1>10, <1>12, <1>15, <1>16, <1>17

\* What the firmware and an Init pulse do to WrAddr.
LEMMA RingWrAddr ==
    ASSUME ~WildWrAddr, TypeInv, \A f \in Faults : wrAddr[f] \in Region,
           Firmware \/ (arr \in Faults /\ Rearmed(arr)) \/ Restart \/ UNCHANGED wrAddr
    PROVE  \A f \in Faults : wrAddr'[f] \in Region
<1>1. wrAddr \in [Faults -> Addresses] /\ Start \in Region
  BY SizeTyped DEF TypeInv, TypeOK, FirmwareOK, Region
<1>2. ASSUME NEW f \in Faults, FwBurst(f) PROVE \A g \in Faults : wrAddr'[g] \in Region
  <2>1. PICK w : /\ wrAddr' = [wrAddr EXCEPT ![f] = w] /\ wrAddr[f] + BurstUnits <= End
                 /\ w = IF wrAddr[f] + BurstUnits = End THEN Start ELSE wrAddr[f] + BurstUnits
    BY <1>2, Zenon DEF FwBurst
  <2>2. w \in Region
    <3>1. wrAddr[f] \in Region /\ Region = Start .. End - 1
      BY DEF Region
    <3> QED BY <1>1, <2>1, <3>1, SizeTyped
  <2> QED BY <1>1, <2>1, <2>2
<1>3. ASSUME NEW f \in Faults, FwLatch(f) \/ FwErroneousDone(f) PROVE UNCHANGED wrAddr
  <2>1. CASE FwLatch(f)
    <3>1. wrAddr' = [wrAddr EXCEPT ![f] = wrAddr[f]]
      BY <2>1 DEF FwLatch
    <3> QED BY <1>1, <3>1
  <2> QED BY <1>3, <2>1 DEF FwErroneousDone
<1>4. CASE arr \in Faults /\ Rearmed(arr)
  BY <1>1, <1>4 DEF Rearmed
<1>5. CASE Restart
  BY <1>1, <1>5, RestartDoes
<1> QED BY <1>2, <1>3, <1>4, <1>5 DEF Firmware

\* Who rewinds WrAddr.
LEMMA WrAddrMoves ==
    ASSUME TypeInv, [Next]_vars
    PROVE  Firmware \/ (arr \in Faults /\ Rearmed(arr)) \/ Restart \/ UNCHANGED fw
<1>1. pc \notin {"idle", "scan", "crashed"} => arr \in Faults
  BY DEF TypeInv, TypeOK, ThreadOK
<1>2. CASE Thread
  BY <1>1, <1>2 DEF Thread, Pending, Sleep, ReadTs, ReadWr, ReadFull, Preset, OtherBuffer,
     ResetReader, Continue, Skip, NextAborted, NextChunk, LastRearm, LastStamp, LastAppend,
     AbortPv, AbortReset
<1>3. CASE IoError
  BY <1>1, <1>3 DEF IoError
<1> QED BY <1>2, <1>3 DEF Next, vars

\* Every address starts within the ring.
LEMMA RingInit == Init => InRing
<1> SUFFICES ASSUME Init PROVE InRing
  OBVIOUS
<1>1. Start \in Region
  BY SizeTyped DEF Region
<1> QED BY <1>1 DEF Init, InRing, NewReader

\* Without a wild WrAddr every address stays within it.
LEMMA RingNext ==
    WholeEntries /\ ~WildWrAddr /\ TypeInv /\ OneAtATime /\ InRing /\ [Next]_vars => InRing'
<1> SUFFICES ASSUME WholeEntries, ~WildWrAddr, TypeInv, OneAtATime, InRing, [Next]_vars PROVE InRing'
  OBVIOUS
<1>1. /\ reader \in [Faults -> Readers] /\ \A f \in Faults : wrAddr[f] \in Region
      /\ pc \notin {"idle", "scan", "crashed"} => arr \in Faults
  BY DEF TypeInv, TypeOK, ReaderOK, ThreadOK, Readers, InRing
<1>2. \A f \in Faults : wrAddr'[f] \in Region
  <2>1. UNCHANGED fw => UNCHANGED wrAddr
    BY DEF fw
  <2> QED BY <1>1, <2>1, WrAddrMoves, RingWrAddr
<1>3. 0 \notin Region /\ Start \in Region
  BY SizeTyped DEF Region
\* Steps that leave the readers alone.
<1> DEFINE Quiet == /\ UNCHANGED reader
                    /\ pc' \in {"readFull", "dispatch"} => cur'.wr \in Region
                    /\ pc' = "next" => reader[arr'].last # 0
<1>4. CASE Quiet
  BY <1>2, <1>4 DEF InRing
<1>5. CASE Firmware
  BY <1>4, <1>5, FirmwareStamps DEF InRing
<1>6. CASE UNCHANGED vars
  BY <1>4, <1>6 DEF vars, sw, local, InRing
<1>7. CASE Pending \/ Sleep \/ ReadTs \/ OtherBuffer
  BY <1>4, <1>7 DEF Pending, Sleep, ReadTs, OtherBuffer, Back, sw
<1>8. CASE ReadWr \/ ReadFull
  <2>1. cur \in [ts : Nat, wr : Nat, wrap : BOOLEAN] /\ arr \in Faults
    BY <1>8, AtBuffer DEF ReadWr, ReadFull
  <2> QED BY <1>1, <1>4, <1>8, <2>1 DEF ReadWr, ReadFull, sw, InRing
<1>9. CASE Continue
  <2>1. reader[arr].last # 0
    BY <1>1, <1>3, <1>9 DEF Continue, InRing, ReaderDone
  <2> QED BY <1>4, <1>9, <2>1 DEF Continue, sw, local
<1>10. CASE IoError \/ Skip \/ LastRearm \/ LastStamp \/ LastAppend \/ AbortReset
  BY <1>4, <1>10 DEF IoError, Crash, Skip, LastRearm, LastStamp, LastAppend, AbortReset, Back, sw
\* Steps that move one reader.
<1>11. CASE Preset
  <2>1. \A f \in Faults : reader'[f].next = reader[f].next /\ reader'[f].last = reader[f].last
    BY <1>11, PresetDoes
  <2> QED BY <1>2, <1>11, <2>1 DEF Preset, Back, InRing
<1>12. CASE ResetReader
  <2>1. /\ arr \in Faults /\ arr' = arr /\ cur.wr \in Region /\ pc' \in {"skip", "next"}
        /\ \A f \in Faults \ {arr} : reader'[f] = reader[f]
    BY <1>12, ResetDoes DEF InRing
  <2>2. \/ reader' = reader /\ pc' = "skip"
        \/ reader'[arr].last = cur.wr
           /\ reader'[arr].next \in {cur.wr, Start} \cup ({reader[arr].last} \ {0})
    BY <1>12, ResetDoes
  <2>3. CASE reader' = reader /\ pc' = "skip"
    BY <1>4, <2>3
  <2>4. CASE reader'[arr].last = cur.wr
             /\ reader'[arr].next \in {cur.wr, Start} \cup ({reader[arr].last} \ {0})
    <3>1. reader'[arr].next \in Region /\ reader'[arr].last \in Region
      BY <1>3, <2>1, <2>4 DEF InRing
    <3> QED BY <1>2, <1>3, <2>1, <3>1 DEF InRing
  <2> QED BY <2>2, <2>3, <2>4
<1>13. CASE NextAborted
  <2>1. /\ arr \in Faults /\ Back /\ \A f \in Faults \ {arr} : reader'[f] = reader[f]
        /\ reader'[arr].next = reader[arr].last /\ reader'[arr].last = reader[arr].last
    BY <1>13, NextAbortedDoes
  <2> QED BY <1>2, <2>1 DEF InRing, Back
<1>14. CASE NextChunk
  <2>1. arr \in Faults /\ pc = "next"
    BY <1>14, NextChunkDoes
  <2>2. CASE UNCHANGED reader /\ pc' = "abort"
    BY <1>4, <2>2
  <2>3. CASE /\ reader'[arr].next = Chunk(reader[arr]).nnext /\ reader'[arr].last = reader[arr].last
             /\ \A f \in Faults \ {arr} : reader'[f] = reader[f]
             /\ pc' = "rearm" \/ Back
    <3>1. reader[arr] \in Readers /\ Aligned(reader[arr].next) /\ Aligned(reader[arr].last)
          /\ reader[arr].next \in Region /\ reader[arr].last \in Region
      BY <1>1, <2>1 DEF InRing, OneAtATime
    <3>2. Chunk(reader[arr]).nnext \in Region
      BY <3>1, ChunkIs
    <3>3. reader'[arr].next \in Region /\ reader'[arr].last \in Region /\ pc' \in {"rearm", "scan"}
      BY <2>3, <3>1, <3>2 DEF Back
    <3> QED BY <1>2, <2>1, <2>3, <3>3 DEF InRing
  <2> QED BY <1>14, <2>2, <2>3, NextChunkDoes
<1>15. CASE AbortPv
  <2>1. /\ pc' = "reset"
        /\ \A f \in Faults : reader'[f].next = reader[f].next /\ reader'[f].last = reader[f].last
    BY <1>15, AbortPvDoes
  <2> QED BY <1>2, <2>1 DEF InRing
<1>16. CASE Restart
  BY <1>2, <1>16, RestartDoes DEF InRing
<1> QED BY <1>5, <1>6, <1>7, <1>8, <1>9, <1>10, <1>11, <1>12, <1>13, <1>14, <1>15, <1>16
        DEF Next, Thread

\* While the firmware keeps WrAddr in its region, every chunk a readout fetches lies
\* in the buffer's ring and fills exactly the entries allocated for it, for every
\* ring, chunk and burst size: across the wrap, after an abort, and whatever
\* the done bits and the accesses do.
THEOREM ChunksNeverStray == WholeEntries /\ ~WildWrAddr => (Spec => []ChunkInRegion)
<1> SUFFICES ASSUME WholeEntries, ~WildWrAddr PROVE Spec => []ChunkInRegion
  OBVIOUS
<1> DEFINE Inv == TypeInv /\ OneAtATime /\ InRing
<1>1. Init => Inv
  BY TypeInit, OneInit, RingInit
<1>2. Inv /\ [Next]_vars => Inv'
  BY TypeNext, OneNext, RingNext
<1>3. Inv => ChunkInRegion
  <2> SUFFICES ASSUME Inv, pc = "next" PROVE ChunkInRegion
    BY DEF ChunkInRegion
  <2>1. arr \in Faults /\ reader[arr] \in Readers /\ Aligned(reader[arr].next) /\ Aligned(reader[arr].last)
        /\ reader[arr].next \in Region /\ reader[arr].last \in Region
    BY AtBuffer DEF InRing, OneAtATime
  <2>2. PICK c : c = Chunk(reader[arr])
    OBVIOUS
  <2>3. c.from \in Region /\ c.to = c.from + c.n * EntryUnits /\ c.to <= End /\ c.n \in Nat
    BY <2>1, <2>2, ChunkIs
  <2>4. PICK x \in Nat : x = c.n * EntryUnits
    BY <2>3, SizeTyped
  <2>5. Start <= c.from /\ c.to - c.from = c.n * EntryUnits
    BY <2>3, <2>4, SizeTyped DEF Region
  <2> QED BY <2>2, <2>3, <2>5 DEF ChunkInRegion
<1> HIDE DEF Inv
<1> QED BY <1>1, <1>2, <1>3, PTL DEF Spec

-----------------------------------------------------------------------------
(* What the ring holds *)

\* The units written since the buffer was last re-armed, and the entries they make.
UnitsOfAcq(f) == written[f] - base[f]
Count(f) == UnitsOfAcq(f) \div EntryUnits

\* The ring holds the newest units, in the order in which they were written.
RingOK(f) ==
    /\ Aligned(UnitsOfAcq(f))
    /\ full[f] => UnitsOfAcq(f) >= RingUnits + (wrAddr[f] - Start)
    /\ ~full[f] => UnitsOfAcq(f) = wrAddr[f] - Start
    /\ \A x \in Region :
          /\ x < wrAddr[f] => dram[f][x] = UnitAt(f, base[f], UnitsOfAcq(f) - (wrAddr[f] - x))
          /\ full[f] /\ wrAddr[f] <= x =>
                dram[f][x] = UnitAt(f, base[f], UnitsOfAcq(f) - (wrAddr[f] - x) - RingUnits)
RingsOK == \A f \in Faults : RingOK(f)

\* A burst adds the newest units, in place of the oldest.
LEMMA RingsBurst ==
    ASSUME WholeEntries, TypeInv, InRing, RingsOK, NEW f \in Faults, FwBurst(f)
    PROVE  RingsOK'
<1> DEFINE w == wrAddr[f]  B == BurstUnits  k == UnitsOfAcq(f)
<1>1. /\ written \in [Faults -> Nat] /\ base \in [Faults -> Nat] /\ wrAddr \in [Faults -> Addresses]
      /\ full \in [Faults -> BOOLEAN] /\ dram \in [Faults -> [Region -> UnitVal]]
      /\ base[f] <= written[f]
  BY DEF TypeInv, TypeOK, FirmwareOK, DataOK, Started
<1>2. /\ wrAddr' = [wrAddr EXCEPT ![f] = IF w + B = End THEN Start ELSE w + B]
      /\ full' = [full EXCEPT ![f] = @ \/ w + B = End]
      /\ written' = [written EXCEPT ![f] = @ + B] /\ base' = base
      /\ w + B <= End
  BY Zenon DEF FwBurst
<1>3. dram' = [dram EXCEPT ![f] =
                  [x \in Region |-> IF x \in w .. w + B - 1
                                    THEN UnitAt(f, base[f], k + x - w) ELSE dram[f][x]]]
  BY <1>1, Zenon DEF FwBurst, UnitsOfAcq
<1>4. ASSUME NEW g \in Faults \ {f} PROVE RingOK(g)'
  <2>1. /\ wrAddr'[g] = wrAddr[g] /\ full'[g] = full[g] /\ written'[g] = written[g]
        /\ base'[g] = base[g] /\ dram'[g] = dram[g]
    BY <1>1, <1>2, <1>3, Zenon
  <2>2. RingOK(g)
    BY DEF RingsOK
  <2> QED BY <2>1, <2>2 DEF RingOK, UnitsOfAcq
<1>5. RingOK(f)'
  <2>1. w \in Region /\ w \in Nat /\ Start <= w /\ Region = Start .. End - 1
    BY <1>1, SizeTyped DEF InRing, Region
  <2>2. k \in Nat /\ UnitsOfAcq(f)' = k + B
    BY <1>1, <1>2, SizeTyped DEF UnitsOfAcq
  <2>3. /\ wrAddr'[f] = (IF w + B = End THEN Start ELSE w + B) /\ base'[f] = base[f]
        /\ full'[f] <=> (full[f] \/ w + B = End)
    <3>1. full'[f] <=> (full[f] \/ w + B = End)
      BY <1>1, <1>2, Zenon
    <3> QED BY <1>1, <1>2, <3>1
  <2>4. \A x \in Region : dram'[f][x] = IF x \in w .. w + B - 1
                                       THEN UnitAt(f, base[f], k + x - w) ELSE dram[f][x]
    BY <1>1, <1>3
  <2>5. /\ Aligned(k)
        /\ full[f] => k >= RingUnits + (w - Start)
        /\ ~full[f] => k = w - Start
        /\ \A x \in Region :
              /\ x < w => dram[f][x] = UnitAt(f, base[f], k - (w - x))
              /\ full[f] /\ w <= x => dram[f][x] = UnitAt(f, base[f], k - (w - x) - RingUnits)
    BY DEF RingsOK, RingOK
  <2> HIDE DEF w, k
  <2>6. Aligned(k + B)
    <3>1. Aligned(B)
      BY DEF WholeEntries, Aligned
    <3> QED BY <2>5, <3>1, AlignedSum
  <2>7. /\ full'[f] => k + B >= RingUnits + (wrAddr'[f] - Start)
        /\ ~full'[f] => k + B = wrAddr'[f] - Start
    <3>1. PICK p : p <=> full[f]
      OBVIOUS
    <3>2. PICK q : q <=> full'[f]
      OBVIOUS
    <3>3. /\ q <=> (p \/ w + B = End)
          /\ p => k >= RingUnits + (w - Start)
          /\ ~p => k = w - Start
      BY <2>3, <2>5, <3>1, <3>2, Zenon
    <3>4. /\ q => k + B >= RingUnits + (wrAddr'[f] - Start)
          /\ ~q => k + B = wrAddr'[f] - Start
      BY <1>2, <2>1, <2>2, <2>3, <3>3, SizeTyped
    <3> QED BY <3>2, <3>4, Zenon
  <2>8. ASSUME NEW x \in Region
        PROVE  /\ x < wrAddr'[f] => dram'[f][x] = UnitAt(f, base[f], (k + B) - (wrAddr'[f] - x))
               /\ full'[f] /\ wrAddr'[f] <= x =>
                     dram'[f][x] = UnitAt(f, base[f], (k + B) - (wrAddr'[f] - x) - RingUnits)
    <3>1. x \in Nat /\ Start <= x /\ x < End
      BY <2>1, SizeTyped
    <3>2. CASE w + B = End
      <4>1. wrAddr'[f] = Start /\ ~(x < Start)
        BY <2>3, <3>1, <3>2, SizeTyped
      <4>2. (k + B) - (Start - x) - RingUnits = k + x - w /\ k + x - w = k - (w - x)
        BY <2>1, <2>2, <3>1, <3>2, SizeTyped
      <4>3. x \in w .. w + B - 1 \/ (x < w /\ ~(x \in w .. w + B - 1))
        BY <2>1, <3>1, <3>2, SizeTyped
      <4>4. dram'[f][x] = UnitAt(f, base[f], k + x - w)
        BY <2>4, <2>5, <4>2, <4>3
      <4> QED BY <4>1, <4>2, <4>4
    <3>3. CASE w + B # End
      <4>1. wrAddr'[f] = w + B /\ (full'[f] <=> full[f])
        BY <2>3, <3>3
      <4>2. k + B - (w + B - x) = k + x - w /\ k - (w - x) = k + x - w
        BY <2>1, <2>2, <3>1, SizeTyped
      <4>3. x < w + B => dram'[f][x] = UnitAt(f, base[f], k + x - w)
        <5>1. CASE x < w
          <6>1. ~(x \in w .. w + B - 1)
            BY <2>1, <3>1, <5>1
          <6> QED BY <2>4, <2>5, <4>2, <5>1, <6>1
        <5>2. CASE ~(x < w) /\ x < w + B
          <6>1. x \in w .. w + B - 1
            BY <2>1, <3>1, <5>2, SizeTyped
          <6> QED BY <2>4, <6>1
        <5> QED BY <5>1, <5>2
      <4>4. full[f] /\ w + B <= x => dram'[f][x] = UnitAt(f, base[f], k + x - w - RingUnits)
        <5> SUFFICES ASSUME full[f], w + B <= x
                     PROVE  dram'[f][x] = UnitAt(f, base[f], k + x - w - RingUnits)
          OBVIOUS
        <5>1. w <= x /\ ~(x \in w .. w + B - 1)
          BY <2>1, <3>1, SizeTyped
        <5>2. dram[f][x] = UnitAt(f, base[f], k - (w - x) - RingUnits)
          BY <2>5, <5>1, Zenon
        <5>3. dram'[f][x] = dram[f][x]
          BY <2>4, <5>1
        <5>4. k - (w - x) - RingUnits = k + x - w - RingUnits
          BY <2>1, <2>2, <3>1, SizeTyped
        <5> QED BY <5>2, <5>3, <5>4, Zenon
      <4>5. wrAddr'[f] = w + B
        BY <4>1
      <4>6. ASSUME x < wrAddr'[f]
            PROVE  dram'[f][x] = UnitAt(f, base[f], (k + B) - (wrAddr'[f] - x))
        <5>1. dram'[f][x] = UnitAt(f, base[f], k + x - w)
          BY <4>3, <4>5, <4>6
        <5>2. (k + B) - (wrAddr'[f] - x) = k + x - w
          BY <2>1, <2>2, <3>1, <4>5, SizeTyped
        <5> QED BY <5>1, <5>2
      <4>7. ASSUME full'[f], wrAddr'[f] <= x
            PROVE  dram'[f][x] = UnitAt(f, base[f], (k + B) - (wrAddr'[f] - x) - RingUnits)
        <5>1. full[f] /\ w + B <= x
          BY <4>1, <4>5, <4>7
        <5>2. dram'[f][x] = UnitAt(f, base[f], k + x - w - RingUnits)
          BY <4>4, <5>1
        <5>3. (k + B) - (wrAddr'[f] - x) - RingUnits = k + x - w - RingUnits
          BY <2>1, <2>2, <3>1, <4>5, SizeTyped
        <5> QED BY <5>2, <5>3
      <4> QED BY <4>6, <4>7
    <3> QED BY <3>2, <3>3, Zenon
  <2>9. PICK k1 : k1 = k + B /\ k1 = UnitsOfAcq(f)'
    BY <2>2
  <2>10. /\ Aligned(k1)
         /\ full'[f] => k1 >= RingUnits + (wrAddr'[f] - Start)
         /\ ~full'[f] => k1 = wrAddr'[f] - Start
    BY <2>6, <2>7, <2>9
  <2>11. \A x \in Region :
            /\ x < wrAddr'[f] => dram'[f][x] = UnitAt(f, base'[f], k1 - (wrAddr'[f] - x))
            /\ full'[f] /\ wrAddr'[f] <= x =>
                  dram'[f][x] = UnitAt(f, base'[f], k1 - (wrAddr'[f] - x) - RingUnits)
    BY <2>3, <2>8, <2>9
  <2> QED BY <2>9, <2>10, <2>11 DEF RingOK
<1> QED BY <1>4, <1>5 DEF RingsOK

\* An Init pulse empties the ring.
LEMMA RingsRearmed ==
    ASSUME TypeInv, RingsOK, NEW f \in Faults, Rearmed(f)
    PROVE  RingsOK'
<1>1. /\ written \in [Faults -> Nat] /\ base \in [Faults -> Nat] /\ wrAddr \in [Faults -> Addresses]
      /\ full \in [Faults -> BOOLEAN]
  BY DEF TypeInv, TypeOK, FirmwareOK
<1>2. ASSUME NEW g \in Faults \ {f} PROVE RingOK(g)'
  <2>1. /\ wrAddr'[g] = wrAddr[g] /\ full'[g] = full[g] /\ written'[g] = written[g]
        /\ base'[g] = base[g] /\ dram'[g] = dram[g]
    BY <1>1 DEF Rearmed
  <2>2. RingOK(g)
    BY DEF RingsOK
  <2> QED BY <2>1, <2>2 DEF RingOK, UnitsOfAcq
<1>3. RingOK(f)'
  <2>1. wrAddr'[f] = Start /\ ~full'[f]
    BY <1>1, Zenon DEF Rearmed
  <2>2. UnitsOfAcq(f)' = 0
    BY <1>1 DEF Rearmed, UnitsOfAcq
  <2>3. \A x \in Region : ~(x < Start)
    BY SizeTyped DEF Region
  <2>4. Start - Start = 0
    BY SizeTyped
  <2> QED BY <2>1, <2>2, <2>3, <2>4, AlignedAre DEF RingOK
<1> QED BY <1>2, <1>3 DEF RingsOK

\* So does an initialization, all of them.
LEMMA RingsRestarted ==
    ASSUME TypeInv, RingsOK, Restart
    PROVE  RingsOK'
<1> SUFFICES ASSUME NEW f \in Faults PROVE RingOK(f)'
  BY DEF RingsOK
<1>1. wrAddr'[f] = Start /\ ~full'[f] /\ base'[f] = written[f] /\ written' = written
  BY RestartDoes
<1>2. UnitsOfAcq(f)' = 0
  BY <1>1 DEF UnitsOfAcq, TypeInv, TypeOK, FirmwareOK
<1>3. (\A x \in Region : ~(x < Start)) /\ Start - Start = 0
  BY SizeTyped DEF Region
<1> QED BY <1>1, <1>2, <1>3, AlignedAre DEF RingOK

\* The ring is as the firmware left it.
LEMMA RingsNext ==
    WholeEntries /\ ~WildWrAddr /\ TypeInv /\ InRing /\ RingsOK /\ [Next]_vars => RingsOK'
<1> SUFFICES ASSUME WholeEntries, ~WildWrAddr, TypeInv, InRing, RingsOK, [Next]_vars PROVE RingsOK'
  OBVIOUS
<1>1. wrAddr \in [Faults -> Addresses]
  BY DEF TypeInv, TypeOK, FirmwareOK
<1>2. CASE UNCHANGED <<wrAddr, full, dram, written, base>>
  BY <1>2 DEF RingsOK, RingOK, UnitsOfAcq
<1>3. ASSUME NEW f \in Faults, FwLatch(f) \/ FwErroneousDone(f)
      PROVE  UNCHANGED <<wrAddr, full, dram, written, base>>
  <2>1. CASE FwLatch(f)
    <3>1. wrAddr' = [wrAddr EXCEPT ![f] = wrAddr[f]]
      BY <2>1 DEF FwLatch
    <3> QED BY <1>1, <2>1, <3>1 DEF FwLatch
  <2> QED BY <1>3, <2>1 DEF FwErroneousDone
<1>4. CASE arr \in Faults /\ Rearmed(arr)
  <2>1. PICK f \in Faults : Rearmed(f)
    BY <1>4
  <2> QED BY <2>1, RingsRearmed
<1> QED BY <1>2, <1>3, <1>4, WrAddrMoves, RingsBurst, RingsRestarted DEF Firmware, fw

\* An empty ring holds nothing at the start.
LEMMA RingsInit == Init => RingsOK
<1> SUFFICES ASSUME Init, NEW f \in Faults PROVE RingOK(f)
  BY DEF RingsOK
<1>1. wrAddr[f] = Start /\ ~full[f] /\ UnitsOfAcq(f) = 0
  BY DEF Init, UnitsOfAcq
<1>2. (\A x \in Region : ~(x < Start)) /\ Start - Start = 0
  BY SizeTyped DEF Region
<1> QED BY <1>1, <1>2, AlignedAre DEF RingOK

-----------------------------------------------------------------------------
(* A latched buffer stands still *)

\* What the firmware knows of buffer f does not change.
Still(f) ==
    /\ tstamp'[f] = tstamp[f] /\ wrAddr'[f] = wrAddr[f] /\ full'[f] = full[f]
    /\ done'[f] = done[f] /\ latched'[f] = latched[f] /\ dram'[f] = dram[f]
    /\ written'[f] = written[f] /\ base'[f] = base[f]

\* A buffer shows done if it is latched, and then it holds data.
DoneOK(f) == (done[f] <=> latched[f]) /\ (latched[f] => base[f] < written[f])

\* So what update() read of a buffer stays true while it decides what to do, no
\* buffer is visited that is not latched, and none is given up that was not written.
LatchOK ==
    /\ \A f \in Faults : DoneOK(f)
    /\ \A f \in todo : latched[f] /\ f # arr
    /\ pc \in {"readWr", "readFull", "dispatch", "skip", "next", "rearm"} =>
          latched[arr] /\ cur.ts = tstamp[arr]
    /\ pc \in {"readFull", "dispatch"} => cur.wr = wrAddr[arr]
    /\ pc = "dispatch" => (cur.wrap <=> full[arr])
    /\ pc \in {"stamp", "append"} => base[arr] > 0
    /\ pc \in {"abort", "reset"} => written[arr] > 0

\* The firmware writes only to buffers that are not latched.
LEMMA FirmwareLatch ==
    ASSUME ~ErroneousDone, ~WildWrAddr, TypeInv, \A f \in Faults : DoneOK(f), Firmware
    PROVE  /\ UNCHANGED <<reader, queue, pv, pvTs, pc, todo, arr, cur, record>>
           /\ \A f \in Faults : /\ latched[f] => Still(f)
                                /\ base'[f] = base[f] /\ DoneOK(f)'
<1>1. PICK f \in Faults : FwBurst(f) \/ FwLatch(f)
  BY DEF Firmware, FwErroneousDone
<1>2. /\ tstamp \in [Faults -> Nat] /\ wrAddr \in [Faults -> Addresses]
      /\ full \in [Faults -> BOOLEAN] /\ done \in [Faults -> BOOLEAN]
      /\ latched \in [Faults -> BOOLEAN] /\ dram \in [Faults -> [Region -> UnitVal]]
      /\ written \in [Faults -> Nat] /\ base \in [Faults -> Nat]
  BY DEF TypeInv, TypeOK, FirmwareOK, DataOK
<1>3. UNCHANGED <<reader, queue, pv, pvTs, pc, todo, arr, cur, record>>
  BY FirmwareStamps
<1>4. CASE FwBurst(f)
  <2>1. PICK d, w, u : /\ dram' = [dram EXCEPT ![f] = d] /\ wrAddr' = [wrAddr EXCEPT ![f] = w]
                       /\ full' = [full EXCEPT ![f] = u]
    BY <1>2, <1>4, Zenon DEF FwBurst
  <2>2. /\ ~latched[f] /\ written' = [written EXCEPT ![f] = @ + BurstUnits]
        /\ UNCHANGED <<tstamp, done, latched, base>>
    BY <1>4 DEF FwBurst
  <2>3. ASSUME NEW g \in Faults, latched[g] PROVE Still(g)
    BY <1>2, <2>1, <2>2, <2>3 DEF Still
  <2>4. ASSUME NEW g \in Faults PROVE base'[g] = base[g] /\ DoneOK(g)'
    BY <1>2, <2>2, SizeTyped DEF DoneOK
  <2> QED BY <1>3, <2>3, <2>4
<1>5. CASE FwLatch(f)
  <2>1. /\ ~latched[f] /\ written[f] > base[f] /\ wrAddr' = [wrAddr EXCEPT ![f] = wrAddr[f]]
        /\ latched' = [latched EXCEPT ![f] = TRUE] /\ done' = [done EXCEPT ![f] = TRUE]
        /\ tstamp' = [tstamp EXCEPT ![f] = @ + 4]
        /\ UNCHANGED <<full, dram, written, base>>
    BY <1>5 DEF FwLatch
  <2>2. ASSUME NEW g \in Faults, latched[g] PROVE Still(g)
    <3>1. g # f
      BY <2>1, <2>2
    <3> QED BY <1>2, <2>1, <3>1 DEF Still
  <2>3. ASSUME NEW g \in Faults PROVE base'[g] = base[g] /\ DoneOK(g)'
    BY <1>2, <2>1 DEF DoneOK
  <2> QED BY <1>3, <2>2, <2>3
<1> QED BY <1>1, <1>4, <1>5

\* An Init pulse begins another acquisition in one buffer.
LEMMA RearmedDoes ==
    ASSUME TypeInv, NEW a \in Faults, Rearmed(a)
    PROVE  /\ ~done'[a] /\ ~latched'[a] /\ base'[a] = written[a] /\ written' = written
           /\ tstamp' = tstamp
           /\ \A f \in Faults \ {a} : Still(f)
BY DEF Rearmed, Still, TypeInv, TypeOK, FirmwareOK

\* Nothing moves.
LEMMA AllStill ==
    ASSUME UNCHANGED fw
    PROVE  \A f \in Faults : Still(f)
BY DEF fw, Still

\* Nothing is latched or done at the start.
LEMMA LatchInit == Init => LatchOK
BY DEF Init, LatchOK, DoneOK

\* No step shows a buffer done that is not latched, or moves a latched one.
LEMMA LatchNext ==
    ~ErroneousDone /\ ~WildWrAddr /\ TypeInv /\ LatchOK /\ [Next]_vars => LatchOK'
<1> SUFFICES ASSUME ~ErroneousDone, ~WildWrAddr, TypeInv, LatchOK, [Next]_vars PROVE LatchOK'
  OBVIOUS
<1>1. /\ pc \notin {"idle", "scan", "crashed"} => arr \in Faults
      /\ pc \in {"idle", "scan", "crashed"} => arr \notin Faults
      /\ todo \subseteq Faults /\ cur \in [ts : Nat, wr : Nat, wrap : BOOLEAN]
      /\ tstamp \in [Faults -> Nat] /\ wrAddr \in [Faults -> Addresses]
      /\ full \in [Faults -> BOOLEAN] /\ written \in [Faults -> Nat] /\ base \in [Faults -> Nat]
      /\ \A f \in Faults : base[f] <= written[f]
  BY SizeTyped DEF TypeInv, TypeOK, ThreadOK, FirmwareOK, Started
<1>2. CASE Firmware
  <2>1. /\ UNCHANGED <<queue, pc, todo, arr, cur>>
        /\ \A f \in Faults : (latched[f] => Still(f)) /\ base'[f] = base[f] /\ DoneOK(f)'
    BY <1>2, FirmwareLatch DEF LatchOK
  <2>2. \A f \in todo : latched'[f] /\ f # arr
    BY <1>1, <2>1 DEF LatchOK, Still
  <2>3. pc \in {"readWr", "readFull", "dispatch", "skip", "next", "rearm"} =>
           arr \in Faults /\ latched[arr] /\ Still(arr)
    BY <1>1, <2>1 DEF LatchOK
  <2>4. pc \in {"abort", "reset"} => written'[arr] > 0
    <3>1. CASE pc \in {"abort", "reset"}
      <4>1. \A f \in Faults : written'[f] >= written[f]
        <5>1. PICK f \in Faults : FwBurst(f) \/ FwLatch(f) \/ FwErroneousDone(f)
          BY <1>2 DEF Firmware
        <5>2. written' = [written EXCEPT ![f] = @ + BurstUnits] \/ written' = written
          BY <5>1 DEF FwBurst, FwLatch, FwErroneousDone
        <5> QED BY <1>1, <5>2, SizeTyped
      <4>2. written'[arr] \in Nat
        BY <1>1, <3>1, TypeNext DEF TypeInv, TypeOK, FirmwareOK
      <4> QED BY <1>1, <3>1, <4>1, <4>2 DEF LatchOK
    <3> QED BY <3>1
  <2>5. pc \in {"stamp", "append"} => base'[arr] > 0
    BY <1>1, <2>1 DEF LatchOK
  <2> QED BY <2>1, <2>2, <2>3, <2>4, <2>5 DEF LatchOK, Still
\* Steps that leave the firmware alone.
<1>3. ASSUME UNCHANGED fw PROVE (\A f \in Faults : DoneOK(f)') /\ \A f \in Faults : Still(f)
  BY <1>3, AllStill DEF LatchOK, DoneOK, Still
<1>4. CASE UNCHANGED vars
  BY <1>4 DEF vars, fw, sw, local, LatchOK, DoneOK
<1>5. CASE Pending
  <2>1. UNCHANGED fw /\ todo' = {f \in Faults : done[f]} /\ UNCHANGED <<arr, cur>> /\ arr \notin Faults
        /\ pc' = "scan"
    BY <1>1, <1>5 DEF Pending
  <2> QED BY <1>3, <2>1 DEF LatchOK, DoneOK, Still
<1>6. CASE Sleep
  BY <1>3, <1>6 DEF Sleep, local, LatchOK, Still
<1>7. CASE ReadTs
  <2>1. PICK f \in todo : /\ arr' = f /\ todo' = todo \ {f} /\ cur' = [NoCur EXCEPT !.ts = tstamp[f]]
    BY <1>7 DEF ReadTs
  <2>2. cur'.ts = tstamp[f] /\ latched[f] /\ f \in Faults /\ pc' = "readWr" /\ UNCHANGED fw
    BY <1>1, <1>7, <2>1 DEF NoCur, ReadTs, LatchOK
  <2> QED BY <1>1, <1>3, <2>1, <2>2 DEF LatchOK, Still
<1>8. CASE ReadWr
  <2>1. /\ UNCHANGED <<fw, todo, arr>> /\ cur'.ts = cur.ts /\ cur'.wr = wrAddr[arr]
        /\ pc = "readWr" /\ pc' = "readFull" /\ arr \in Faults
    BY <1>1, <1>8 DEF ReadWr
  <2> QED BY <1>1, <1>3, <2>1 DEF LatchOK, Still
<1>9. CASE ReadFull
  <2>1. /\ UNCHANGED <<fw, todo, arr>> /\ cur' = [cur EXCEPT !.wrap = full[arr]]
        /\ pc = "readFull" /\ pc' = "dispatch" /\ arr \in Faults
    BY <1>1, <1>9 DEF ReadFull
  <2>2. cur'.ts = cur.ts /\ cur'.wr = cur.wr
    BY <1>1, <2>1
  <2>3. cur'.wrap <=> full[arr]
    BY <1>1, <2>1
  <2> QED BY <1>1, <1>3, <2>1, <2>2, <2>3 DEF LatchOK, Still
\* Leaving update() to the next array.
<1>10. ASSUME UNCHANGED fw, todo' = todo, Back PROVE LatchOK'
  <2>1. \A f \in todo : latched'[f] /\ f # arr'
    BY <1>1, <1>3, <1>10, SizeTyped DEF LatchOK, Still, Back
  <2> QED BY <1>3, <1>10, <2>1 DEF LatchOK, Back
<1>11. CASE Preset \/ OtherBuffer \/ NextAborted
  BY <1>10, <1>11 DEF Preset, OtherBuffer, NextAborted
<1>12. ASSUME arr \in Faults, Rearmed(arr), todo' = todo, Back PROVE LatchOK'
  <2>1. /\ ~done'[arr] /\ ~latched'[arr] /\ \A f \in Faults \ {arr} : Still(f)
    BY <1>12, RearmedDoes
  <2>2. \A f \in Faults : DoneOK(f)'
    BY <2>1 DEF LatchOK, DoneOK, Still
  <2>3. \A f \in todo : latched'[f] /\ f # arr'
    BY <1>1, <1>12, <2>1, SizeTyped DEF LatchOK, Still, Back
  <2> QED BY <1>12, <2>2, <2>3 DEF LatchOK, Back
<1>13. CASE Skip \/ AbortReset
  BY <1>1, <1>12, <1>13 DEF Skip, AbortReset
\* On in update().
<1>14. CASE ResetReader \/ Continue
  <2>1. UNCHANGED <<fw, todo, arr, cur>> /\ pc' \in {"skip", "next"} /\ pc = "dispatch" /\ arr \in Faults
    BY <1>1, <1>14, ResetDoes DEF Continue, local
  <2> QED BY <1>1, <1>3, <2>1 DEF LatchOK, Still
<1>15. CASE NextChunk
  <2>1. /\ UNCHANGED <<fw, todo>> /\ pc = "next" /\ arr \in Faults
        /\ Back \/ (pc' \in {"abort", "rearm"} /\ UNCHANGED <<arr, cur>>)
    BY <1>15, NextChunkDoes
  <2>2. latched[arr] /\ base[arr] < written[arr] /\ written[arr] > 0
    BY <1>1, <2>1 DEF LatchOK, DoneOK
  <2>3. CASE pc' \in {"abort", "rearm"} /\ UNCHANGED <<arr, cur>>
    BY <1>1, <1>3, <2>1, <2>2, <2>3 DEF LatchOK, Still
  <2> QED BY <1>10, <2>1, <2>3
<1>16. CASE LastRearm
  <2>1. /\ Rearmed(arr) /\ pc = "rearm" /\ pc' = "stamp" /\ UNCHANGED <<todo, arr, cur>> /\ arr \in Faults
    BY <1>1, <1>16 DEF LastRearm, local
  <2>2. /\ ~done'[arr] /\ ~latched'[arr] /\ base'[arr] = written[arr]
        /\ \A f \in Faults \ {arr} : Still(f)
    BY <2>1, RearmedDoes
  <2>3. base'[arr] > 0
    BY <1>1, <2>1, <2>2 DEF LatchOK, DoneOK
  <2>4. \A f \in Faults : DoneOK(f)'
    BY <2>2 DEF LatchOK, DoneOK, Still
  <2>5. \A f \in todo : latched'[f] /\ f # arr
    BY <1>1, <2>2 DEF LatchOK, Still
  <2> QED BY <2>1, <2>3, <2>4, <2>5 DEF LatchOK
<1>17. CASE LastStamp \/ AbortPv
  <2>1. ASSUME UNCHANGED fw, todo' = todo, arr' = arr, arr \in Faults
        PROVE  /\ (\A f \in Faults : DoneOK(f)') /\ (\A f \in todo' : latched'[f] /\ f # arr')
               /\ base'[arr'] = base[arr] /\ written'[arr'] = written[arr]
    BY <1>1, <1>3, <2>1 DEF LatchOK, Still
  <2>2. CASE LastStamp
    <3>1. UNCHANGED fw /\ todo' = todo /\ arr' = arr /\ arr \in Faults /\ pc = "stamp" /\ pc' = "append"
      BY <1>1, <2>2 DEF LastStamp, local
    <3>2. base[arr] > 0
      BY <3>1 DEF LatchOK
    <3> QED BY <2>1, <3>1, <3>2 DEF LatchOK
  <2>3. CASE AbortPv
    <3>1. UNCHANGED fw /\ todo' = todo /\ arr' = arr /\ arr \in Faults /\ pc = "abort" /\ pc' = "reset"
      BY <1>1, <2>3 DEF AbortPv, local
    <3>2. written[arr] > 0
      BY <3>1 DEF LatchOK
    <3> QED BY <2>1, <3>1, <3>2 DEF LatchOK
  <2> QED BY <1>17, <2>2, <2>3
<1>18. CASE LastAppend
  BY <1>10, <1>18 DEF LastAppend
<1>19. CASE IoError
  <2>1. (pc \in {"skip", "rearm", "reset"} /\ Rearmed(arr)) \/ UNCHANGED fw
    BY <1>19 DEF IoError
  <2>2. \A f \in Faults \ {arr} : Still(f)
    BY <1>1, <1>3, <2>1, RearmedDoes
  <2>3. \A f \in Faults : DoneOK(f)'
    <3>1. CASE UNCHANGED fw
      BY <1>3, <3>1
    <3>2. CASE pc \in {"skip", "rearm", "reset"} /\ Rearmed(arr)
      <4>1. arr \in Faults /\ ~done'[arr] /\ ~latched'[arr]
        BY <1>1, <3>2, RearmedDoes
      <4> QED BY <2>2, <4>1 DEF LatchOK, DoneOK, Still
    <3> QED BY <2>1, <3>1, <3>2
  <2>4. \A f \in todo : latched'[f] /\ f # arr
    BY <1>1, <2>2 DEF LatchOK, Still
  <2>5. written' = written
    <3>1. CASE UNCHANGED fw
      BY <3>1 DEF fw
    <3>2. CASE pc \in {"skip", "rearm", "reset"} /\ Rearmed(arr)
      BY <3>2 DEF Rearmed
    <3> QED BY <2>1, <3>1, <3>2
  <2>6. CASE pc \in {"skip", "next", "rearm", "append"} /\ pc' = "abort" /\ UNCHANGED <<todo, arr, cur>>
    <3>1. arr \in Faults /\ written[arr] > 0
      BY <1>1, <2>6 DEF LatchOK, DoneOK
    <3> QED BY <2>3, <2>4, <2>5, <2>6, <3>1 DEF LatchOK
  <2>7. CASE Crash
    <3>1. \A f \in todo : f # NoArray
      BY <1>1, SizeTyped
    <3> QED BY <2>3, <2>4, <2>7, <3>1 DEF LatchOK, Crash
  <2> QED BY <1>19, <2>6, <2>7 DEF IoError
<1>20. CASE Restart
  BY <1>20, RestartDoes DEF LatchOK, DoneOK
<1> QED BY <1>2, <1>4, <1>5, <1>6, <1>7, <1>8, <1>9, <1>11, <1>13, <1>14, <1>15, <1>16, <1>17, <1>18,
           <1>19, <1>20 DEF Next, Thread

-----------------------------------------------------------------------------
(* What a chunk holds *)

\* The first entry of a readout, counted in the acquisition.
Oldest(f) == IF full[f] THEN Count(f) - RingEntries ELSE 0

\* The reader r goes on to the address at which the writer of f stands, once round the
\* ring at most.
ReadsOn(f, r) == r.last = wrAddr[f] /\ (full[f] \/ r.next < r.last)

\* The ring holds whole entries, and all that are left to read.
LEMMA LeftInRing ==
    ASSUME TypeInv, InRing, RingsOK, NEW f \in Faults, NEW r \in Readers,
           Aligned(r.next), Aligned(r.last), r.next \in Region, r.last \in Region, ReadsOn(f, r)
    PROVE  /\ Count(f) \in Nat /\ UnitsOfAcq(f) = Count(f) * EntryUnits /\ Left(r) \in 1 .. RingEntries
           /\ Oldest(f) \in Nat /\ Oldest(f) <= Count(f) - Left(r) /\ Count(f) - Oldest(f) <= RingEntries
           /\ full[f] => Count(f) - Oldest(f) = RingEntries
<1> PICK m : m = Left(r)
  OBVIOUS
<1> PICK U : U = UnitsOfAcq(f)
  OBVIOUS
<1> PICK w : w = wrAddr[f]
  OBVIOUS
<1>1. /\ m \in 1 .. RingEntries
      /\ r.next + m * EntryUnits = r.last + (IF r.next < r.last THEN 0 ELSE RingUnits)
  BY ChunkIs
<1>2. /\ w \in Region /\ full[f] \in BOOLEAN
      /\ Aligned(U) /\ (full[f] => U >= RingUnits + (w - Start)) /\ (~full[f] => U = w - Start)
  BY DEF InRing, TypeInv, TypeOK, FirmwareOK, RingsOK, RingOK
<1>3. PICK k \in Nat : U = k * EntryUnits
  BY <1>2 DEF Aligned
<1>4. Count(f) = k
  BY <1>3, SizeTyped, ExactDivision DEF Count
<1>5. w \in Nat /\ Start <= w /\ w < Start + RingUnits /\ RingUnits \in Nat /\ Start \in Nat
  BY <1>2, SizeTyped DEF Region
<1>6. /\ m * EntryUnits \in Nat /\ RingEntries * EntryUnits = RingUnits /\ m \in Nat
      /\ r.next \in Nat /\ r.last \in Nat /\ r.last = w /\ Start <= r.next
  BY <1>1, SizeTyped DEF Readers, ReadsOn, Region
<1>7. CASE full[f]
  <2>1. RingEntries * EntryUnits <= k * EntryUnits
    BY <1>2, <1>3, <1>5, <1>6, <1>7
  <2>2. RingEntries <= k
    BY <2>1, SizeTyped, TimesOrder
  <2>3. Oldest(f) = k - RingEntries
    BY <1>4, <1>7 DEF Oldest
  <2> QED BY <1>1, <1>3, <1>4, <2>2, <2>3, SizeTyped
<1>8. CASE ~full[f]
  <2>1. r.next < r.last /\ U = w - Start
    BY <1>2, <1>8 DEF ReadsOn
  <2>2. m * EntryUnits = r.last - r.next
    BY <1>1, <1>6, <2>1
  <2>3. m * EntryUnits <= k * EntryUnits /\ k * EntryUnits < RingEntries * EntryUnits
    BY <1>3, <1>5, <1>6, <2>1, <2>2
  <2>4. m <= k /\ k < RingEntries
    BY <1>6, <2>3, SizeTyped, TimesOrder
  <2>5. Oldest(f) = 0
    BY <1>8 DEF Oldest
  <2> QED BY <1>1, <1>3, <1>4, <1>8, <2>4, <2>5, SizeTyped
<1> QED BY <1>2, <1>7, <1>8

\* A chunk is assembled from the next entries of the acquisition.
LEMMA ChunkContent ==
    ASSUME TypeInv, InRing, RingsOK, NEW f \in Faults, NEW r \in Readers,
           Aligned(r.next), Aligned(r.last), r.next \in Region, r.last \in Region, ReadsOn(f, r)
    PROVE  ChunkEntriesOf(f, Chunk(r)) =
              Span(f, base[f], Count(f) - Left(r), Count(f) - Left(r) + Chunk(r).n - 1)
<1> PICK c : c = Chunk(r)
  OBVIOUS
<1> PICK m : m = Left(r)
  OBVIOUS
<1> PICK k : k = Count(f)
  OBVIOUS
<1> PICK w : w = wrAddr[f]
  OBVIOUS
<1>1. /\ m \in 1 .. RingEntries /\ c.n \in 1 .. m /\ c.from = r.next
      /\ c.to = r.next + c.n * EntryUnits /\ c.to <= End
      /\ r.next + m * EntryUnits = r.last + (IF r.next < r.last THEN 0 ELSE RingUnits)
  BY ChunkIs
<1>2. /\ k \in Nat /\ UnitsOfAcq(f) = k * EntryUnits /\ k - m \in Nat
  BY LeftInRing, SizeTyped
<1>3. PICK q \in Nat : q = k - m
  BY <1>2
<1>4. PICK n \in Nat : n = c.n
  BY <1>1
<1>5. PICK x \in Nat : x = m * EntryUnits
  BY <1>1, SizeTyped
<1>6. PICK U \in Nat : U = k * EntryUnits
  BY <1>2, SizeTyped
<1>7. q * EntryUnits = U - x
  BY <1>1, <1>2, <1>3, <1>5, <1>6, SizeTyped
<1>8. PICK y \in Nat : y = n * EntryUnits
  BY SizeTyped
<1>9. y <= x
  BY <1>1, <1>4, <1>5, <1>8, TimesMonotone, SizeTyped
<1>10. /\ w \in Region /\ r.last = w /\ (full[f] \/ r.next < r.last)
       /\ \A z \in Region :
             /\ z < w => dram[f][z] = UnitAt(f, base[f], U - (w - z))
             /\ full[f] /\ w <= z => dram[f][z] = UnitAt(f, base[f], U - (w - z) - RingUnits)
  BY <1>2, <1>6 DEF InRing, RingsOK, RingOK, ReadsOn
<1> DEFINE units == [i \in 0 .. n * EntryUnits - 1 |->
                        IF c.from + i \in Region THEN dram[f][c.from + i] ELSE Blank]
<1>11. ASSUME NEW i \in 0 .. y - 1 PROVE units[i] = UnitAt(f, base[f], q * EntryUnits + i)
  <2>1. PICK z : z = c.from + i
    OBVIOUS
  <2>2. z = r.next + i /\ i < y /\ i \in Nat /\ r.next + y <= End /\ r.next \in Nat /\ Start <= r.next
        /\ r.next + x = w + (IF r.next < w THEN 0 ELSE RingUnits) /\ w \in Nat
        /\ Start \in Nat /\ End \in Nat /\ RingUnits \in Nat
    <3>1. r.next \in Nat /\ r.last \in Nat /\ Start <= r.next
      BY SizeTyped DEF Readers, Region
    <3> QED BY <1>1, <1>4, <1>5, <1>8, <1>10, <2>1, <3>1, SizeTyped
  <2>3. z \in Region
    BY <2>2 DEF Region
  <2>4. units[i] = dram[f][z]
    BY <1>8, <2>1, <2>3
  <2>5. CASE r.next < w
    <3>1. z < w /\ U - (w - z) = U - x + i
      BY <1>9, <2>2, <2>5
    <3> QED BY <1>7, <1>10, <2>3, <2>4, <3>1
  <2>6. CASE ~(r.next < w)
    <3>1. full[f] /\ w <= z /\ U - (w - z) - RingUnits = U - x + i
      BY <1>10, <2>2, <2>6
    <3>2. dram[f][z] = UnitAt(f, base[f], U - (w - z) - RingUnits)
      BY <1>10, <2>3, <3>1, Zenon
    <3> QED BY <1>7, <2>4, <3>1, <3>2
  <2> QED BY <2>5, <2>6
<1>12. ChunkEntriesOf(f, c) = Entries(units, n)
  BY <1>4, Zenon DEF ChunkEntriesOf
<1>13. f \in Nat /\ base[f] \in Nat
  BY SizeTyped DEF TypeInv, TypeOK, FirmwareOK
<1> HIDE DEF units
<1>14. Entries(units, n) = Span(f, base[f], q, q + n - 1)
  <2>1. PICK b \in Nat : b = base[f]
    BY <1>13
  <2>2. PICK u : u = units
    OBVIOUS
  <2>3. Written(u, f, b, q, n)
    BY <1>8, <1>11, <2>1, <2>2 DEF Written
  <2>4. Entries(u, n) = Span(f, b, q, q + n - 1)
    <3>1. PICK g \in Nat : g = f
      BY <1>13
    <3>2. Written(u, g, b, q, n)
      BY <2>3, <3>1
    <3>3. Entries(u, n) = Span(g, b, q, q + n - 1)
      BY <3>2, EntriesExact
    <3> QED BY <3>1, <3>3
  <2> QED BY <2>1, <2>2, <2>4
<1> QED BY <1>3, <1>4, <1>12, <1>14

\* The entries from m on, n of them, continue the waveforms that hold those from o on.
Continues(a, b, o, m, n) ==
    Appended(Span(a, b, o, m - 1), Span(a, b, m, m + n - 1)) = Span(a, b, o, m + n - 1)

\* A chunk appended to what was read before it.
LEMMA ChunkAppended ==
    ASSUME NEW a \in Nat, NEW b \in Nat, NEW o \in Nat, NEW m \in Nat, NEW n \in Nat,
           o <= m, m + n - o <= RingEntries
    PROVE  Continues(a, b, o, m, n)
<1> DEFINE t == Span(a, b, o, m - 1) \o Span(a, b, m, m + n - 1)
           d == RingEntries + 1
<1>1. m + n - o \in Nat /\ m + n - 1 \in Int
  OBVIOUS
<1>2. PICK e \in Int : e = m + n - 1
  BY <1>1
<1>3. PICK u : u = Span(a, b, o, e)
  OBVIOUS
<1>4. t = u
  <2>1. Joined(Span(a, b, o, m - 1), Span(a, b, m, m + n - 1), Span(a, b, o, m + n - 1))
    BY SpanAppended, Zenon
  <2> QED BY <1>2, <1>3, <2>1 DEF Joined
<1>5. u \in Seq(OwnEntries(a))
  BY <1>2, <1>3, SpanTyped, Zenon
<1>6. Len(u) = m + n - o
  <2>1. e - o + 1 = m + n - o
    BY <1>1, <1>2
  <2> QED BY <1>1, <1>3, <2>1 DEF Span
<1>7. Appended(Span(a, b, o, m - 1), Span(a, b, m, m + n - 1)) =
         SubSeq(t, IF Len(t) > d THEN Len(t) - d + 1 ELSE 1, Len(t))
  BY DEF Appended
<1> HIDE DEF t
<1>8. ~(Len(u) > d)
  BY <1>1, <1>6, SizeTyped
<1>9. SubSeq(u, 1, Len(u)) = u
  BY <1>5
<1> QED BY <1>2, <1>3, <1>4, <1>7, <1>8, <1>9 DEF Continues

-----------------------------------------------------------------------------
(* A readout shows the whole ring *)

\* The thread is inside update() with f, past its choice of branch.
InUpdate(f) == arr = f /\ pc \in Past

\* It is done with f's buffer, whether it read or gave it up, or about to be.
Late == {"stamp", "append", "abort", "reset"}
Leaving(f) == arr = f /\ pc \in Late

\* Chunks of f are still to be read.
Reading(f) ==
    /\ queue = <<f>> /\ ~reader[f].abort
    /\ ~(arr = f /\ pc \in {"skip", "rearm"}) /\ ~Leaving(f)
    /\ ~ReaderDone(reader[f]) \/ (arr = f /\ pc = "next")

\* A buffer at the front of the queue is still latched at the WrAddr at which it was queued.
QueuedOK(f) ==
    queue = <<f>> /\ ~reader[f].abort /\ ~Leaving(f) =>
        latched[f] /\ (ReaderDone(reader[f]) /\ ~InUpdate(f) => reader[f].preset = wrAddr[f])

\* A reader that was aborted, or remembers an end, has had its buffer re-armed
\* before, unless that readout is the one under way.
FirstOK(f) ==
    /\ reader[f].abort => base[f] > 0 \/ (arr = f /\ pc = "reset")
    /\ base[f] = 0 =>
          reader[f].last = 0 \/ (queue = <<f>> /\ (~ReaderDone(reader[f]) \/ InUpdate(f)))

\* The waveforms hold the ring's entries up to where the reader goes on.
ShownOK(f) ==
    Reading(f) =>
        /\ reader[f].last = wrAddr[f] /\ reader[f].ts = tstamp[f]
        /\ full[f] \/ base[f] = 0 =>
              /\ ReadsOn(f, reader[f])
              /\ pv[f] = Span(f, base[f], Oldest(f), Count(f) - Left(reader[f]) - 1)

\* With the last chunk, they hold all of it; a reader given up is marked so before
\* its buffer is re-armed.
LastOK ==
    /\ pc = "rearm" =>
          /\ reader[arr].ts = tstamp[arr] /\ ~reader[arr].abort
          /\ full[arr] \/ base[arr] = 0 => Appended(pv[arr], record) = RingOf(arr)
    /\ pc = "reset" => reader[arr].abort

ReadoutOK == (\A f \in Faults : QueuedOK(f) /\ FirstOK(f) /\ ShownOK(f)) /\ LastOK

\* A buffer that neither the firmware nor this step of the thread is concerned with.
Apart(f) ==
    /\ Still(f) /\ reader'[f] = reader[f] /\ pv'[f] = pv[f]
    /\ queue' = <<f>> <=> queue = <<f>>
    /\ \/ arr' = arr /\ pc' = pc
       \/ ~InUpdate(f) /\ ~(arr' = f /\ pc' \in Past)

\* An array that a step leaves apart keeps what is claimed of it.
LEMMA ApartKeeps ==
    ASSUME NEW f \in Faults, Apart(f), QueuedOK(f), FirstOK(f), ShownOK(f)
    PROVE  QueuedOK(f)' /\ FirstOK(f)' /\ ShownOK(f)'
<1>1. /\ tstamp'[f] = tstamp[f] /\ wrAddr'[f] = wrAddr[f] /\ full'[f] = full[f]
      /\ latched'[f] = latched[f] /\ written'[f] = written[f] /\ base'[f] = base[f]
      /\ reader'[f] = reader[f] /\ pv'[f] = pv[f]
  BY DEF Apart, Still
<1>2. queue' = <<f>> <=> queue = <<f>>
  BY DEF Apart
<1>3. \A p \in Past : (arr' = f /\ pc' = p) <=> (arr = f /\ pc = p)
  BY DEF Apart, InUpdate
<1>4. /\ InUpdate(f)' <=> InUpdate(f)
      /\ Leaving(f)' <=> Leaving(f)
      /\ (arr' = f /\ pc' = "reset") <=> (arr = f /\ pc = "reset")
      /\ (arr' = f /\ pc' = "next") <=> (arr = f /\ pc = "next")
      /\ (arr' = f /\ pc' \in {"skip", "rearm"}) <=> (arr = f /\ pc \in {"skip", "rearm"})
  BY <1>3 DEF InUpdate, Leaving, Past, Late
<1>5. QueuedOK(f)'
  BY <1>1, <1>2, <1>4 DEF QueuedOK, ReaderDone
<1>6. FirstOK(f)'
  BY <1>1, <1>2, <1>4 DEF FirstOK, ReaderDone
<1>7. ShownOK(f)'
  <2>1. Reading(f)' <=> Reading(f)
    BY <1>1, <1>2, <1>4 DEF Reading, ReaderDone
  <2>2. Count(f)' = Count(f) /\ Oldest(f)' = Oldest(f)
    BY <1>1 DEF Count, UnitsOfAcq, Oldest
  <2>3. Left(reader[f])' = Left(reader[f])
    BY <1>1 DEF Left
  <2>4. ReadsOn(f, reader[f])' <=> ReadsOn(f, reader[f])
    BY <1>1 DEF ReadsOn
  <2> QED BY <1>1, <2>1, <2>2, <2>3, <2>4 DEF ShownOK
<1> QED BY <1>5, <1>6, <1>7

\* What the proofs about a step rest on.
ReadInv == TypeInv /\ OneAtATime /\ InRing /\ RingsOK /\ LatchOK /\ ReadoutOK

\* The firmware moves buffers that are not latched, whose readout is not under way.
LEMMA ReadoutFirmware ==
    ASSUME ~ErroneousDone, ~WildWrAddr, ReadInv, Firmware
    PROVE  ReadoutOK'
<1> USE DEF ReadInv
<1>1. /\ UNCHANGED <<reader, queue, pv, pc, arr, record>>
      /\ \A f \in Faults : (latched[f] => Still(f)) /\ base'[f] = base[f]
  BY FirmwareLatch DEF LatchOK
<1>2. ASSUME NEW f \in Faults, latched[f] PROVE QueuedOK(f)' /\ FirstOK(f)' /\ ShownOK(f)'
  <2>1. Apart(f)
    BY <1>1, <1>2 DEF Apart
  <2> QED BY <2>1, ApartKeeps DEF ReadoutOK
<1>3. ASSUME NEW f \in Faults, ~latched[f] PROVE QueuedOK(f)' /\ FirstOK(f)' /\ ShownOK(f)'
  <2>1. ~(queue = <<f>> /\ ~reader[f].abort /\ ~Leaving(f))
    BY <1>3 DEF ReadoutOK, QueuedOK
  <2>2. FirstOK(f)
    BY DEF ReadoutOK
  <2> QED BY <1>1, <2>1, <2>2 DEF QueuedOK, FirstOK, ShownOK, Reading, InUpdate, Leaving, ReaderDone
<1>4. LastOK'
  <2> SUFFICES ASSUME pc = "rearm" PROVE LastOK'
    BY <1>1 DEF LastOK, ReadoutOK
  <2>1. arr \in Faults /\ Still(arr)
    BY <1>1, AtBuffer DEF LatchOK
  <2>2. PICK f \in Faults : f = arr
    BY <2>1
  <2>3. RingOf(f)' = RingOf(f)
    BY <2>1, <2>2 DEF RingOf, Still
  <2>4. /\ reader[f].ts = tstamp[f] /\ ~reader[f].abort
        /\ full[f] \/ base[f] = 0 => Appended(pv[f], record) = RingOf(f)
    BY <2>2 DEF ReadoutOK, LastOK
  <2>5. /\ arr' = f /\ reader'[f] = reader[f] /\ tstamp'[f] = tstamp[f] /\ full'[f] = full[f]
        /\ base'[f] = base[f] /\ pv'[f] = pv[f] /\ record' = record
    BY <1>1, <2>1, <2>2 DEF Still
  <2>6. pc' # "reset"
    BY <1>1
  <2> QED BY <2>3, <2>4, <2>5, <2>6 DEF LastOK
<1> QED BY <1>2, <1>3, <1>4 DEF ReadoutOK

\* A step of the thread at one buffer leaves the others apart.
LEMMA ApartFrom ==
    ASSUME TypeInv, NEW a \in Faults, arr = a, arr' \in {a, NoArray}, UNCHANGED fw \/ Rearmed(a),
           queue' = queue \/ (queue \in {<<>>, <<a>>} /\ queue' \in {<<>>, <<a>>}),
           \A f \in Faults \ {a} : reader'[f] = reader[f] /\ pv'[f] = pv[f]
    PROVE  \A f \in Faults \ {a} : Apart(f)
<1> SUFFICES ASSUME NEW f \in Faults \ {a} PROVE Apart(f)
  OBVIOUS
<1>1. Still(f)
  BY AllStill, RearmedDoes
<1>2. queue' = <<f>> <=> queue = <<f>>
  <2>1. <<f>> # <<a>> /\ <<f>> # <<>>
    OBVIOUS
  <2> QED BY <2>1
<1>3. arr # f /\ arr' # f
  BY SizeTyped
<1> QED BY <1>1, <1>2, <1>3 DEF Apart, InUpdate

\* So only that buffer's part of the invariant is to be shown.
LEMMA OthersKeep ==
    ASSUME ReadoutOK, NEW a \in Faults, \A f \in Faults \ {a} : Apart(f),
           QueuedOK(a)', FirstOK(a)', ShownOK(a)', LastOK'
    PROVE  ReadoutOK'
<1>1. ASSUME NEW f \in Faults \ {a} PROVE QueuedOK(f)' /\ FirstOK(f)' /\ ShownOK(f)'
  BY ApartKeeps DEF ReadoutOK
<1> QED BY <1>1 DEF ReadoutOK

\* Steps that read registers, and leaving for another array, leave all apart.
LEMMA ReadoutQuiet ==
    ASSUME ReadInv,
           \/ Pending \/ Sleep \/ ReadTs \/ ReadWr \/ ReadFull \/ OtherBuffer
           \/ UNCHANGED vars
    PROVE  ReadoutOK'
<1> USE DEF ReadInv
<1>1. CASE UNCHANGED vars
  BY <1>1 DEF vars, fw, sw, client, local, ReadoutOK, QueuedOK, FirstOK, ShownOK, LastOK, Reading,
     InUpdate, Leaving, ReaderDone, ReadsOn, Oldest, Count, UnitsOfAcq, Left, RingOf
<1>2. CASE Pending \/ Sleep \/ ReadTs \/ ReadWr \/ ReadFull \/ OtherBuffer
  <2>1. /\ UNCHANGED <<fw, reader, queue, pv>>
        /\ pc \notin Past /\ pc' \notin Past
    BY <1>2 DEF Pending, Sleep, ReadTs, ReadWr, ReadFull, OtherBuffer, Back, Past, sw, client
  <2>2. \A f \in Faults : Apart(f)
    BY <2>1, AllStill DEF Apart, InUpdate
  <2>3. \A f \in Faults : QueuedOK(f)' /\ FirstOK(f)' /\ ShownOK(f)'
    BY <2>2, ApartKeeps DEF ReadoutOK
  <2> QED BY <2>1, <2>3 DEF ReadoutOK, LastOK, Past
<1> QED BY <1>1, <1>2

\* A buffer enters the queue latched, at the WrAddr it still has.
LEMMA ReadoutPreset == ReadInv /\ Preset => ReadoutOK'
<1> SUFFICES ASSUME ReadInv, Preset PROVE ReadoutOK'
  OBVIOUS
<1> USE DEF ReadInv
<1>1. PICK a \in Faults : a = arr
  BY PresetDoes
<1>2. /\ queue = <<>> /\ queue' = <<a>> /\ Back /\ UNCHANGED <<fw, pv>> /\ pc = "dispatch"
      /\ reader'[a].preset = cur.wr /\ reader'[a].next = reader[a].next
      /\ reader'[a].last = reader[a].last /\ reader'[a].abort = reader[a].abort
      /\ \A f \in Faults \ {a} : reader'[f] = reader[f]
  BY <1>1, PresetDoes DEF Preset
<1>3. \A f \in Faults \ {a} : Apart(f)
  <2>1. queue \in {<<>>, <<a>>} /\ queue' \in {<<>>, <<a>>} /\ arr' = NoArray
    BY <1>2 DEF Back
  <2> QED BY <1>1, <1>2, <2>1, ApartFrom
<1>4. latched[a] /\ cur.wr = wrAddr[a] /\ Still(a)
  BY <1>1, <1>2, AllStill DEF LatchOK
<1>5. ReaderDone(reader'[a])
  <2>1. ReaderDone(reader[a])
    BY <1>2 DEF OneAtATime, OneReadout
  <2> QED BY <1>2, <2>1 DEF ReaderDone
<1>6. arr' = NoArray /\ arr' # a /\ pc' = "scan" /\ queue # <<a>>
  BY <1>2, SizeTyped DEF Back
<1>7. QueuedOK(a)'
  BY <1>2, <1>4 DEF QueuedOK, Still
<1>8. FirstOK(a)'
  <2>1. FirstOK(a)
    BY DEF ReadoutOK
  <2> QED BY <1>2, <1>4, <1>6, <2>1 DEF FirstOK, Still
<1>9. ShownOK(a)'
  BY <1>5, <1>6 DEF ShownOK, Reading
<1>10. LastOK'
  BY <1>6 DEF LastOK
<1> QED BY <1>3, <1>7, <1>8, <1>9, <1>10, OthersKeep

\* The next chunk of a readout under way.
LEMMA ReadoutContinue == ReadInv /\ Continue => ReadoutOK'
<1> SUFFICES ASSUME ReadInv, Continue PROVE ReadoutOK'
  OBVIOUS
<1> USE DEF ReadInv
<1>1. PICK a \in Faults : a = arr
  BY AtBuffer DEF Continue
<1>2. /\ queue = <<a>> /\ ~ReaderDone(reader[a]) /\ pc = "dispatch" /\ pc' = "next"
      /\ UNCHANGED <<fw, reader, queue, pv, arr>>
  BY <1>1, FrontOfQueue DEF Continue, sw, client, local
<1>3. \A f \in Faults \ {a} : Apart(f)
  BY <1>1, <1>2, ApartFrom
<1>4. Still(a) /\ latched[a]
  BY <1>1, <1>2, AllStill DEF LatchOK
<1>5. QueuedOK(a)'
  BY <1>2, <1>4 DEF QueuedOK, Still, ReaderDone
<1>6. FirstOK(a)'
  <2>1. FirstOK(a)
    BY DEF ReadoutOK
  <2> QED BY <1>1, <1>2, <1>4, <2>1 DEF FirstOK, Still, InUpdate, Past
<1>7. ShownOK(a)'
  <2>1. Reading(a)' => Reading(a)
    BY <1>2 DEF Reading, ReaderDone, Leaving, Late
  <2>2. ShownOK(a)
    BY DEF ReadoutOK
  <2>3. Count(a)' = Count(a) /\ Oldest(a)' = Oldest(a) /\ Left(reader[a])' = Left(reader[a])
        /\ (ReadsOn(a, reader[a])' <=> ReadsOn(a, reader[a]))
    BY <1>2, <1>4 DEF Count, UnitsOfAcq, Oldest, Left, ReadsOn, Still
  <2> QED BY <1>2, <1>4, <2>1, <2>2, <2>3 DEF ShownOK, Still
<1>8. LastOK'
  BY <1>2 DEF LastOK
<1> QED BY <1>3, <1>5, <1>6, <1>7, <1>8, OthersKeep

\* A buffer that is re-armed has been written to, and its readout is over.
LEMMA Over ==
    ASSUME NEW a \in Faults, base'[a] > 0, ~(base'[a] = 0),
           queue' # <<a>> \/ reader'[a].abort \/ (arr' = a /\ pc' \in Late)
    PROVE  QueuedOK(a)' /\ FirstOK(a)' /\ ShownOK(a)'
BY DEF QueuedOK, FirstOK, ShownOK, Reading, Leaving

\* A latched buffer that is re-armed counts its acquisition from a later unit.
LEMMA RearmedLater ==
    ASSUME TypeInv, NEW a \in Faults, Rearmed(a), written[a] > 0 \/ (DoneOK(a) /\ latched[a])
    PROVE  base'[a] > 0 /\ ~(base'[a] = 0)
<1>1. written[a] \in Nat /\ base[a] \in Nat /\ base'[a] = written[a]
  BY RearmedDoes DEF TypeInv, TypeOK, FirmwareOK
<1> QED BY <1>1 DEF DoneOK

\* Giving up a readout.
LEMMA ReadoutSkip == ReadInv /\ Skip => ReadoutOK'
<1> SUFFICES ASSUME ReadInv, Skip PROVE ReadoutOK'
  OBVIOUS
<1> USE DEF ReadInv
<1>1. PICK a \in Faults : a = arr
  BY AtBuffer DEF Skip
<1>2. /\ pc = "skip" /\ Rearmed(a) /\ Back /\ UNCHANGED <<reader, pv>> /\ queue' = Tail(queue)
  BY <1>1 DEF Skip, client
<1>3. queue = <<a>> /\ queue' = <<>> /\ arr' = NoArray /\ pc' = "scan"
  BY <1>1, <1>2, QueueLeft DEF TypeInv, QueueHeld, Past, Back
<1>4. \A f \in Faults \ {a} : Apart(f)
  BY <1>1, <1>2, <1>3, ApartFrom
<1>5. base'[a] > 0 /\ ~(base'[a] = 0)
  BY <1>1, <1>2, RearmedLater DEF LatchOK
<1>6. queue' # <<a>>
  BY <1>3
<1>7. QueuedOK(a)' /\ FirstOK(a)' /\ ShownOK(a)'
  BY <1>5, <1>6, Over
<1>8. LastOK'
  BY <1>3 DEF LastOK
<1> QED BY <1>4, <1>7, <1>8, OthersKeep

\* Leaving a readout that was aborted.
LEMMA ReadoutNextAborted == ReadInv /\ NextAborted => ReadoutOK'
<1> SUFFICES ASSUME ReadInv, NextAborted PROVE ReadoutOK'
  OBVIOUS
<1> USE DEF ReadInv
<1>1. PICK a \in Faults : a = arr
  BY NextAbortedDoes
<1>2. /\ queue = <<a>> /\ queue' = <<>> /\ Back /\ UNCHANGED <<fw, pv>> /\ reader[a].abort
      /\ \A f \in Faults \ {a} : reader'[f] = reader[f]
  BY <1>1, NextAbortedDoes
<1>3. arr' = NoArray /\ pc' = "scan" /\ queue' # <<a>>
  BY <1>2 DEF Back
<1>4. \A f \in Faults \ {a} : Apart(f)
  BY <1>1, <1>2, <1>3, ApartFrom
<1>5. base'[a] = base[a] /\ base[a] > 0 /\ base[a] \in Nat
  <2>1. FirstOK(a) /\ pc = "next" /\ base[a] \in Nat
    BY DEF ReadoutOK, NextAborted, TypeInv, TypeOK, FirmwareOK
  <2> QED BY <1>2, <2>1, AllStill DEF FirstOK, Still
<1>6. QueuedOK(a)' /\ FirstOK(a)' /\ ShownOK(a)'
  BY <1>3, <1>5, Over
<1>7. LastOK'
  BY <1>3 DEF LastOK
<1> QED BY <1>4, <1>6, <1>7, OthersKeep

\* The end of a readout: the buffer is re-armed,
LEMMA ReadoutLastRearm == ReadInv /\ LastRearm => ReadoutOK'
<1> SUFFICES ASSUME ReadInv, LastRearm PROVE ReadoutOK'
  OBVIOUS
<1> USE DEF ReadInv
<1>1. PICK a \in Faults : a = arr
  BY AtBuffer DEF LastRearm
<1>2. /\ pc = "rearm" /\ pc' = "stamp" /\ Rearmed(a) /\ UNCHANGED <<reader, queue, pv, arr>>
  BY <1>1 DEF LastRearm, sw, client, local
<1>3. \A f \in Faults \ {a} : Apart(f)
  BY <1>1, <1>2, ApartFrom
<1>4. base'[a] > 0 /\ ~(base'[a] = 0)
  BY <1>1, <1>2, RearmedLater DEF LatchOK
<1>5. arr' = a /\ pc' \in Late
  BY <1>1, <1>2 DEF Late
<1>6. QueuedOK(a)' /\ FirstOK(a)' /\ ShownOK(a)'
  BY <1>4, <1>5, Over
<1>7. LastOK'
  BY <1>2 DEF LastOK
<1> QED BY <1>3, <1>6, <1>7, OthersKeep

\* the waveforms get their time stamp, and the last chunk.
LEMMA ReadoutLast == ReadInv /\ (LastStamp \/ LastAppend) => ReadoutOK'
<1> SUFFICES ASSUME ReadInv, LastStamp \/ LastAppend PROVE ReadoutOK'
  OBVIOUS
<1> USE DEF ReadInv
<1>1. PICK a \in Faults : a = arr
  BY AtBuffer DEF LastStamp, LastAppend
<1>2. /\ pc \in {"stamp", "append"} /\ UNCHANGED fw /\ UNCHANGED reader
      /\ \/ pc' = "append" /\ arr' = arr /\ UNCHANGED <<queue, pv>>
         \/ Back /\ Deliver(record) /\ queue' = Tail(queue)
  BY DEF LastStamp, LastAppend, sw, local
<1>3. queue = <<a>> /\ queue' \in {<<>>, <<a>>}
  BY <1>1, <1>2, QueueLeft DEF TypeInv, QueueHeld, Past
<1>4. \A f \in Faults \ {a} : Apart(f)
  <2>1. \A f \in Faults \ {a} : pv'[f] = pv[f]
    BY <1>1, <1>2 DEF Deliver, TypeInv, TypeOK, DataOK
  <2>2. arr' \in {a, NoArray}
    BY <1>1, <1>2 DEF Back
  <2>3. queue \in {<<>>, <<a>>}
    BY <1>3
  <2> QED BY <1>1, <1>2, <1>3, <2>1, <2>2, <2>3, ApartFrom
<1>5. base'[a] > 0 /\ ~(base'[a] = 0)
  <2>1. base[a] > 0 /\ base[a] \in Nat /\ base'[a] = base[a]
    BY <1>1, <1>2 DEF LatchOK, TypeInv, TypeOK, FirmwareOK, fw
  <2> QED BY <2>1
<1>6. queue' # <<a>> \/ (arr' = a /\ pc' \in Late)
  <2>1. CASE pc' = "append" /\ arr' = arr
    BY <1>1, <2>1 DEF Late
  <2>2. CASE queue' = Tail(queue)
    <3>1. queue' = <<>>
      BY <1>3, <2>2, QueueLeft DEF TypeInv
    <3> QED BY <3>1
  <2> QED BY <1>2, <2>1, <2>2
<1>7. QueuedOK(a)' /\ FirstOK(a)' /\ ShownOK(a)'
  <2>1. CASE queue' # <<a>>
    BY <1>5, <2>1, Over
  <2>2. CASE arr' = a /\ pc' \in Late
    BY <1>5, <2>2, Over
  <2> QED BY <1>6, <2>1, <2>2
<1>8. LastOK'
  BY <1>2 DEF LastOK, Back
<1> QED BY <1>4, <1>7, <1>8, OthersKeep

\* An access that throws: the readout is about to be given up, or the client ends.
LEMMA ReadoutIoError == ReadInv /\ IoError => pc' = "crashed" \/ ReadoutOK'
<1> SUFFICES ASSUME ReadInv, IoError, pc' # "crashed" PROVE ReadoutOK'
  OBVIOUS
<1> USE DEF ReadInv
<1>1. /\ pc \in {"skip", "next", "rearm", "append"} /\ pc' = "abort" /\ UNCHANGED <<reader, queue, pv, arr>>
      /\ (pc \in {"skip", "rearm"} /\ Rearmed(arr)) \/ UNCHANGED fw
  BY DEF IoError, Crash, sw, client
<1>2. PICK a \in Faults : a = arr
  BY <1>1, AtBuffer
<1>3. \A f \in Faults \ {a} : Apart(f)
  BY <1>1, <1>2, ApartFrom
<1>4. queue = <<a>>
  BY <1>1, <1>2 DEF TypeInv, QueueHeld, Past
<1>5. arr' = a /\ pc' \in Late
  BY <1>1, <1>2 DEF Late
<1>6. QueuedOK(a)' /\ FirstOK(a)' /\ ShownOK(a)'
  <2>1. CASE pc \in {"skip", "rearm"} /\ Rearmed(a)
    <3>1. base'[a] > 0 /\ ~(base'[a] = 0)
      BY <1>2, <2>1, RearmedLater DEF LatchOK
    <3> QED BY <1>5, <3>1, Over
  <2>2. CASE UNCHANGED fw
    <3>1. base'[a] = base[a]
      BY <2>2 DEF fw
    <3>2. reader[a].abort => base[a] > 0
      <4>1. FirstOK(a) /\ pc # "reset"
        BY <1>1 DEF ReadoutOK
      <4> QED BY <4>1 DEF FirstOK
    <3>3. Leaving(a)' /\ InUpdate(a)'
      BY <1>1, <1>2 DEF Leaving, InUpdate, Late, Past
    <3> QED BY <1>1, <1>4, <3>1, <3>2, <3>3 DEF QueuedOK, FirstOK, ShownOK, Reading
  <2> QED BY <1>1, <1>2, <2>1, <2>2
<1>7. LastOK'
  BY <1>1 DEF LastOK
<1> QED BY <1>3, <1>6, <1>7, OthersKeep

\* abort() marks the reader at the front of the queue,
LEMMA ReadoutAbortPv == ReadInv /\ AbortPv => ReadoutOK'
<1> SUFFICES ASSUME ReadInv, AbortPv PROVE ReadoutOK'
  OBVIOUS
<1> USE DEF ReadInv
<1>1. PICK a \in Faults : a = arr
  BY AbortPvDoes
<1>2. /\ pc = "abort" /\ pc' = "reset" /\ UNCHANGED <<fw, queue, arr>> /\ queue = <<a>>
      /\ pv' = [pv EXCEPT ![a] = <<>>] /\ reader'[a].abort
      /\ \A f \in Faults \ {a} : reader'[f] = reader[f]
      /\ reader'[a].last = reader[a].last
  BY <1>1, AbortPvDoes
<1>3. \A f \in Faults \ {a} : Apart(f)
  <2>1. \A f \in Faults \ {a} : pv'[f] = pv[f]
    BY <1>2 DEF TypeInv, TypeOK, DataOK
  <2> QED BY <1>1, <1>2, <2>1, ApartFrom
<1>4. arr' = a /\ Leaving(a)' /\ InUpdate(a)'
  BY <1>1, <1>2 DEF Leaving, InUpdate, Late, Past
<1>5. QueuedOK(a)' /\ FirstOK(a)' /\ ShownOK(a)'
  BY <1>2, <1>4 DEF QueuedOK, FirstOK, ShownOK, Reading
<1>6. LastOK'
  BY <1>1, <1>2 DEF LastOK
<1> QED BY <1>3, <1>5, <1>6, OthersKeep

\* and re-arms the buffer.
LEMMA ReadoutAbortReset == ReadInv /\ AbortReset => ReadoutOK'
<1> SUFFICES ASSUME ReadInv, AbortReset PROVE ReadoutOK'
  OBVIOUS
<1> USE DEF ReadInv
<1>1. PICK a \in Faults : a = arr
  BY AbortResetDoes
<1>2. /\ pc = "reset" /\ Rearmed(a) /\ Back /\ UNCHANGED <<reader, queue, pv>> /\ written[a] > 0
      /\ reader[a].abort
  BY <1>1, AbortResetDoes DEF LatchOK, ReadoutOK, LastOK
<1>3. arr' = NoArray /\ pc' = "scan"
  BY <1>2 DEF Back
<1>4. \A f \in Faults \ {a} : Apart(f)
  BY <1>1, <1>2, <1>3, ApartFrom
<1>5. base'[a] > 0 /\ ~(base'[a] = 0)
  BY <1>2, RearmedLater
<1>6. reader'[a].abort
  BY <1>2
<1>7. QueuedOK(a)' /\ FirstOK(a)' /\ ShownOK(a)'
  BY <1>5, <1>6, Over
<1>8. LastOK'
  BY <1>3 DEF LastOK
<1> QED BY <1>4, <1>7, <1>8, OthersKeep

\* A client that is started again begins with buffers that hold nothing yet.
LEMMA ReadoutRestart ==
    ASSUME TypeInv, Restart
    PROVE  ReadoutOK'
<1>1. pc' = "idle" /\ queue' = <<>>
  BY RestartDoes
<1>2. ASSUME NEW f \in Faults PROVE QueuedOK(f)' /\ FirstOK(f)' /\ ShownOK(f)'
  <2>1. queue' # <<f>> /\ ~reader'[f].abort /\ reader'[f].last = 0
    BY <1>1, RestartDoes
  <2> QED BY <2>1 DEF QueuedOK, FirstOK, ShownOK, Reading
<1>3. LastOK'
  BY <1>1 DEF LastOK
<1> QED BY <1>2, <1>3 DEF ReadoutOK

\* A reader that begins a readout begins with the oldest entry in the ring.
LEMMA ReadoutBegins ==
    ASSUME TypeInv, OneAtATime, InRing, RingsOK, NEW a \in Faults, NEW r \in Readers,
           DoneOK(a), latched[a],
           r.last = wrAddr[a], full[a] \/ base[a] = 0, full[a] => r.next = r.last,
           ~full[a] => r.next = Start
    PROVE  ReadsOn(a, r) /\ Span(a, base[a], Oldest(a), Count(a) - Left(r) - 1) = <<>>
<1>1. /\ full[a] => UnitsOfAcq(a) >= RingUnits + (wrAddr[a] - Start)
      /\ ~full[a] => UnitsOfAcq(a) = wrAddr[a] - Start
      /\ Aligned(UnitsOfAcq(a)) /\ wrAddr[a] \in Region /\ Aligned(wrAddr[a])
  BY DEF RingsOK, RingOK, InRing, OneAtATime
<1>2. UnitsOfAcq(a) \in Nat /\ UnitsOfAcq(a) > 0
  BY DEF TypeInv, TypeOK, FirmwareOK, Started, UnitsOfAcq, DoneOK
<1>3. PICK k \in Nat : UnitsOfAcq(a) = k * EntryUnits
  BY <1>1 DEF Aligned
<1>4. Count(a) = k
  BY <1>3, SizeTyped, ExactDivision DEF Count
<1>5. wrAddr[a] \in Nat /\ Start <= wrAddr[a]
  BY <1>1, SizeTyped DEF Region
<1>6. CASE full[a]
  <2>1. ReadsOn(a, r)
    BY <1>6 DEF ReadsOn
  <2>2. Left(r) = RingEntries
    <3>1. r.last + (IF r.next < r.last THEN 0 ELSE RingUnits) - r.next = RingEntries * EntryUnits
      BY <1>5, <1>6, SizeTyped
    <3> QED BY <3>1, SizeTyped, ExactDivision DEF Left
  <2>3. Oldest(a) = k - RingEntries
    BY <1>4, <1>6 DEF Oldest
  <2>4. (k - RingEntries - 1) - (k - RingEntries) + 1 = 0
    BY SizeTyped
  <2>5. Span(a, base[a], k - RingEntries, k - RingEntries - 1) = <<>>
    BY <2>4 DEF Span
  <2> QED BY <1>4, <2>1, <2>2, <2>3, <2>5
<1>7. CASE ~full[a]
  <2>1. UnitsOfAcq(a) = wrAddr[a] - Start /\ r.next = Start
    BY <1>1, <1>7
  <2>2. r.next < r.last
    BY <1>2, <1>5, <2>1, SizeTyped
  <2>3. Left(r) = k
    <3>1. r.last + (IF r.next < r.last THEN 0 ELSE RingUnits) - r.next = k * EntryUnits
      <4>1. r.last + 0 - r.next = UnitsOfAcq(a)
        BY <1>5, <2>1, SizeTyped
      <4> QED BY <1>3, <2>2, <4>1
    <3> QED BY <3>1, SizeTyped, ExactDivision DEF Left
  <2>4. Oldest(a) = 0
    BY <1>7 DEF Oldest
  <2>5. (k - k - 1) - 0 + 1 = 0
    OBVIOUS
  <2>6. Span(a, base[a], 0, k - k - 1) = <<>>
    BY <2>5 DEF Span
  <2> QED BY <1>4, <2>2, <2>3, <2>4, <2>6 DEF ReadsOn
<1> QED BY <1>6, <1>7

\* A readout begins, or is refused.
LEMMA ReadoutReset == ReadInv /\ ResetReader => ReadoutOK'
<1> SUFFICES ASSUME ReadInv, ResetReader PROVE ReadoutOK'
  OBVIOUS
<1> USE DEF ReadInv
<1>1. PICK a \in Faults : a = arr
  BY ResetDoes
<1>2. /\ queue = <<a>> /\ queue' = <<a>> /\ ReaderDone(reader[a]) /\ pc = "dispatch" /\ arr' = a
      /\ UNCHANGED fw /\ \A f \in Faults \ {a} : reader'[f] = reader[f]
      /\ pc' \in {"skip", "next"}
  BY <1>1, ResetDoes
<1>3. /\ pc' = "skip" => UNCHANGED pv
      /\ pc' = "next" => pv' = [pv EXCEPT ![a] = <<>>]
      /\ pv \in [Faults -> Seq(EntryVal)]
  BY <1>1, ResetDoes DEF TypeInv, TypeOK, DataOK
<1>4. \A f \in Faults \ {a} : Apart(f)
  <2>1. \A f \in Faults \ {a} : pv'[f] = pv[f]
    BY <1>2, <1>3
  <2> QED BY <1>1, <1>2, <2>1, ApartFrom
<1>5. /\ latched[a] /\ cur.ts = tstamp[a] /\ cur.wr = wrAddr[a] /\ (cur.wrap <=> full[a])
      /\ DoneOK(a) /\ Still(a)
  BY <1>1, <1>2, AllStill DEF LatchOK
<1>6. QueuedOK(a)'
  BY <1>2, <1>5 DEF QueuedOK, InUpdate, Past, Still
<1>7. FirstOK(a)'
  <2>1. reader'[a].abort => reader[a].abort
    BY <1>1, ResetDoes
  <2>2. reader[a].abort => base[a] > 0
    BY <1>2 DEF ReadoutOK, FirstOK
  <2> QED BY <1>2, <1>5, <2>1, <2>2 DEF FirstOK, InUpdate, Past, Still
<1>8. ShownOK(a)'
  <2>1. CASE pc' = "skip"
    BY <1>2, <2>1 DEF ShownOK, Reading
  <2>2. CASE pc' = "next"
    <3> PICK r : r = reader'[a]
      OBVIOUS
    <3>1. /\ r.ts = cur.ts /\ r.last = cur.wr
          /\ r.next = IF cur.wrap THEN cur.wr ELSE IF reader[a].last # 0 THEN reader[a].last ELSE Start
      BY <1>1, <2>2, ResetDoes
    <3>2. r \in Readers
      <4>1. reader' \in [Faults -> Readers]
        BY TypeNext DEF Next, Thread, TypeInv, TypeOK, ReaderOK, Readers
      <4> QED BY <4>1
    <3>3. pv'[a] = <<>>
      BY <1>3, <2>2
    <3>4. r.last = wrAddr[a] /\ r.ts = tstamp[a]
      BY <1>5, <3>1
    <3>5. ASSUME full[a] \/ base[a] = 0
          PROVE  ReadsOn(a, r) /\ Span(a, base[a], Oldest(a), Count(a) - Left(r) - 1) = <<>>
      <4>1. full[a] => r.next = r.last
        BY <1>5, <3>1
      <4>2. ~full[a] => r.next = Start
        <5>1. base[a] = 0 => reader[a].last = 0
          BY <1>2 DEF ReadoutOK, FirstOK, InUpdate, Past
        <5> QED BY <1>5, <3>1, <3>5, <5>1
      <4> QED BY <1>5, <3>2, <3>4, <3>5, <4>1, <4>2, ReadoutBegins
    <3>6. Count(a)' = Count(a) /\ Oldest(a)' = Oldest(a) /\ Left(reader[a])' = Left(r)
          /\ (ReadsOn(a, reader[a])' <=> ReadsOn(a, r))
      BY <1>5 DEF Count, UnitsOfAcq, Oldest, Left, ReadsOn, Still
    <3> QED BY <1>5, <3>3, <3>4, <3>5, <3>6 DEF ShownOK, Still
  <2> QED BY <1>2, <2>1, <2>2
<1>9. LastOK'
  BY <1>2 DEF LastOK
<1> QED BY <1>4, <1>6, <1>7, <1>8, <1>9, OthersKeep

\* What the ring holds, from its oldest entry.
LEMMA RingIs ==
    ASSUME NEW a \in Faults, NEW k \in Nat, UnitsOfAcq(a) = k * EntryUnits
    PROVE  RingOf(a) = Span(a, base[a], Oldest(a), k - 1)
<1>1. Count(a) = k
  BY SizeTyped, ExactDivision DEF Count
<1>2. (written[a] - base[a]) \div EntryUnits = k
  BY <1>1 DEF Count, UnitsOfAcq
<1> QED BY <1>1, <1>2 DEF RingOf, Oldest

\* The next chunk continues what the waveforms hold; with the last one they hold the ring.
LEMMA ReadoutNextChunk == ReadInv /\ NextChunk => ReadoutOK'
<1> SUFFICES ASSUME ReadInv, NextChunk PROVE ReadoutOK'
  OBVIOUS
<1> USE DEF ReadInv
<1>1. PICK a \in Faults : a = arr
  BY NextChunkDoes
<1> PICK r : r = reader[a]
  OBVIOUS
<1> PICK s : s = reader'[a]
  OBVIOUS
<1> PICK c : c = Chunk(r)
  OBVIOUS
<1>2. /\ queue = <<a>> /\ queue' = <<a>> /\ UNCHANGED fw /\ pc = "next" /\ ~r.abort
      /\ \/ pc' = "abort" /\ reader' = reader /\ UNCHANGED <<pv, arr>>
         \/ /\ s.next = c.nnext /\ s.last = r.last /\ s.ts = r.ts /\ ~s.abort
            /\ \A f \in Faults \ {a} : reader'[f] = reader[f]
            /\ \/ /\ s.next = r.last /\ pc' = "rearm" /\ record' = ChunkEntriesOf(a, c)
                  /\ UNCHANGED <<pv, arr>>
               \/ s.next # r.last /\ Back /\ Deliver(ChunkEntriesOf(a, c))
  BY <1>1, NextChunkDoes
<1>3. r \in Readers /\ s \in Readers
  <2>1. reader \in [Faults -> Readers] /\ reader' \in [Faults -> Readers]
    BY TypeNext DEF Next, Thread, TypeInv, TypeOK, ReaderOK, Readers
  <2> QED BY <2>1
<1>4. \A f \in Faults \ {a} : Apart(f)
  <2>1. \A f \in Faults \ {a} : pv'[f] = pv[f]
    BY <1>1, <1>2 DEF Deliver, TypeInv, TypeOK, DataOK
  <2>2. \A f \in Faults \ {a} : reader'[f] = reader[f]
    BY <1>2
  <2>3. arr' \in {a, NoArray}
    BY <1>1, <1>2 DEF Back
  <2> QED BY <1>1, <1>2, <2>1, <2>2, <2>3, ApartFrom
<1>5. latched[a] /\ Still(a)
  BY <1>1, <1>2, AllStill DEF LatchOK
<1>6. /\ r.last = wrAddr[a] /\ r.ts = tstamp[a]
      /\ full[a] \/ base[a] = 0 =>
            ReadsOn(a, r) /\ pv[a] = Span(a, base[a], Oldest(a), Count(a) - Left(r) - 1)
  <2>1. Reading(a)
    BY <1>1, <1>2 DEF Reading, Leaving, Late
  <2> QED BY <2>1 DEF ReadoutOK, ShownOK
<1>7. r.next \in Region /\ r.last \in Region /\ Aligned(r.next) /\ Aligned(r.last)
  BY <1>1, <1>2 DEF InRing, OneAtATime
<1> PICK m : m = Left(r)
  OBVIOUS
<1>8. /\ m \in 1 .. RingEntries /\ c.n \in 1 .. m
      /\ c.n = m <=> c.nnext = r.last
      /\ s.next = c.nnext /\ s.last = r.last /\ c.nnext # r.last =>
            Left(s) = m - c.n /\ (r.next < r.last => s.next < s.last)
  BY <1>3, <1>7, ChunkIs
<1> PICK k : k = Count(a)
  OBVIOUS
<1> PICK o : o = Oldest(a)
  OBVIOUS
<1> PICK e : e = ChunkEntriesOf(a, c)
  OBVIOUS
<1>9. ASSUME full[a] \/ base[a] = 0
      PROVE  /\ k \in Nat /\ UnitsOfAcq(a) = k * EntryUnits /\ o \in Nat /\ o <= k - m /\ k - o <= RingEntries
             /\ Appended(pv[a], e) = Span(a, base[a], o, k - (m - c.n) - 1)
  <2>1. /\ k \in Nat /\ UnitsOfAcq(a) = k * EntryUnits /\ o \in Nat /\ o <= k - m /\ k - o <= RingEntries
    BY <1>3, <1>6, <1>7, <1>9, LeftInRing
  <2>2. e = Span(a, base[a], k - m, k - m + c.n - 1)
    BY <1>3, <1>6, <1>7, <1>9, ChunkContent
  <2>3. PICK q \in Nat : q = k - m
    BY <1>8, <2>1
  <2>4. PICK n \in Nat : n = c.n
    BY <1>8
  <2>5. PICK b \in Nat : b = base[a]
    BY DEF TypeInv, TypeOK, FirmwareOK
  <2>6. o <= q /\ q + n - o <= RingEntries
    BY <1>8, <2>1, <2>3, <2>4, SizeTyped
  <2>7. PICK g \in Nat : g = a
    BY SizeTyped
  <2>8. Appended(Span(g, b, o, q - 1), Span(g, b, q, q + n - 1)) = Span(g, b, o, q + n - 1)
    <3>1. o \in Nat
      BY <2>1
    <3>2. Continues(g, b, o, q, n)
      BY <2>6, <3>1, ChunkAppended
    <3> QED BY <3>2 DEF Continues
  <2>9. pv[a] = Span(g, b, o, q - 1)
    BY <1>6, <1>9, <2>3, <2>5, <2>7
  <2>10. e = Span(g, b, q, q + n - 1)
    BY <2>2, <2>3, <2>4, <2>5, <2>7
  <2>11. k - (m - c.n) - 1 = q + n - 1
    BY <1>8, <2>1, <2>3, <2>4
  <2> QED BY <2>1, <2>5, <2>7, <2>8, <2>9, <2>10, <2>11
<1>10. QueuedOK(a)'
  <2>1. latched'[a]
    BY <1>5 DEF Still
  <2>2. Leaving(a)' \/ InUpdate(a)' \/ s.next # s.last
    BY <1>1, <1>2 DEF InUpdate, Leaving, Past, Late
  <2> QED BY <2>1, <2>2 DEF QueuedOK, ReaderDone
<1>11. FirstOK(a)'
  BY <1>1, <1>2, <1>5 DEF FirstOK, InUpdate, Past, ReaderDone, Still
<1>12. ShownOK(a)'
  <2>1. CASE pc' # "scan"
    BY <1>1, <1>2, <2>1 DEF ShownOK, Reading, Leaving, Late, Back
  <2>2. CASE /\ s.next = c.nnext /\ s.last = r.last /\ s.ts = r.ts
             /\ s.next # r.last /\ Deliver(ChunkEntriesOf(a, c))
    <3>1. pv'[a] = Appended(pv[a], e)
      BY <1>1, <2>2 DEF Deliver, TypeInv, TypeOK, DataOK
    <3>2. Left(s) = m - c.n /\ (r.next < r.last => s.next < s.last)
      BY <1>8, <2>2
    <3>3. Count(a)' = k /\ Oldest(a)' = o /\ Left(reader[a])' = Left(s)
          /\ (ReadsOn(a, reader[a])' <=> ReadsOn(a, s)) /\ base'[a] = base[a]
          /\ full'[a] = full[a] /\ wrAddr'[a] = wrAddr[a] /\ tstamp'[a] = tstamp[a]
      BY <1>5 DEF Count, UnitsOfAcq, Oldest, Left, ReadsOn, Still
    <3>4. ASSUME full[a] \/ base[a] = 0
          PROVE  ReadsOn(a, s) /\ pv'[a] = Span(a, base[a], o, k - Left(s) - 1)
      <4>1. ReadsOn(a, s)
        BY <1>6, <2>2, <3>2, <3>4 DEF ReadsOn
      <4> QED BY <1>9, <3>1, <3>2, <3>4, <4>1
    <3> QED BY <1>6, <2>2, <3>3, <3>4 DEF ShownOK
  <2> QED BY <1>2, <2>1, <2>2
<1>13. LastOK'
  <2>1. CASE pc' # "rearm"
    BY <1>2, <2>1 DEF LastOK, Back
  <2>2. CASE pc' = "rearm"
    <3>1. /\ s.next = c.nnext /\ s.ts = r.ts /\ ~s.abort /\ s.next = r.last /\ record' = e
          /\ UNCHANGED <<pv, arr>>
      BY <1>2, <2>2 DEF Back
    <3>2. /\ tstamp'[a] = tstamp[a] /\ full'[a] = full[a] /\ base'[a] = base[a]
          /\ RingOf(a)' = RingOf(a)
      BY <1>5 DEF Still, RingOf
    <3>3. ASSUME full[a] \/ base[a] = 0 PROVE Appended(pv[a], e) = RingOf(a)
      <4>1. c.n = m
        BY <1>8, <3>1
      <4>2. k \in Nat /\ k - (m - c.n) - 1 = k - 1
        BY <1>8, <1>9, <3>3, <4>1
      <4>3. RingOf(a) = Span(a, base[a], o, k - 1)
        BY <1>9, <3>3, RingIs
      <4> QED BY <1>9, <3>3, <4>2, <4>3
    <3>4. arr' = a /\ reader'[a] = s
      BY <1>1, <3>1
    <3> QED BY <1>6, <2>2, <3>1, <3>2, <3>3, <3>4 DEF LastOK
  <2> QED BY <2>1, <2>2
<1> QED BY <1>4, <1>10, <1>11, <1>12, <1>13, OthersKeep

\* No readout is under way at the start.
LEMMA ReadoutInit == Init => ReadoutOK
BY DEF Init, ReadoutOK, QueuedOK, FirstOK, ShownOK, LastOK, Reading, ReaderDone, NewReader

\* A client that ended cannot leave its buffers as it read them.
Kept == TypeInv /\ OneAtATime /\ InRing /\ RingsOK /\ LatchOK /\ (pc = "crashed" \/ ReadoutOK)

\* The inductive invariant.
LEMMA KeptInit == Init => Kept
BY TypeInit, OneInit, RingInit, RingsInit, LatchInit, ReadoutInit DEF Kept

\* Every step keeps the inductive invariant.
LEMMA KeptNext ==
    WholeEntries /\ ~WildWrAddr /\ ~ErroneousDone /\ Kept /\ [Next]_vars => Kept'
<1> SUFFICES ASSUME WholeEntries, ~WildWrAddr, ~ErroneousDone, Kept, [Next]_vars PROVE Kept'
  OBVIOUS
<1>1. TypeInv' /\ OneAtATime' /\ InRing' /\ RingsOK' /\ LatchOK'
  BY TypeNext, OneNext, RingNext, RingsNext, LatchNext DEF Kept
<1>2. CASE pc = "crashed"
  <2>1. ~Thread /\ ~IoError
    BY <1>2 DEF Thread, Pending, Sleep, ReadTs, ReadWr, ReadFull, Preset, OtherBuffer, ResetReader,
       Continue, Skip, NextAborted, NextChunk, LastRearm, LastStamp, LastAppend, AbortPv, AbortReset,
       IoError
  <2>2. pc' = "crashed" \/ ReadoutOK'
    BY <1>2, <2>1, FirmwareStamps, ReadoutRestart DEF Next, Kept, vars
  <2> QED BY <1>1, <2>2 DEF Kept
<1>3. CASE pc # "crashed"
  <2>1. ReadInv
    BY <1>3 DEF Kept, ReadInv
  <2>2. ~Restart
    BY <1>3 DEF Restart
  <2>3. pc' = "crashed" \/ ReadoutOK'
    BY <2>1, <2>2, ReadoutFirmware, ReadoutQuiet, ReadoutPreset, ReadoutContinue, ReadoutSkip,
       ReadoutNextAborted, ReadoutLastRearm, ReadoutLast, ReadoutIoError, ReadoutAbortPv,
       ReadoutAbortReset, ReadoutReset, ReadoutNextChunk DEF Next, Thread
  <2> QED BY <1>1, <2>3 DEF Kept
<1> QED BY <1>2, <1>3

\* A fault buffer that wrapped, or was never read before, is re-armed as read only when
\* its waveforms hold the whole ring, oldest entry first, nothing twice: Reader::next's
\* chunks join up, whatever else moves between them.  Accesses may throw, and the
\* client may end and be started again.
THEOREM ReadoutShowsTheRing ==
    WholeEntries /\ ~WildWrAddr /\ ~ErroneousDone => (Spec => []ReadoutExact)
<1> SUFFICES ASSUME WholeEntries, ~WildWrAddr, ~ErroneousDone PROVE Spec => []ReadoutExact
  OBVIOUS
<1>1. Kept => ReadoutExact
  BY DEF Kept, ReadoutOK, LastOK, ReadoutExact, Shown
<1>2. Kept /\ [Next]_vars => Kept'
  BY KeptNext
<1> QED BY <1>1, <1>2, KeptInit, PTL DEF Spec

-----------------------------------------------------------------------------
(* Without I/O errors no readout is given up *)

\* No readout is skipped, given up or about to be.
NothingLost ==
    /\ pc \notin {"skip", "abort", "reset", "crashed"}
    /\ \A f \in Faults : ~reader[f].abort

\* reset() finds the buffer as it was queued, at the beginning of an entry.
LEMMA ResetAccepts ==
    ASSUME ReadInv, NothingLost, ResetReader
    PROVE  pc' = "next"
<1>1. /\ arr \in Faults /\ queue = <<arr>> /\ ReaderDone(reader[arr]) /\ pc = "dispatch"
      /\ ~reader[arr].abort
  BY ResetDoes DEF ReadInv, NothingLost
<1>2. PICK a \in Faults : a = arr
  BY <1>1
<1>3. reader[a].preset = wrAddr[a]
  BY <1>1, <1>2 DEF ReadInv, ReadoutOK, QueuedOK, InUpdate, Leaving, Past, Late
<1>4. cur.wr = wrAddr[a] /\ cur.wr % EntryUnits = 0
  BY <1>1, <1>2, AlignedSplitsNone DEF ReadInv, LatchOK, OneAtATime
<1> QED BY <1>1, <1>2, <1>3, <1>4, ResetDoes DEF ReadInv

\* No chunk is longer than the ring, or empty.
LEMMA ChunkAccepted ==
    ASSUME ReadInv, NextChunk
    PROVE  pc' # "abort"
<1>1. PICK a \in Faults : a = arr
  BY NextChunkDoes DEF ReadInv
<1>2. pc = "next" /\ arr \in Faults /\ reader[a] \in Readers
  BY <1>1, NextChunkDoes, AtBuffer DEF ReadInv
<1> PICK r : r = reader[a]
  OBVIOUS
<1>3. r \in Readers /\ r.next \in Region /\ r.last \in Region /\ Aligned(r.next) /\ Aligned(r.last)
  BY <1>1, <1>2 DEF ReadInv, InRing, OneAtATime
<1>4. Left(r) \in 1 .. RingEntries /\ Chunk(r).n \in 1 .. Left(r)
  BY <1>3, ChunkIs
<1>5. PICK n : n = Chunk(r).n
  OBVIOUS
<1>6. n \in 0 .. RingEntries
  BY <1>4, <1>5, SizeTyped
<1> QED BY <1>1, <1>5, <1>6, NextChunkDoes DEF ReadInv, Back

\* Without a failed access no step discards a latched fault.
LEMMA NothingLostNext ==
    ASSUME ~IoErrors, ReadInv, NothingLost, [Next]_vars
    PROVE  NothingLost'
<1>1. reader \in [Faults -> Readers]
  BY DEF ReadInv, TypeInv, TypeOK, ReaderOK, Readers
<1>2. CASE UNCHANGED vars
  BY <1>2 DEF vars, sw, NothingLost
<1>3. CASE Firmware
  BY <1>3, FirmwareStamps DEF ReadInv, NothingLost
<1>4. CASE Pending \/ Sleep \/ ReadTs \/ ReadWr \/ ReadFull \/ OtherBuffer \/ Continue
  BY <1>4 DEF Pending, Sleep, ReadTs, ReadWr, ReadFull, OtherBuffer, Continue, Back, sw, NothingLost
<1>5. CASE Preset
  <2>1. \A f \in Faults : reader'[f].abort = reader[f].abort
    BY <1>5, PresetDoes DEF ReadInv
  <2> QED BY <1>5, <2>1 DEF NothingLost, Preset, Back
<1>6. CASE ResetReader
  <2>1. pc' = "next"
    BY <1>6, ResetAccepts
  <2>2. \A f \in Faults : reader'[f].abort => reader[f].abort
    BY <1>6, ResetDoes DEF ReadInv
  <2> QED BY <2>1, <2>2 DEF NothingLost
<1>7. CASE NextChunk
  <2>1. pc' \in {"rearm", "scan"}
    BY <1>7, ChunkAccepted, NextChunkDoes DEF ReadInv, Back
  <2>2. \A f \in Faults : reader'[f].abort => reader[f].abort
    BY <1>7, NextChunkDoes DEF ReadInv
  <2> QED BY <2>1, <2>2 DEF NothingLost
<1>8. CASE LastRearm \/ LastStamp \/ LastAppend
  BY <1>8, LastDoes DEF LastRearm, LastStamp, LastAppend, Back, NothingLost, ReadInv
<1>9. CASE Skip \/ AbortPv \/ AbortReset \/ NextAborted \/ IoError \/ Restart
  BY <1>9, NextAbortedDoes DEF Skip, AbortPv, AbortReset, IoError, Restart, NothingLost, ReadInv
<1> QED BY <1>2, <1>3, <1>4, <1>5, <1>6, <1>7, <1>8, <1>9 DEF Next, Thread

\* A latched buffer is re-armed only after the last chunk of its own readout.
LEMMA OnlyLastUnlatches ==
    ASSUME ~IoErrors, ~ErroneousDone, ~WildWrAddr, ReadInv, NothingLost, [Next]_vars,
           NEW f \in Faults, latched[f], ~latched'[f]
    PROVE  pc = "rearm" /\ arr = f /\ reader[f].ts = tstamp[f]
<1>1. ~(UNCHANGED fw)
  BY DEF fw
<1>2. ~Firmware
  <2> SUFFICES ASSUME Firmware PROVE FALSE
    OBVIOUS
  <2>1. Still(f)
    BY FirmwareLatch DEF ReadInv, LatchOK
  <2> QED BY <2>1 DEF Still
<1>3. LastRearm
  BY <1>1, <1>2, ResetDoes, PresetDoes, NextAbortedDoes, NextChunkDoes
     DEF Next, Thread, vars, Pending, Sleep, ReadTs, ReadWr, ReadFull, OtherBuffer, Continue, Skip,
         LastStamp, LastAppend, AbortPv, AbortReset, IoError, Restart, NothingLost, ReadInv
<1>4. PICK a \in Faults : a = arr
  BY <1>3, AtBuffer DEF LastRearm, ReadInv
<1>5. a = f
  <2>1. Rearmed(a)
    BY <1>3, <1>4 DEF LastRearm
  <2>2. f # a => Still(f)
    BY <2>1, RearmedDoes DEF ReadInv
  <2> QED BY <2>2 DEF Still
<1> QED BY <1>3, <1>4, <1>5 DEF LastRearm, ReadInv, ReadoutOK, LastOK

\* While the firmware is sound and no access throws, no fault that was latched is re-armed
\* before Reader::next has fetched the last chunk of its readout.
THEOREM NoFaultIsDiscarded ==
    WholeEntries /\ ~WildWrAddr /\ ~ErroneousDone /\ ~IoErrors => (Spec => LatchedNotDiscarded)
<1> SUFFICES ASSUME WholeEntries, ~WildWrAddr, ~ErroneousDone, ~IoErrors
             PROVE  Spec => LatchedNotDiscarded
  OBVIOUS
<1>1. Init => NothingLost
  BY DEF Init, NothingLost, NewReader
<1>2. Kept /\ NothingLost => ReadInv
  BY DEF Kept, ReadInv, NothingLost
<1>3. Kept /\ NothingLost /\ [Next]_vars => Kept' /\ NothingLost'
  BY <1>2, KeptNext, NothingLostNext
<1>4. Kept /\ NothingLost /\ [Next]_vars =>
         [\A f \in Faults : latched[f] /\ ~latched'[f] =>
             pc = "rearm" /\ arr = f /\ reader[f].ts = tstamp[f]]_vars
  BY <1>2, OnlyLastUnlatches
<1> QED BY <1>1, <1>3, <1>4, KeptInit, PTL DEF Spec, LatchedNotDiscarded
=============================================================================
