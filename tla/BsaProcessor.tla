---------------------------- MODULE BsaProcessor ----------------------------
(***************************************************************************)
(* Readout of the standard BSA arrays (array number below HSTARRAY0):      *)
(* ProcessorImpl::pending/update/abort of Processor.cc, the register and   *)
(* DRAM accesses of AmcCarrierBase.cc they make, the poll loop of the      *)
(* client (bsaapp_tst.cc) and, as the environment, the BSA firmware that   *)
(* writes one ring of DRAM per array.  Every register read and write of    *)
(* the software is a step of its own, so the firmware moves between them.  *)
(* Addresses and lengths are in units of the greatest common divisor of    *)
(* the entry size (384 bytes) and the firmware's burst (2048 bytes).       *)
(***************************************************************************)
EXTENDS BsaMemory, FiniteSets

CONSTANTS
    Arrays,         \* the array numbers, a finite set of naturals
    Begin, End,     \* _begin and _end: the region of each array
    BurstUnits,     \* what the firmware writes between two moves of WrAddr
    RingEntries,    \* BSASIZE_U: entries in one ring
    PvDepth,        \* entries a client waveform keeps
    AcqUnits,       \* bound: units the firmware writes in one acquisition
    LastStart,      \* bound: no acquisition starts at or after this time stamp
    IncrementalTs,  \* the firmware moves the time stamp with every burst
    AtEnd,          \* what WrAddr may show at the end of the ring: "end", "begin"
    WildWrAddr,     \* the firmware may put WrAddr out of its region
    IoErrors        \* a register or memory access may throw

ASSUME SizeAssumption ==
    /\ BurstUnits \in Nat \ {0}
    /\ RingEntries \in Nat \ {0} /\ PvDepth \in Nat \ {0}
    /\ AcqUnits \in Nat /\ LastStart \in Nat
    /\ {IncrementalTs, WildWrAddr, IoErrors} \subseteq BOOLEAN
    /\ AtEnd \in (SUBSET {"end", "begin"}) \ {{}}

ASSUME LayoutAssumption ==
    /\ Arrays \subseteq Nat /\ IsFiniteSet(Arrays)
    /\ Begin \in [Arrays -> Nat] /\ End \in [Arrays -> Nat]
    /\ \A a \in Arrays : End[a] = Begin[a] + RingEntries * EntryUnits
    /\ \A a, b \in Arrays : a # b => End[a] <= Begin[b] \/ End[b] <= Begin[a]

RingUnits == RingEntries * EntryUnits
Region(a) == Begin[a] .. (End[a] - 1)
Units == UNION {Region(a) : a \in Arrays}

EntryVal == {Torn} \cup [array : Arrays, at : Nat]

VARIABLES
    \* the firmware's registers and memory
    tstamp, wrAddr, clear, full, dram,
    left,       \* units of the acquisition under way not yet written
    \* ghosts: per array, units ever written, and how many of them when
    \* WrAddr was last rewound
    written, base,
    \* ProcessorImpl: _state, AmcCarrierBase: _record
    state, record,
    \* the client: the waveforms of each array and their time stamp
    pv, pvTs,
    \* the poll thread
    pc, todo, arr, cur, from, snap, seen,
    \* ghosts: per array, the absolute position of state.next, whether the
    \* firmware has overwritten units not read yet, and whether a fetch since the
    \* last rewind found only a part of an entry
    rd, lost, split

fw     == <<tstamp, wrAddr, clear, full, dram, left, written, base>>
client == <<pv, pvTs>>
local  == <<todo, arr, cur, from, snap, seen>>
ghost  == <<rd, lost, split>>
vars   == <<fw, state, record, client, pc, local, ghost>>

NoCur  == [ts |-> 0, wr |-> 0, clear |-> FALSE, nacq |-> 0]
NoSnap == [end |-> 0, full |-> FALSE, at |-> 0]

-----------------------------------------------------------------------------
(* The firmware *)

Rewound(a) ==
    /\ wrAddr' = [wrAddr EXCEPT ![a] = Begin[a]]
    /\ full' = [full EXCEPT ![a] = FALSE]
    /\ base' = [base EXCEPT ![a] = written[a]]

\* A new acquisition: the buffer is rewound, time stamp and clear bit are set.
FwStart(a) ==
    /\ tstamp[a] < LastStart
    /\ Rewound(a)
    /\ tstamp' = [tstamp EXCEPT ![a] = @ + 1]
    /\ clear' = [clear EXCEPT ![a] = TRUE]
    /\ left' = [left EXCEPT ![a] = AcqUnits]
    /\ UNCHANGED <<dram, written, state, record, client, pc, local, ghost>>

Touch(a) == tstamp' = IF IncrementalTs THEN [tstamp EXCEPT ![a] = @ + 1] ELSE tstamp

\* The oldest absolute position the thread still needs of array a: where it
\* will go on, or a ring before that while it fetches the whole ring again.
Needed(a) ==
    IF arr = a /\ pc \in {"getFull", "fill"} /\ snap.end = from
    THEN rd[a] - RingUnits ELSE rd[a]

\* What WrAddr shows when the last units of the ring are written.
EndShown(a) == {IF s = "end" THEN End[a] ELSE Begin[a] : s \in AtEnd}

\* One burst at WrAddr; a burst from the end goes to the beginning.
FwBurst(a) ==
    LET w == IF wrAddr[a] = End[a] THEN Begin[a] ELSE wrAddr[a]
    IN  /\ left[a] >= BurstUnits
        /\ w \in Region(a) /\ w + BurstUnits <= End[a]
        /\ dram' = [x \in Units |-> IF x \in w .. (w + BurstUnits - 1)
                                    THEN UnitAt(a, base[a], written[a] - base[a] + x - w)
                                    ELSE dram[x]]
        /\ \E wr \in IF w + BurstUnits = End[a] THEN EndShown(a) ELSE {w + BurstUnits} :
              /\ wrAddr' = [wrAddr EXCEPT ![a] = wr]
              /\ full' = [full EXCEPT ![a] = @ \/ wr = Begin[a] \/ wrAddr[a] = End[a]]
        /\ written' = [written EXCEPT ![a] = @ + BurstUnits]
        /\ left' = [left EXCEPT ![a] = @ - BurstUnits]
        /\ lost' = [lost EXCEPT ![a] = @ \/ written'[a] - Needed(a) > RingUnits]
        /\ Touch(a)
        /\ UNCHANGED <<clear, base, state, record, client, pc, local, rd, split>>

\* The firmware fault abort() resets for: WrAddr leaves the array's region.
FwWild(a) ==
    /\ WildWrAddr /\ left[a] >= BurstUnits
    /\ \E w \in (Units \cup {End[b] + 1 : b \in Arrays}) \ (Begin[a] .. End[a]) :
          wrAddr' = [wrAddr EXCEPT ![a] = w]
    /\ left' = [left EXCEPT ![a] = @ - BurstUnits]
    /\ Touch(a)
    /\ UNCHANGED <<clear, full, dram, written, base, state, record, client, pc, local, ghost>>

-----------------------------------------------------------------------------
(* The software: helpers *)

\* ArrayState::operator!= : time stamp and write address only.
Differs(ts, wr, a) == ts # state[a].ts \/ wr # state[a].wr

\* A CircularBuffer keeps the newest PvDepth entries.
Newest(s) == SubSeq(s, IF Len(s) > PvDepth THEN Len(s) - PvDepth + 1 ELSE 1, Len(s))

PvReset(a, ts) ==
    /\ pv' = [pv EXCEPT ![a] = <<>>]
    /\ pvTs' = [pvTs EXCEPT ![a] = ts]

\* Leave update(): on to the next pending array.
Back(next) ==
    /\ pc' = next
    /\ arr' = NoArray /\ cur' = NoCur /\ from' = 0 /\ snap' = NoSnap

\* The fetch get() makes of array a, from begin to the write address end:
\* the number of entries, where the next fetch begins, and how many units it
\* reads before and after the wrap.
Fetch(a, begin, end) ==
    IF end <= begin
    THEN LET nb == End[a] - begin + end - Begin[a]
             n  == nb \div EntryUnits
         IN  [n |-> n, next |-> end + EntryUnits * n - nb,
              head |-> End[a] - begin, tail |-> end + EntryUnits * n - nb - Begin[a]]
    ELSE LET n == (end - begin) \div EntryUnits
         IN  [n |-> n, next |-> IF n = 0 THEN end ELSE begin + n * EntryUnits,
              head |-> n * EntryUnits, tail |-> 0]

\* Variant: addresses counted from the beginning of the array.
EntriesRelative(a, begin, n) ==
    LET Addr(i) == (IF begin + i < End[a] THEN begin + i ELSE begin + i - RingUnits) - Begin[a]
    IN  Entries([i \in 0 .. n * EntryUnits - 1 |->
                    IF Addr(i) \in Units THEN dram[Addr(i)] ELSE Blank], n)

\* The entries of that fetch, as they stand in DRAM.
EntriesAt(a, begin, n) ==
    LET Addr(i) == IF begin + i < End[a] THEN begin + i ELSE begin + i - RingUnits
    IN  Entries([i \in 0 .. n * EntryUnits - 1 |->
                    IF Addr(i) \in Units THEN dram[Addr(i)] ELSE Blank], n)

-----------------------------------------------------------------------------
(* pending() *)

PendingTs ==
    /\ pc = "idle"
    /\ pc' = "pending" /\ seen' = tstamp
    /\ UNCHANGED <<fw, state, record, client, todo, arr, cur, from, snap, ghost>>

\* Variant: every array is reported, changed or not.
PendingAll ==
    /\ pc = "pending"
    /\ pc' = "scan" /\ todo' = Arrays
    /\ seen' = [a \in Arrays |-> 0]
    /\ UNCHANGED <<fw, state, record, client, arr, cur, from, snap, ghost>>

PendingWr ==
    /\ pc = "pending"
    /\ pc' = "scan" /\ todo' = {a \in Arrays : Differs(seen[a], wrAddr[a], a)}
    /\ seen' = [a \in Arrays |-> 0]
    /\ UNCHANGED <<fw, state, record, client, arr, cur, from, snap, ghost>>

\* The client updates the pending arrays in ascending order, then sleeps.
Sleep ==
    /\ pc = "scan" /\ todo = {}
    /\ pc' = "idle"
    /\ UNCHANGED <<fw, state, record, client, local, ghost>>

-----------------------------------------------------------------------------
(* update(): state(iarray), one register at a time *)

ReadTs ==
    /\ pc = "scan"
    /\ \E a \in todo :
          /\ \A b \in todo : a <= b
          /\ arr' = a /\ todo' = todo \ {a}
          /\ cur' = [NoCur EXCEPT !.ts = tstamp[a]]
    /\ pc' = "readWr"
    /\ UNCHANGED <<fw, state, record, client, from, snap, seen, ghost>>

ReadWr ==
    /\ pc = "readWr"
    /\ cur' = [cur EXCEPT !.wr = wrAddr[arr]]
    /\ pc' = "readClear"
    /\ UNCHANGED <<fw, state, record, client, todo, arr, from, snap, seen, ghost>>

\* The last register state() reads that update() uses, and update()'s choice.
ReadClear ==
    /\ pc = "readClear"
    /\ IF ~Differs(cur.ts, cur.wr, arr)
       THEN pc' = "unassigned" /\ UNCHANGED <<cur, from, client>>
       ELSE /\ cur' = [cur EXCEPT !.clear = clear[arr], !.nacq = state[arr].nacq]
            /\ IF clear[arr]
               THEN pc' = "ackClear" /\ UNCHANGED <<from, client>>
               ELSE /\ pc' = "getWr"
                    /\ from' = state[arr].next
                    /\ pvTs' = [pvTs EXCEPT ![arr] = cur.ts]
                    /\ UNCHANGED pv
    /\ UNCHANGED <<fw, state, record, todo, arr, snap, seen, ghost>>

\* Variant: a new acquisition is read from where the last one ended.
AckClearNoRewind ==
    /\ pc = "ackClear"
    /\ clear' = [clear EXCEPT ![arr] = FALSE]
    /\ PvReset(arr, cur.ts)
    /\ cur' = [cur EXCEPT !.nacq = 0]
    /\ from' = state[arr].next
    /\ rd' = [rd EXCEPT ![arr] = base[arr]]
    /\ lost' = [lost EXCEPT ![arr] = written[arr] - base[arr] > RingUnits]
    /\ split' = [split EXCEPT ![arr] = FALSE]
    /\ pc' = "getWr"
    /\ UNCHANGED <<tstamp, wrAddr, full, dram, left, written, base,
                   state, record, todo, arr, snap, seen>>

\* Variant: the acknowledgement never reaches the hardware.
AckClearForgotten ==
    /\ pc = "ackClear"
    /\ PvReset(arr, cur.ts)
    /\ cur' = [cur EXCEPT !.nacq = 0]
    /\ from' = Begin[arr]
    /\ rd' = [rd EXCEPT ![arr] = base[arr]]
    /\ lost' = [lost EXCEPT ![arr] = written[arr] - base[arr] > RingUnits]
    /\ split' = [split EXCEPT ![arr] = FALSE]
    /\ pc' = "getWr"
    /\ UNCHANGED <<fw, state, record, todo, arr, snap, seen>>

\* New acquisition: start from the beginning of the circular buffer.
AckClear ==
    /\ pc = "ackClear"
    /\ clear' = [clear EXCEPT ![arr] = FALSE]
    /\ PvReset(arr, cur.ts)
    /\ cur' = [cur EXCEPT !.nacq = 0]
    /\ from' = Begin[arr]
    /\ rd' = [rd EXCEPT ![arr] = base[arr]]
    /\ lost' = [lost EXCEPT ![arr] = written[arr] - base[arr] > RingUnits]
    /\ split' = [split EXCEPT ![arr] = FALSE]
    /\ pc' = "getWr"
    /\ UNCHANGED <<tstamp, wrAddr, full, dram, left, written, base,
                   state, record, todo, arr, snap, seen>>

\* Variant: the write address is not checked.
GetWrUnchecked ==
    /\ pc = "getWr"
    /\ snap' = [end |-> wrAddr[arr], full |-> FALSE, at |-> written[arr]]
    /\ pc' = "getFull"
    /\ UNCHANGED <<fw, state, record, client, todo, arr, cur, from, seen, ghost>>

\* Variant: the time stamp get() reads for the record is the one stored.
GetWrStamp ==
    /\ pc = "getWr"
    /\ LET end == wrAddr[arr]
       IN  IF {from, end} \subseteq Begin[arr] .. End[arr]
           THEN /\ snap' = [end |-> end, full |-> FALSE, at |-> written[arr]]
                /\ pc' = "getFull"
           ELSE pc' = "abort" /\ UNCHANGED snap
    /\ cur' = [cur EXCEPT !.ts = tstamp[arr]]
    /\ UNCHANGED <<fw, state, record, client, todo, arr, from, seen, ghost>>

\* get(): the bounds of the fetch.  A throw leads to abort().
GetWr ==
    /\ pc = "getWr"
    /\ LET end == wrAddr[arr]
       IN  IF {from, end} \subseteq Begin[arr] .. End[arr]
           THEN /\ snap' = [end |-> end, full |-> FALSE, at |-> written[arr]]
                /\ pc' = "getFull"
           ELSE pc' = "abort" /\ UNCHANGED snap
    /\ UNCHANGED <<fw, state, record, client, todo, arr, cur, from, seen, ghost>>

\* get(): the wrap flag, and the traps that use it.
GetFull ==
    /\ pc = "getFull"
    /\ snap' = [snap EXCEPT !.full = full[arr]]
    /\ pc' = IF \/ snap.end <= from /\ ~full[arr]
                \/ Fetch(arr, from, snap.end).n > RingEntries
             THEN "abort" ELSE "fill"
    /\ UNCHANGED <<fw, state, record, client, todo, arr, cur, from, seen, ghost>>

\* Variant: the state stored carries the time stamp after the fetch.
DeliverLate(r, next) ==
    LET n == cur.nacq + Len(r)
    IN  /\ record' = r
        /\ pv' = [pv EXCEPT ![arr] = Newest(@ \o r)]
        /\ state' = [state EXCEPT ![arr] =
                        [ts |-> tstamp[arr], wr |-> wrAddr[arr], next |-> next, nacq |-> n]]
        /\ UNCHANGED pvTs

\* Variant: the entries are counted off.
DeliverCountdown(r, next) ==
    LET n == cur.nacq - Len(r)
    IN  /\ record' = r
        /\ pv' = [pv EXCEPT ![arr] = Newest(@ \o r)]
        /\ state' = [state EXCEPT ![arr] = [ts |-> cur.ts, wr |-> cur.wr, next |-> next, nacq |-> n]]
        /\ UNCHANGED pvTs

\* update()'s tail: append a record to the waveforms and store the state.
Deliver(r, next) ==
    LET n == cur.nacq + Len(r)
    IN  /\ record' = r
        /\ pv' = [pv EXCEPT ![arr] = Newest(@ \o r)]
        /\ state' = [state EXCEPT ![arr] = [ts |-> cur.ts, wr |-> cur.wr, next |-> next, nacq |-> n]]
        /\ UNCHANGED pvTs

\* get(): fetch the DRAM.  A fetch of no entry leaves the shared record as the
\* last fetch of any array left it, and still moves next, into the entry.
Fill ==
    /\ pc = "fill"
    /\ LET f == Fetch(arr, from, snap.end)
           part == f.n = 0 /\ snap.end > from
       IN  /\ Deliver(IF part THEN record ELSE EntriesAt(arr, from, f.n), f.next)
           /\ rd' = [rd EXCEPT ![arr] = snap.at - (snap.end - f.next)]
           /\ split' = [split EXCEPT ![arr] = @ \/ part]
    /\ Back("scan")
    /\ UNCHANGED <<fw, todo, seen, lost>>

\* update() of an array that has not changed since the last update: record was
\* never assigned.  It is a wild pointer, or the one the last call left there.
Unassigned ==
    /\ pc = "unassigned"
    /\ \/ Back("crashed") /\ UNCHANGED <<state, record, client>>
       \/ Back("scan") /\ Deliver(record, 0)
    /\ UNCHANGED <<fw, todo, seen, ghost>>

-----------------------------------------------------------------------------
(* abort() *)

AbortPv ==
    /\ pc = "abort"
    /\ PvReset(arr, tstamp[arr])
    /\ pc' = "reset"
    /\ UNCHANGED <<fw, state, record, local, ghost>>

AbortReset ==
    /\ pc = "reset"
    /\ Rewound(arr)
    /\ state' = [state EXCEPT ![arr].next = Begin[arr]]
    /\ rd' = [rd EXCEPT ![arr] = written[arr]]
    /\ lost' = [lost EXCEPT ![arr] = FALSE] /\ split' = [split EXCEPT ![arr] = FALSE]
    /\ Back("scan")
    /\ UNCHANGED <<tstamp, clear, dram, left, written, record, client, todo, seen>>

\* vector::resize keeps the entries there are and adds zeroed ones.
Resized(n) == [i \in 1 .. n |-> IF i <= Len(record) THEN record[i] ELSE Torn]

\* An access throws: inside update()'s try block that leads to abort(), with
\* the record already resized when the DRAM fetch fails; elsewhere the
\* exception leaves the processor and ends the client.
IoError ==
    /\ IoErrors
    /\ \/ /\ pc \in {"ackClear", "getWr", "getFull", "fill"}
          /\ pc' = "abort"
          /\ clear' \in IF pc = "ackClear" THEN {clear, [clear EXCEPT ![arr] = FALSE]} ELSE {clear}
          /\ record' = IF pc = "fill" THEN Resized(Fetch(arr, from, snap.end).n) ELSE record
          /\ UNCHANGED local
       \/ /\ pc \in {"idle", "pending", "scan", "readWr", "readClear", "abort", "reset"}
          /\ pc = "scan" => todo # {}
          /\ Back("crashed")
          /\ UNCHANGED <<clear, record, todo, seen>>
    /\ UNCHANGED <<tstamp, wrAddr, full, dram, left, written, base, state, client, ghost>>

\* The client is started again: a new ProcessorImpl, which initializes the
\* hardware (lInit): every array is rewound, time stamps and clear bits stay.
Restart ==
    /\ pc = "crashed"
    /\ wrAddr' = Begin /\ full' = [a \in Arrays |-> FALSE] /\ base' = written
    /\ state' = [a \in Arrays |-> [ts |-> 0, wr |-> 0, next |-> Begin[a], nacq |-> 0]]
    /\ record' = <<>>
    /\ pv' = [a \in Arrays |-> <<>>]
    /\ pvTs' = [a \in Arrays |-> 0]
    /\ rd' = written
    /\ lost' = [a \in Arrays |-> FALSE] /\ split' = [a \in Arrays |-> FALSE]
    /\ Back("idle") /\ todo' = {} /\ seen' = [a \in Arrays |-> 0]
    /\ UNCHANGED <<tstamp, clear, dram, left, written>>

-----------------------------------------------------------------------------

Init ==
    /\ tstamp = [a \in Arrays |-> 0] /\ wrAddr = Begin
    /\ clear = [a \in Arrays |-> FALSE] /\ full = [a \in Arrays |-> FALSE]
    /\ dram = [x \in Units |-> Blank]
    /\ left = [a \in Arrays |-> 0]
    /\ written = [a \in Arrays |-> 0] /\ base = [a \in Arrays |-> 0]
    /\ state = [a \in Arrays |-> [ts |-> 0, wr |-> 0, next |-> Begin[a], nacq |-> 0]]
    /\ record = <<>>
    /\ pv = [a \in Arrays |-> <<>>] /\ pvTs = [a \in Arrays |-> 0]
    /\ pc = "idle" /\ todo = {} /\ arr = NoArray /\ cur = NoCur /\ from = 0
    /\ snap = NoSnap /\ seen = [a \in Arrays |-> 0]
    /\ rd = [a \in Arrays |-> 0]
    /\ lost = [a \in Arrays |-> FALSE] /\ split = [a \in Arrays |-> FALSE]

Firmware == \E a \in Arrays : FwStart(a) \/ FwBurst(a) \/ FwWild(a)

Thread ==
    \/ PendingTs \/ PendingWr \/ Sleep
    \/ ReadTs \/ ReadWr \/ ReadClear \/ AckClear
    \/ GetWr \/ GetFull \/ Fill \/ Unassigned
    \/ AbortPv \/ AbortReset \/ Restart

Next == Firmware \/ Thread \/ IoError

Spec == Init /\ [][Next]_vars

\* The poll loop keeps running (while(1) in bsaapp_tst.cc); nothing is assumed
\* of the firmware.
FairSpec == Spec /\ WF_vars(Thread)

-----------------------------------------------------------------------------
(* Properties *)

\* No call of update() on array a is under way.
AtRest(a) == arr # a /\ pc # "crashed"

RegistersOK ==
    /\ tstamp \in [Arrays -> Nat] /\ wrAddr \in [Arrays -> Nat]
    /\ clear \in [Arrays -> BOOLEAN] /\ full \in [Arrays -> BOOLEAN]
CountersOK ==
    /\ left \in [Arrays -> Nat] /\ written \in [Arrays -> Nat] /\ base \in [Arrays -> Nat]
    /\ rd \in [Arrays -> Int]
    /\ lost \in [Arrays -> BOOLEAN] /\ split \in [Arrays -> BOOLEAN]
UnitVal == {Blank} \cup [array : Arrays, at : Nat, pos : Nat]
DataOK ==
    /\ dram \in [Units -> UnitVal]
    /\ state \in [Arrays -> [ts : Nat, wr : Nat, next : Int, nacq : Nat]]
    /\ record \in Seq(EntryVal)
    /\ pv \in [Arrays -> Seq(EntryVal)] /\ pvTs \in [Arrays -> Nat]
ThreadOK ==
    /\ pc \in {"idle", "pending", "scan", "readWr", "readClear", "ackClear", "getWr",
               "getFull", "fill", "unassigned", "abort", "reset", "crashed"}
    /\ todo \in SUBSET Arrays
    /\ cur \in [ts : Nat, wr : Nat, clear : BOOLEAN, nacq : Nat]
    /\ from \in Int /\ snap \in [end : Nat, full : BOOLEAN, at : Nat]
    /\ seen \in [Arrays -> Nat]
    /\ IF pc \in {"idle", "pending", "scan", "crashed"}
       THEN arr = NoArray ELSE arr \in Arrays

\* Every variable has its type.
TypeOK == RegistersOK /\ CountersOK /\ DataOK /\ ThreadOK

\* A new acquisition is never hidden: while an array's clear bit is up and its
\* update is not under way, its time stamp still differs from the stored one, so
\* pending() reports it.  It rests on state() reading the time stamp before the
\* clear bit, with the firmware free to start an acquisition in between.
NewAcqVisible ==
    \A a \in Arrays : AtRest(a) /\ clear[a] => state[a].ts < tstamp[a]

\* update() never reaches its tail with record unassigned: whatever pending()
\* reported still differs when update() reads the registers again.
RecordAssigned == pc # "unassigned"

\* Every fetch stays in its array's region and reads no more than a ring, wherever
\* the firmware put WrAddr.  One that begins at an entry also fills exactly the
\* entries it allocated and leaves next in the region; one that begins inside an
\* entry may copy up to an entry more than it allocated.
FetchInRegion ==
    pc = "fill" =>
        LET f == Fetch(arr, from, snap.end)
        IN  /\ f.n \in 0 .. RingEntries
            /\ f.head >= 0 /\ Begin[arr] <= from /\ from + f.head <= End[arr]
            /\ f.tail > 0 => from + f.head = End[arr] /\ Begin[arr] + f.tail <= End[arr]
            /\ f.head < (f.n + 1) * EntryUnits /\ f.head + f.tail = f.n * EntryUnits
            /\ (from - Begin[arr]) % EntryUnits = 0 =>
                   f.tail >= 0 /\ f.next \in Begin[arr] .. End[arr]

\* Between updates the waveforms of an array hold exactly the newest entries of
\* its acquisition, whole, in order, none skipped or repeated, up to the place
\* the next fetch begins; unless a new acquisition waits to be acknowledged, the
\* firmware has lapped the reader, or a fetch found only a part of an entry (and
\* appended what the last fetch left).  Bursts may end inside an entry.
PvIsNewest ==
    \A a \in Arrays : AtRest(a) /\ ~clear[a] /\ ~lost[a] /\ ~split[a] =>
        LET n == (rd[a] - base[a]) \div EntryUnits
            k == IF n < PvDepth THEN n ELSE PvDepth
        IN  pv[a] = Span(a, base[a], n - k, n - 1)

\* No lost wake-up: when pending() has nothing to report for an array, all that
\* the firmware wrote has been fetched or discarded, no new acquisition waits,
\* and the waveforms carry the hardware's time stamp.
SettledMeansDelivered ==
    \A a \in Arrays : AtRest(a) /\ ~Differs(tstamp[a], wrAddr[a], a) =>
        rd[a] + EntryUnits > written[a] /\ ~clear[a] /\ pvTs[a] = tstamp[a]

\* Every new acquisition is acknowledged, whatever the firmware does meanwhile.
NewAcqAcked == \A a \in Arrays : clear[a] ~> ~clear[a]

\* Every unit the firmware writes is in the end fetched, or discarded with its
\* acquisition.
WrittenIsRead ==
    \A a \in Arrays, n \in {BurstUnits * i : i \in 1 .. LastStart + (AcqUnits \div BurstUnits)} :
        written[a] >= n ~> rd[a] + EntryUnits > n

\* Processor.hh:112: update() of one BSA buffer shows that buffer's entries.
PvFromOwnArray ==
    \A a \in Arrays : \A i \in 1 .. Len(pv[a]) : pv[a][i].array \in {a, NoArray}

\* Processor.cc:350: an acquisition is aborted only when something bad happened.
\* Nothing has while WrAddr stays in its region, accesses succeed, no new
\* acquisition started and the reader keeps up: data shown are not thrown away.
HealthyNotAborted ==
    pc = "abort" /\ ~clear[arr] /\ ~lost[arr] => pv[arr] = <<>>
=============================================================================
