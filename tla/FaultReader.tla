----------------------------- MODULE FaultReader -----------------------------
(***************************************************************************)
(* Readout of the fault buffers (array number HSTARRAY0 and above): the    *)
(* Reader class, the reader queue and the fault branch of                  *)
(* ProcessorImpl::update and abort (Processor.cc), driven by the client's  *)
(* poll loop.  The firmware fills each buffer as a ring until a fault      *)
(* latches it; it then shows the buffer done until it is re-armed by an    *)
(* Init pulse (AmcCarrierBase::reset).  Each update reads at most one      *)
(* chunk of one buffer, and the firmware moves between all of its steps.   *)
(***************************************************************************)
EXTENDS BsaMemory, FiniteSets

CONSTANTS
    Faults,         \* the fault buffers, by array number
    RingEntries,    \* FAULTSIZE = MAXREADOUT: entries in one ring
    ChunkEntries,   \* _nReadout: entries one update reads
    BurstUnits,     \* what the firmware writes between two moves of WrAddr
    MaxUnits,       \* bound: units the firmware writes to one buffer
    MaxFaults,      \* bound: faults latched per buffer
    ErroneousDone,  \* the done bit may rise for a buffer that is not latched
    WildWrAddr,     \* a latched buffer's WrAddr may be out of its region
    IoErrors        \* a register or memory access may throw, and end the client

ASSUME SizeAssumption ==
    /\ BurstUnits \in Nat \ {0}
    /\ RingEntries \in Nat \ {0} /\ ChunkEntries \in 1 .. RingEntries
    /\ MaxUnits \in Nat /\ MaxFaults \in Nat
    /\ {ErroneousDone, WildWrAddr, IoErrors} \subseteq BOOLEAN
    /\ Faults \subseteq Nat /\ IsFiniteSet(Faults)

RingUnits == RingEntries * EntryUnits
\* Fault buffers lie above the standard arrays, so an address is never 0: each
\* is placed here at the same address, in a memory of its own.
Start == RingUnits
End == Start + RingUnits
Region == Start .. End - 1

VARIABLES
    \* per buffer: the firmware's registers, its memory, the latch
    tstamp, wrAddr, full, done, dram, latched,
    \* ghosts, per buffer: units written, and how many when last re-armed
    written, base,
    \* _reader[] and _readerQueue
    reader, queue,
    \* the client's waveforms and their time stamp
    pv, pvTs,
    \* the poll thread
    pc, todo, arr, cur, record

fw    == <<tstamp, wrAddr, full, done, dram, latched, written, base>>
sw    == <<reader, queue>>
client == <<pv, pvTs>>
local == <<todo, arr, cur, record>>
vars  == <<fw, sw, client, pc, local>>

NoCur == [ts |-> 0, wr |-> 0, wrap |-> FALSE]
NewReader == [ts |-> 0, next |-> 0, last |-> 0, preset |-> 0, abort |-> FALSE]

-----------------------------------------------------------------------------
(* The firmware *)

\* One burst into a buffer that is not latched.
FwBurst(f) ==
    LET w == wrAddr[f] IN
    /\ ~latched[f] /\ written[f] + BurstUnits <= MaxUnits
    /\ w + BurstUnits <= End
    /\ dram' = [dram EXCEPT ![f] = [x \in Region |->
                   IF x \in w .. w + BurstUnits - 1
                   THEN UnitAt(f, base[f], written[f] - base[f] + x - w) ELSE @[x]]]
    /\ wrAddr' = [wrAddr EXCEPT ![f] = IF w + BurstUnits = End THEN Start ELSE w + BurstUnits]
    /\ full' = [full EXCEPT ![f] = @ \/ w + BurstUnits = End]
    /\ written' = [written EXCEPT ![f] = @ + BurstUnits]
    /\ UNCHANGED <<tstamp, done, latched, base, sw, client, pc, local>>

\* A fault latches a buffer that holds data: writing stops, done rises, the time
\* stamp (in half seconds, so that one second is two) becomes the fault's.
FwLatch(f) ==
    /\ ~latched[f] /\ written[f] > base[f] /\ tstamp[f] < 4 * MaxFaults
    /\ latched' = [latched EXCEPT ![f] = TRUE]
    /\ done' = [done EXCEPT ![f] = TRUE]
    /\ tstamp' = [tstamp EXCEPT ![f] = @ + 4]
    /\ \E w \in {wrAddr[f]} \cup (IF WildWrAddr THEN {End + EntryUnits} ELSE {}) :
          wrAddr' = [wrAddr EXCEPT ![f] = w]
    /\ UNCHANGED <<full, dram, written, base, sw, client, pc, local>>

\* The done bit rises for a buffer that is still being written.
FwErroneousDone(f) ==
    /\ ErroneousDone /\ ~done[f]
    /\ done' = [done EXCEPT ![f] = TRUE]
    /\ UNCHANGED <<tstamp, wrAddr, full, dram, latched, written, base,
                   sw, client, pc, local>>

\* AmcCarrierBase::reset: an Init pulse rewinds and re-arms the buffer.
Rearmed(f) ==
    /\ wrAddr' = [wrAddr EXCEPT ![f] = Start]
    /\ full' = [full EXCEPT ![f] = FALSE]
    /\ done' = [done EXCEPT ![f] = FALSE]
    /\ latched' = [latched EXCEPT ![f] = FALSE]
    /\ base' = [base EXCEPT ![f] = written[f]]
    /\ UNCHANGED <<tstamp, dram, written>>

-----------------------------------------------------------------------------
(* Reader *)

ReaderDone(r) == r.next = r.last

\* Variant: a chunk may run over the end of the ring.
ChunkNoWrap(r) ==
    LET next == r.next + ChunkEntries * EntryUnits
        toLast == r.next < r.last
    IN  IF next < r.last \/ ~toLast
        THEN [from |-> r.next, to |-> next, n |-> ChunkEntries, nnext |-> next]
        ELSE [from |-> r.next, to |-> r.last, n |-> (r.last - r.next) \div EntryUnits,
              nnext |-> r.last]

\* Variant: the chunk at the end of the ring is taken for the last one.
ChunkStopsAtEnd(r) ==
    LET next == r.next + ChunkEntries * EntryUnits
        limit == IF r.next < r.last THEN r.last ELSE End
    IN  IF next < limit
        THEN [from |-> r.next, to |-> next, n |-> ChunkEntries, nnext |-> next]
        ELSE [from |-> r.next, to |-> limit, n |-> (limit - r.next) \div EntryUnits,
              nnext |-> r.last]

\* The chunk next() reads: [from, to), n entries, and where the next begins.
Chunk(r) ==
    LET next == r.next + ChunkEntries * EntryUnits
        toLast == r.next < r.last
        limit == IF toLast THEN r.last ELSE End
    IN  IF next < limit
        THEN [from |-> r.next, to |-> next, n |-> ChunkEntries, nnext |-> next]
        ELSE [from |-> r.next, to |-> limit, n |-> (limit - r.next) \div EntryUnits,
              nnext |-> IF toLast THEN r.last ELSE Start]

ChunkEntriesOf(f, c) ==
    Entries([i \in 0 .. c.n * EntryUnits - 1 |->
                IF c.from + i \in Region THEN dram[f][c.from + i] ELSE Blank], c.n)

\* A waveform longer than the ring shows what was read too much.
Appended(s, r) ==
    LET t == s \o r  d == RingEntries + 1
    IN  SubSeq(t, IF Len(t) > d THEN Len(t) - d + 1 ELSE 1, Len(t))

-----------------------------------------------------------------------------
(* pending() and the poll loop *)

\* The done bits are read once; the client updates the buffers in order.
Pending ==
    /\ pc = "idle"
    /\ pc' = "scan" /\ todo' = {f \in Faults : done[f]}
    /\ UNCHANGED <<fw, sw, client, arr, cur, record>>

Sleep ==
    /\ pc = "scan" /\ todo = {}
    /\ pc' = "idle"
    /\ UNCHANGED <<fw, sw, client, local>>

\* Leave update(): on to the next array.
Back ==
    /\ pc' = "scan"
    /\ arr' = NoArray /\ cur' = NoCur /\ record' = <<>>

-----------------------------------------------------------------------------
(* update(): state(iarray), then the reader queue decides *)

ReadTs ==
    /\ pc = "scan"
    /\ \E f \in todo :
          /\ \A g \in todo : f <= g
          /\ arr' = f /\ todo' = todo \ {f}
          /\ cur' = [NoCur EXCEPT !.ts = tstamp[f]]
    /\ pc' = "readWr"
    /\ UNCHANGED <<fw, sw, client, record>>

ReadWr ==
    /\ pc = "readWr"
    /\ cur' = [cur EXCEPT !.wr = wrAddr[arr]]
    /\ pc' = "readFull"
    /\ UNCHANGED <<fw, sw, client, todo, arr, record>>

ReadFull ==
    /\ pc = "readFull"
    /\ cur' = [cur EXCEPT !.wrap = full[arr]]
    /\ pc' = "dispatch"
    /\ UNCHANGED <<fw, sw, client, todo, arr, record>>

\* Variant: the WrAddr at which the buffer was queued is not remembered.
PresetForgotten ==
    /\ pc = "dispatch" /\ queue = <<>>
    /\ queue' = <<arr>>
    /\ Back
    /\ UNCHANGED <<fw, client, reader, todo>>

\* No readout is under way: queue this buffer, and remember its WrAddr.
Preset ==
    /\ pc = "dispatch" /\ queue = <<>>
    /\ reader' = [reader EXCEPT ![arr].preset = cur.wr]
    /\ queue' = <<arr>>
    /\ Back
    /\ UNCHANGED <<fw, client, todo>>

\* Variant: the newer buffer takes the front of the queue.
OtherBufferTakes ==
    /\ pc = "dispatch" /\ queue # <<>> /\ Head(queue) # arr
    /\ reader' = [reader EXCEPT ![arr].preset = cur.wr]
    /\ queue' = <<arr>>
    /\ Back
    /\ UNCHANGED <<fw, client, todo>>

\* Variant: the newer buffer is queued behind the one being read.
OtherBufferQueues ==
    /\ pc = "dispatch" /\ queue # <<>> /\ Head(queue) # arr
    /\ queue' = Append(queue, arr)
    /\ Back
    /\ UNCHANGED <<fw, client, reader, todo>>

\* Some other buffer's readout is under way.
OtherBuffer ==
    /\ pc = "dispatch" /\ queue # <<>> /\ Head(queue) # arr
    /\ Back
    /\ UNCHANGED <<fw, sw, client, todo>>

\* Variant: the time stamp of the fault at once.
ProvisionalNow(ts) == ts

\* The time stamp of a readout under way: a second (two half seconds) early.
Provisional(ts) == ts - 2

\* A new fault was latched: reset(), in the order of its tests.
ResetReader ==
    /\ pc = "dispatch" /\ queue # <<>> /\ Head(queue) = arr
    /\ LET r == reader[arr]
           set == [r EXCEPT !.ts = cur.ts, !.last = cur.wr,
                            !.next = IF cur.wrap THEN cur.wr
                                     ELSE IF r.last # 0 THEN r.last ELSE Start]
       IN  /\ ReaderDone(r)
           /\ \/ /\ r.abort
                 /\ reader' = [reader EXCEPT ![arr] =
                                  [r EXCEPT !.next = cur.wr, !.last = cur.wr, !.abort = FALSE]]
                 /\ pc' = "skip" /\ UNCHANGED client
              \/ /\ ~r.abort /\ cur.wr # r.preset
                 /\ pc' = "skip" /\ UNCHANGED <<reader, client>>
              \/ /\ ~r.abort /\ cur.wr = r.preset /\ cur.wr % EntryUnits # 0
                 /\ reader' = [reader EXCEPT ![arr] = set]
                 /\ pc' = "skip" /\ UNCHANGED client
              \/ /\ ~r.abort /\ cur.wr = r.preset /\ cur.wr % EntryUnits = 0
                 /\ reader' = [reader EXCEPT ![arr] = set]
                 /\ pv' = [pv EXCEPT ![arr] = <<>>]
                 /\ pvTs' = [pvTs EXCEPT ![arr] = Provisional(cur.ts)]
                 /\ pc' = "next"
    /\ UNCHANGED <<fw, queue, local>>

\* A previous fault readout is in progress.
Continue ==
    /\ pc = "dispatch" /\ queue # <<>> /\ Head(queue) = arr
    /\ ~ReaderDone(reader[arr])
    /\ pc' = "next"
    /\ UNCHANGED <<fw, sw, client, local>>

\* Variant: the buffer stays at the front of the queue.
SkipKeepsQueue ==
    /\ pc = "skip"
    /\ Rearmed(arr)
    /\ Back
    /\ UNCHANGED <<reader, queue, client, todo>>

\* The wrong done signal: re-arm the buffer and leave the queue.
Skip ==
    /\ pc = "skip"
    /\ Rearmed(arr)
    /\ queue' = Tail(queue)
    /\ Back
    /\ UNCHANGED <<reader, client, todo>>

\* next() of an aborted reader: nothing is read, the readout is over.
NextAborted ==
    /\ pc = "next" /\ reader[arr].abort
    /\ reader' = [reader EXCEPT ![arr].next = reader[arr].last]
    /\ queue' = Tail(queue)
    /\ Back
    /\ UNCHANGED <<fw, client, todo>>

Deliver(r) == pv' = [pv EXCEPT ![arr] = Appended(@, r)]

\* next(): fetch one chunk.  More than MAXREADOUT entries throw; a negative
\* count is such a one, being unsigned.
NextChunk ==
    /\ pc = "next" /\ ~reader[arr].abort
    /\ LET c == Chunk(reader[arr])
       IN  IF c.n \notin 0 .. RingEntries
           THEN pc' = "abort" /\ UNCHANGED <<reader, client, local>>
           ELSE /\ reader' = [reader EXCEPT ![arr].next = c.nnext]
                /\ IF c.nnext = reader[arr].last
                   THEN /\ record' = ChunkEntriesOf(arr, c)
                        /\ pc' = "rearm"
                        /\ UNCHANGED <<client, todo, arr, cur>>
                   ELSE Deliver(ChunkEntriesOf(arr, c)) /\ Back /\ UNCHANGED <<pvTs, todo>>
    /\ UNCHANGED <<fw, queue>>

\* Variant: the buffer is not re-armed.
LastKeepsLatch ==
    /\ pc = "rearm"
    /\ pc' = "stamp"
    /\ UNCHANGED <<fw, sw, client, local>>

\* next(), after the last chunk: re-arm the buffer,
LastRearm ==
    /\ pc = "rearm"
    /\ Rearmed(arr)
    /\ pc' = "stamp"
    /\ UNCHANGED <<sw, client, local>>

\* set the time stamp, and read the done bits to log them;
LastStamp ==
    /\ pc = "stamp"
    /\ pvTs' = [pvTs EXCEPT ![arr] = reader[arr].ts]
    /\ pc' = "append"
    /\ UNCHANGED <<fw, sw, pv, local>>

\* then update() leaves the queue and appends the chunk.
LastAppend ==
    /\ pc = "append"
    /\ Deliver(record)
    /\ queue' = Tail(queue)
    /\ Back
    /\ UNCHANGED <<fw, reader, pvTs, todo>>

-----------------------------------------------------------------------------
(* Exceptions *)

\* abort(): empty the waveforms under the time stamp the buffer has now, and mark
\* the reader if it is the one at the front of the queue;
AbortPv ==
    /\ pc = "abort"
    /\ pv' = [pv EXCEPT ![arr] = <<>>]
    /\ pvTs' = [pvTs EXCEPT ![arr] = tstamp[arr]]
    /\ reader' = IF queue # <<>> /\ Head(queue) = arr
                 THEN [reader EXCEPT ![arr].abort = TRUE] ELSE reader
    /\ pc' = "reset"
    /\ UNCHANGED <<fw, queue, local>>

\* Variant: the hardware is left as it is.
AbortKeepsLatch ==
    /\ pc = "reset"
    /\ Back
    /\ UNCHANGED <<fw, sw, client, todo>>

\* then re-arm the buffer.
AbortReset ==
    /\ pc = "reset"
    /\ Rearmed(arr)
    /\ Back
    /\ UNCHANGED <<sw, client, todo>>

\* The exception is nobody's to catch, and the client ends.
Crash ==
    /\ pc' = "crashed"
    /\ arr' = NoArray /\ cur' = NoCur /\ UNCHANGED todo

\* An access throws: in update()'s try block (an Init pulse, before or after it took
\* effect, the fetch, the done bits that reset() and next() log) that leads to
\* abort(); in pending(), in the state() before the block and in abort() itself
\* nothing catches it.
IoError ==
    /\ IoErrors
    /\ \/ /\ pc \in {"skip", "next", "rearm", "append"}
          /\ pc = "next" => ~reader[arr].abort
          /\ pc' = "abort" /\ UNCHANGED <<todo, arr, cur>>
       \/ /\ pc \in {"idle", "scan", "readWr", "readFull", "abort", "reset"}
          /\ pc = "scan" => todo # {}
          /\ Crash
    /\ \/ pc \in {"skip", "rearm", "reset"} /\ Rearmed(arr)
       \/ UNCHANGED fw
    /\ record' = <<>>
    /\ UNCHANGED <<sw, client>>

\* The client is started again: a new ProcessorImpl, which initializes the
\* hardware (lInit) and so re-arms every buffer; the time stamps stay.
Restart ==
    /\ pc = "crashed"
    /\ wrAddr' = [f \in Faults |-> Start]
    /\ full' = [f \in Faults |-> FALSE] /\ done' = [f \in Faults |-> FALSE]
    /\ latched' = [f \in Faults |-> FALSE] /\ base' = written
    /\ reader' = [f \in Faults |-> NewReader] /\ queue' = <<>>
    /\ pv' = [f \in Faults |-> <<>>] /\ pvTs' = [f \in Faults |-> 0]
    /\ pc' = "idle" /\ todo' = {}
    /\ UNCHANGED <<tstamp, dram, written, arr, cur, record>>

-----------------------------------------------------------------------------

Init ==
    /\ tstamp = [f \in Faults |-> 0] /\ wrAddr = [f \in Faults |-> Start]
    /\ full = [f \in Faults |-> FALSE] /\ done = [f \in Faults |-> FALSE]
    /\ latched = [f \in Faults |-> FALSE]
    /\ dram = [f \in Faults |-> [x \in Region |-> Blank]]
    /\ written = [f \in Faults |-> 0] /\ base = [f \in Faults |-> 0]
    /\ reader = [f \in Faults |-> NewReader] /\ queue = <<>>
    /\ pv = [f \in Faults |-> <<>>] /\ pvTs = [f \in Faults |-> 0]
    /\ pc = "idle" /\ todo = {} /\ arr = NoArray /\ cur = NoCur /\ record = <<>>

Firmware == \E f \in Faults : FwBurst(f) \/ FwLatch(f) \/ FwErroneousDone(f)

Thread ==
    \/ Pending \/ Sleep \/ ReadTs \/ ReadWr \/ ReadFull
    \/ Preset \/ OtherBuffer \/ ResetReader \/ Continue \/ Skip
    \/ NextAborted \/ NextChunk \/ LastRearm \/ LastStamp \/ LastAppend
    \/ AbortPv \/ AbortReset

Next == Firmware \/ Thread \/ IoError \/ Restart

Spec == Init /\ [][Next]_vars

\* The poll loop keeps running while there is a client; nothing is assumed of the
\* firmware, nor that a client that ended is started again.
FairSpec == Spec /\ WF_vars(Thread)
-----------------------------------------------------------------------------
(* Properties *)

Addresses == {Start + i : i \in 0 .. RingUnits + EntryUnits}

FirmwareOK ==
    /\ tstamp \in [Faults -> Nat] /\ wrAddr \in [Faults -> Addresses]
    /\ full \in [Faults -> BOOLEAN] /\ done \in [Faults -> BOOLEAN]
    /\ latched \in [Faults -> BOOLEAN]
    /\ written \in [Faults -> Nat] /\ base \in [Faults -> Nat]
UnitVal == {Blank} \cup [array : Faults, at : Nat, pos : Nat]
EntryVal == {Torn} \cup [array : Faults, at : Nat]
DataOK ==
    /\ dram \in [Faults -> [Region -> UnitVal]]
    /\ pv \in [Faults -> Seq(EntryVal)] /\ record \in Seq(EntryVal)
    /\ \A f \in Faults : Len(pv[f]) <= RingEntries + 1
ReaderOK ==
    /\ reader \in [Faults -> [ts : Nat, next : Nat, last : Nat, preset : Nat, abort : BOOLEAN]]
    /\ queue \in Seq(Faults) /\ Len(queue) <= 1
    /\ pvTs \in [Faults -> Int]
ThreadOK ==
    /\ pc \in {"idle", "scan", "readWr", "readFull", "dispatch", "skip", "next", "rearm",
              "stamp", "append", "abort", "reset", "crashed"}
    /\ todo \in SUBSET Faults
    /\ cur \in [ts : Nat, wr : Nat, wrap : BOOLEAN]
    /\ IF pc \in {"idle", "scan", "crashed"} THEN arr = NoArray ELSE arr \in Faults

\* Every variable has its type.
TypeOK == FirmwareOK /\ DataOK /\ ReaderOK /\ ThreadOK

\* The readout is throttled (RELEASE_NOTES R2.2.0-0.2): the only reader with
\* chunks left to read is the one at the front of the queue.
OneReadout ==
    \A f \in Faults : ~ReaderDone(reader[f]) => queue = <<f>>

\* Every chunk that is fetched lies in the ring and fills exactly the entries it allocated.
ChunkInRegion ==
    pc = "next" /\ ~reader[arr].abort /\ Chunk(reader[arr]).n \in 0 .. RingEntries =>
        LET c == Chunk(reader[arr])
        IN  /\ Start <= c.from /\ c.to <= End /\ c.to - c.from = c.n * EntryUnits

\* The entries of the ring, oldest first, when the writer stands at an entry.
RingOf(f) ==
    LET n == (written[f] - base[f]) \div EntryUnits
    IN  IF full[f] THEN Span(f, base[f], n - RingEntries, n - 1)
        ELSE Span(f, base[f], 0, n - 1)

\* What the waveforms of f hold once the chunk in hand is appended.
Shown(f) == IF arr = f /\ pc = "rearm" THEN Appended(pv[f], record) ELSE pv[f]

\* A latched buffer that wrapped, or was never read before, is re-armed as read
\* only when the waveforms hold its whole ring, oldest entry first, nothing
\* twice, across all chunks.  (A later readout that did not wrap goes on from
\* where the last one ended.)
ReadoutExact ==
    pc = "rearm" /\ latched[arr] /\ (full[arr] \/ base[arr] = 0) => Shown(arr) = RingOf(arr)

\* abort() has stamped the waveforms of f, and not yet re-armed the buffer.
Aborting(f) == pc = "reset" /\ arr = f

\* A time stamp within half a second of the fault's is taken for a complete readout
\* (fltbdone.py:44): as long as the buffer is latched, and so until its last chunk
\* was fetched, the waveforms carry an older one.  Two cases are excepted: within
\* abort() the emptied waveforms carry the fault's time stamp before the buffer is
\* re-armed (Processor.cc:368), and a client that ended there leaves it so.
StampNotEarly ==
    \A f \in Faults :
        latched[f] /\ ~Aborting(f) /\ pc # "crashed" => pvTs[f] < tstamp[f] - 1

\* A latched buffer is not re-armed, and so overwritten, before the last chunk of
\* this fault, and not of an older one, was fetched.
LatchedNotDiscarded ==
    [][\A f \in Faults : latched[f] /\ ~latched'[f] =>
          pc = "rearm" /\ arr = f /\ reader[f].ts = tstamp[f]]_vars

\* Every latched buffer is in the end read or given up, and re-armed, unless an
\* access that nothing guards (in pending(), in state() before update()'s try block,
\* in abort()) ends the client first.
LatchedIsRearmed == \A f \in Faults : latched[f] ~> ~latched[f] \/ pc = "crashed"
=============================================================================
