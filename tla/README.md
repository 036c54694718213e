# Formal models of timing_bsa

`timing_bsa` is the client library of a beam-synchronous acquisition (BSA)
system.  Firmware on a carrier board writes statistics of every beam pulse into
rings of DRAM, one ring per *array*; the library maps the board's registers,
notices which rings have moved, copies the new entries out and appends them to
the waveforms of a client (an EPICS IOC, or the test client `bsaapp_tst`).
This directory holds TLA+ models of that software and of the firmware it races
with, TLC configurations for small instances, and TLAPS proofs for all of them.

Source lines are given relative to the repository root.

## 1. Inventory

| Part | Source | State it keeps | Operations | Modelled |
|---|---|---|---|---|
| Standard array readout | `src/Processor.cc` (`ProcessorImpl`), `src/AmcCarrierBase.cc` (`get`, `state`, `ackClear`, `reset`) | `_state[]` (time stamp, WrAddr, next, nacq), the shared `_record` | `pending`, `update`, `abort`, constructor | `BsaProcessor` |
| Fault buffer readout | `src/Processor.cc` (`Reader`, `_reader[]`, `_readerQueue`) | per buffer `_start _end _next _last _preset _abort`, queue of at most one buffer | `preset`, `reset`, `next`, `abort`, fault branch of `update` | `FaultReader` |
| DRAM layout, waveform capture | `AmcCarrierBase::initialize`, `AmcCarrier::initRaw`, `AmcCarrierYaml::initializ_ rearm clear doneRaw ring` | `_begin _end _memEnd`, the buffer registers | layout of arrays, allocation, re-arm, done | `BsaLayout`, `BsaTool` |
| Command line client | `src/bsa_tst.cc` | none but registers and files | initialize, dump and re-arm a waveform, fetch and clear arrays | `BsaTool` |
| Poll loop client | `src/bsaapp_tst.cc` | waveforms (`CircularBuffer`), their time stamp | `pending` → `update` of each → sleep; `reset`, `append`, `set`, `flush` | the loop in the readout modules, the waveforms in `ClientBuffer` |
| Acquisition control | `AmcCarrier::start poll`, the callback of `src/bsa_tst.cc` | the completion register of all arrays | start, poll with write-one-to-clear | `AcqControl` |
| Rate and destination encoders | `src/BsaDefs.cc`, `src/BsasYaml.cc`, `src/AcqServiceYaml.cc`, `AmcCarrier::start` | none | bit fields | `SelectionCodes` |
| Entry statistics | `ChannelData`, `Entry` in `src/BsaDefs.*` | none | count, sums, flags; mean, variance | words and NAN conditions in `EntryWords` |
| BSSS/BLD/BSAS service control | `src/AcqServiceYaml.cc`, `BsssYaml.cc`, `BldYaml.cc`, `BsasYaml.cc` | registers | channel masks by read-modify-write, event definitions, type guards | `ServiceControl` |
| BLD packet receiver | `src/bld_control.cc` | counters shared by threads, enable register | enable/disable, signal handler, reports, event iterator | `BldControl` |
| UDP sender | `src/socketAPI.cc` | socket handle | init, send, release | `SocketSender` |
| Timing stream monitor | `src/tpr_stream.cc` | counters, last pulse id | read, check, report, signal handler | `TprStream` |
| Register maps | `src/RamControl.* TPG.* TPGMini.* Cpsw*.hh BsaField.hh ProcessorT.hh` | none | offsets | no: declarative |
| Diagnostic tools, scripts | `src/bsapeek.cc cpsw_*.cc cpu_tst.cc yaml_tst.cc bsayaml_tst.cc`, `scripts/` | none | print | no: they read and print |

How the parts interact.  One thread calls `pending()`, which reads two vectors
of registers (time stamps, then write addresses) and reports the arrays that
differ from `_state[]`.  For each of them, in ascending order, it calls
`update()`, which reads that array's registers again one by one, acknowledges a
new acquisition, fetches DRAM between its stored `next` and the write address
it reads *again*, and appends the entries to the client's waveforms.  The
firmware moves all of these registers and the memory at any time: there is no
lock, only an order of reads.  Fault buffers (number `HSTARRAY0` and above)
take another branch: the firmware stops writing when a fault latches the
buffer, and the software reads one buffer at a time, a chunk per poll, and
re-arms it.  Any register or memory access may throw; inside `update()`'s `try`
that leads to `abort()`, outside it ends the client.

What is hard here is the order of unsynchronised reads, the addresses at which
ring, entry and burst boundaries meet, and the state left by an exception.
`PROJECT.json` lists these under `hazards`, each at the line where it bites.
What makes each part correct:

* standard readout: no acquisition and no entry is missed or shown twice; what
  is shown for an array is that array's; a fetch stays in its region; abort
  restores a readable state;
* fault readout: one readout at a time, each chunk in the ring, the waveform
  after a readout is the ring as it was latched, no latched buffer is re-armed
  unread, none stays latched for ever;
* layout: no two buffers share memory, across repeated, interrupted and fresh
  initialisations;
* command line client: a file holds one acquisition, and what was reported done
  is not cleared before it was put out;
* client waveforms: the newest values since the last clear, in order, all
  waveforms of an array row by row;
* acquisition control: a client leaves its poll loop if and only if its own
  acquisition has completed, and no completion is lost;
* services: a channel is set as last asked, although it shares its word with the
  others; selection words: every field comes back as it was given;
* BLD receiver: a process that ends leaves the stream disabled, and unpacks whole
  events only;
* sender and monitor: a datagram leaves on the socket that was opened for it;
  what is not reported was contiguous.

The small programs (acquisition control, services, sender, waveforms, monitor)
share no state with each other in the models: each is a component of its own
that meets the others only through hardware or through the calls its module
describes.

## 2. Modules

| Module | Purpose |
|---|---|
| `BsaMemory` | units of DRAM, and the entries a fetch assembles from units (shared by the readout modules) |
| `BsaProcessor` | standard arrays: firmware, poll thread, client waveforms; its properties |
| `MCBsaProcessor` | instances: one or two arrays laid out back to back |
| `FaultReader` | fault buffers: firmware, reader, queue, client waveforms; its properties |
| `BsaLayout` | address layout and allocation; its properties |
| `BldControl` | the BLD packet receiver, its threads and signals; its properties |
| `BsaTool` | `BsaLayout` with processes of `bsa_tst` and of another program over it, and the firmware that fills the buffers |
| `NewestWindow` | abstract: what a waveform promises its reader |
| `ClientBuffer` | the client's waveforms as stored; implements `NewestWindow` |
| `AcqControl` `ServiceControl` `SocketSender` `TprStream` | the small components of these names |
| `MCParts` | instances of the last five, one of which runs at a time |
| `SelectionCodes` `EntryWords` | the encoders and decoders of register and entry words, as operators |
| `PartsProofs` | the safety of the five small components, and the refinement of `NewestWindow` |
| `BldControlProofs` | the safety of the BLD receiver |
| `SelectionCodesProofs` | what is decoded is what was encoded |
| `MemoryLemmas` | facts on products, quotients and sequences, and on `BsaMemory`'s units and entries |
| `BsaProcessorTypes` | type correctness of `BsaProcessor` |
| `BsaProcessorProofs` | its five other safety properties |
| `FaultReaderProofs` | types, safety and the action property of `FaultReader` |
| `BsaLayoutProofs` | the layout, and what `BsaTool` adds to it |

The two readout modules are separate because the code keeps them apart: they
share the poll loop, `BsaMemory`'s units, and nothing of their state except the
record pointer, which a fault update always assigns.  Both run over memory that
`BsaLayout` lays out: the assumption `LayoutAssumption` of `BsaProcessor`
(regions of `RingEntries` whole entries that do not overlap) is what
`BsaLayout!ArraysDisjoint` establishes.

Definitions marked "Variant" in a comment are plausible wrong versions of the
definition that follows them.  No specification uses them; substituting one for
its original makes TLC report the property that guards against it.

### `BsaProcessor` and the code

| Model | Code |
|---|---|
| `tstamp wrAddr clear full` | registers TimeStamp, WrAddr, AckClear status, Full of each array |
| `dram` | DRAM, in units; a unit records which position of which array the firmware wrote there |
| `state` | `ProcessorImpl::_state` |
| `record` | `AmcCarrierBase::_record.entries`, the one record all arrays share |
| `pv`, `pvTs` | the client's circular buffers and their time stamp |
| `pc todo arr cur from snap seen` | the poll thread: where it is, the pending arrays left, `update()`'s `current`, `begin`, `end` and `wrap` |
| `written base rd lost split` | ghosts: units ever written, written when last rewound, position of `next`, lapped by the firmware, a fetch found only a part of an entry |

`PendingTs`, `PendingWr`: the two vector reads of `state()` and the comparison
by `ArrayState::operator!=` (time stamp and WrAddr, nothing else).  `ReadTs`,
`ReadWr`, `ReadClear`: `state(iarray)`'s reads in the order of the code, the
last with `update()`'s choice of branch.  `AckClear`: the branch of a new
acquisition.  `GetWr`, `GetFull`, `Fill`: `get()` with its traps; `Fill` also
does `update()`'s tail.  `Unassigned`: the path on which `record` was never
assigned (`src/Processor.cc:253`), which may crash or use the record of an
earlier call.  `AbortPv`, `AbortReset`: `abort()`, with the reset.  `IoError`:
any access throws.  `Restart`: a new client with `lInit`.

The firmware is not in the repository.  It is modelled from what the software
relies on: an acquisition start rewinds the buffer, sets a new time stamp and
the clear bit (`FwStart`); a burst writes at WrAddr and moves it, wraps at the
end and raises the wrap flag (`FwBurst`; whether WrAddr shows the end or the
beginning at the wrap is left open); `FwWild` puts WrAddr where `get()` checks
that it is not.

### `FaultReader` and the code

`Preset`, `OtherBuffer`, `ResetReader`, `Continue`, `Skip` are the branches of
`update()` for fault buffers (`src/Processor.cc:293-333`); `NextAborted`,
`NextChunk` are `Reader::next`, whose end is three steps, `LastRearm`, `LastStamp`
and `LastAppend` (the last with `update()`'s tail).  `AbortPv` and `AbortReset` are
`ProcessorImpl::abort` for a fault buffer: waveforms and reader, then the hardware.
`IoError` is an exception of any access: inside the `try` block it leads to
`abort()`; in `pending()`, in the `state()` before the block
(`src/Processor.cc:251`) and in `abort()` itself it ends the client (`Crash`), which
may be started again (`Restart`).  A buffer is latched by `FwLatch`;
`FwErroneousDone` is the case the comment at `src/Processor.cc:301` names.  The
provisional time stamp (one second early, `src/Processor.cc:309`) is modelled as a
smaller stamp, `ts - 2` for stamps that are even.

### `BsaLayout` and the code

`StartInitialize`, `InitializeArray` (one iteration of either loop: the
registers of one array are enabled while others still are not),
`EndInitialize`; `RawStart`, `RawEnd`, `RawEnable`, `RawInit`: the writes of
`AmcCarrier::initRaw` and `AmcCarrierYaml::initializ_` to a register that may be
enabled already, the last with `_memEnd`; `RawThrow`: one of them throws; and
`Recreate`: a new object over registers the old one left as they were.  `owed` is the
write each register is waiting for since its last set-up.

### `BldControl` and the code

| Model | Code |
|---|---|
| `enable` | register `BldAxiStream/Enable`; at the start as the last process left it |
| `disp blocked frames` | signal dispositions (`SA_RESETHAND`), `sa_mask`, which `main()` never initializes and is therefore any set, and the handlers that interrupt each thread |
| `sock dgram at got` | datagrams in the socket; the one being unpacked, the iterator's `_next`, the events seen |
| `count event bytes` | the statics both threads use |
| `rep seen shown` | `countThread()`: counters left to read in this round, those read, the last report |

`Install` to `Abort` are `main()` in order; `Read`, `Bytes`, `Event` its loops.
`Report` reads one counter, or the last one and prints.  `HandlerDisable` and
`HandlerExit` are `sigHandler()` on the thread it interrupts, which stands still
meanwhile while the other runs on. An access that throws in `main()` or out of the
handler has no catch block: `terminate()` aborts, which is SIGABRT on the same
thread.  A word of a datagram is the event and field it belongs to; `Unpack` says
which words the iterator takes, and `EventsExact` compares them with the firmware's
packing.  The firmware (`Send`) sends datagrams of any number of events while
enabled; UDP loses some; `read()` cuts off what exceeds the buffer, between two
events or inside one.  `Channels` is the set of how many channels a datagram may
have.  An interrupt is delivered to either thread.  One assumption is a constant:
`InOrder`, the build keeps the order of the three counter reads (they are plain
integers).  The ghost `early` says that the report thread took an interrupt before
`main()` had enabled the stream.  Left out are the display of `lanes`, the message
on pulse id changes, SIGSEGV, where the iterator stores a channel's word (section
7), and the locks of the libraries that the handler uses on the thread it
interrupted: it may stop there for ever, and no fairness says otherwise.

### `BsaTool` and the code

One process after the other (`Start` to `Exit`), each the main program of
`bsa_tst.cc` in its order: `ToolInitialize` and `ToolInitRaw` are `-i`, `Diag`, `Dump`,
`Rearm` are `-d`, `ToolDone` is the one look at `done()`, `Get`, `Fill`, `Clear` the loop
over the arrays.  `Put` is where what was read goes: with `-f` to a file, whose
writes may fail unnoticed (`src/bsa_tst.cc:307`), without it to the terminal.  `Strobe`
is the pulse of Init with which the engine takes over a buffer's addresses
(`region`).  Registers, memory and files outlive the process; `_begin`,
`_memEnd` do not (`Recreate`).  `ndiag` is one variable for two options in the code,
and in the model.  `Get` ends the process without `-i` (an index into an empty
vector) and without data (`get()` throws).  The exit after `delete record` of a
member (`src/bsa_tst.cc:313`) is `Killed`.  `OtherStep` is any other program that
lays out memory through the same library.  The waveform engine writes a buffer
once (`doneWhenFull`), the arrays are written round and round.

### `ClientBuffer`, `NewestWindow`

`buf[w]` is a `CircularBuffer` with its doubled vector; a vector starts as zeros
and `clear()` sets the size only.  `Update` is the choice `update()` makes (how
many entries, cleared first or not, aborted or not), `ResetWave`, `AppendPid`,
`AppendChannel` its callbacks, one at a time, `Return` the client's test of the result,
`Flush` the check of the pulse ids by each channel.  Of an entry the pulse id
stands for all its data.  One assumption restricts `Update`: after a clear at
least one entry is appended unless the update is aborted; a burst (2 kB) is
longer than an entry (384 bytes) and `get()` throws on an empty ring, so a
fetch from the beginning of a ring finds one.  `ShowsNewest` is the
refinement: `INSTANCE NewestWindow WITH win <- [w |-> Contents(buf[w])]`.

### The other small components

| Model | Code |
|---|---|
| `AcqControl`: `cmpl` | register `BsaComplete`, one bit per array, write one to clear |
| `cpc cval` | where a client is in `start()` or `poll()`, the `cmpl` it has read |
| `ServiceControl`: `field` | the words `channelMask` and `channelSevr`, by channel |
| `call[t].word` | the local copy of a thread in a read-modify-write; `since` is what was written meanwhile |
| `Refused`, `Created` | the guards `BLD_ONLY` and `BSSS_ONLY`, the registers the constructors create |
| `wild` | a setter was called with a `chn` beyond these, which nothing checks: undefined from there on |
| `SocketSender`: `owner` | the kernel's descriptors, which it gives out lowest first |
| `step failed` | how far `_init` is; its result, which the constructor drops |
| `TprStream`: `count bytes opid buff` | the statics and locals of `tpr_stream.cc` |
| `skipped` | ghost: how many pulses lie between the last datagram and the one before |

`ServiceControl` lets a register write that throws have had its effect or not, of
channel words as of event definitions.
`ghost` variables only record history; no guard reads one.

In `SelectionCodes` and `EntryWords` a word is the set of the positions of its 1
bits, so that OR, AND with a mask and shift are union, intersection and
translation, for the provers too.  These two have no state and no run: what
they say is proved.

## 3. Runs

Runs that must hold:

| Run | Question | Properties |
|---|---|---|
| `standard_one` | one array of the repository's sizes, everything that can happen to it: bursts that split entries, laps, wild WrAddr, exceptions at every access, aborts, restarts | `TypeOK RecordAssigned FetchInRegion PvIsNewest SettledMeansDelivered` |
| `standard_two` | two arrays sharing thread and record, bursts that split entries | `PvIsNewest` |
| `standard_live` | does everything arrive in the end (no access errors) | `NewAcqAcked WrittenIsRead` |
| `standard_oldfw` | firmware that stamps acquisitions only, bursts that split entries | `NewAcqVisible` |
| `fault_readout` | two buffers latched twice, chunked readout | `TypeOK OneReadout ChunkInRegion ReadoutExact StampNotEarly LatchedNotDiscarded` |
| `fault_recovers` | one buffer with erroneous done bits, split or wild WrAddr, an exception at any access | `StampNotEarly LatchedIsRearmed` |
| `bsa_tool` | any sequence of processes over one carrier, with a firmware that does not wait for them | `ArraysDisjoint WavesDisjoint EnabledDisjoint CapturesDisjoint DumpIsOneCapture FetchIsNewest SavedBeforeDiscard` |
| `parts` | the five small components, each on its own | acquisition: `LeavesWhenDone CompletionNotLost PollEnds`; services: `FieldsAsAsked`; sender: `OwnDescriptor`; waveforms: `ShowsNewest RowsAligned FlushInBounds FlushJudgesWindow`; monitor: `SilenceMeansContiguous BytesNotBehind` |
| `bld_receiver` | interrupts on either thread at any time, failing accesses, lost and cut-off datagrams | `TypeOK EndsDisabled EventsExact ReportConsistent` |

Runs that show a disagreement between the code and what it says of itself
(the quotation is in `PROJECT.json`, `findings`):

| Run | Shown |
|---|---|
| `abort_healthy` | A burst between `state()`'s and `get()`'s read of WrAddr is fetched, but the older WrAddr is stored. The next poll sees a difference, finds nothing to read, takes that for an error and throws the whole acquisition away, in hardware and in the waveforms. |
| `foreign_entries` | A fetch of less than one entry returns the shared record as it was, of whichever array, and `update()` appends it. It also leaves `next` inside an entry. |
| `fault_wedged` | After an exception in a fault readout the aborted buffer stays at the head of the queue while its done bit is gone: no other buffer is read until it latches again. |

## 4. Bounds, and why they are enough

Units are the greatest common divisor of entry (384 bytes) and burst (2 kB,
`src/AmcCarrierBase.cc:62`).  A burst of that size ends inside an entry, and so do
the bursts of all standard runs but `abort_healthy`, which needs no such thing.
`standard_one` has the very sizes, 3 and 16 units of 128 bytes, and a ring of 16
entries, which is three bursts, where the real one is 6144; the others have 2 and 3.
Fault buffers have bursts of whole entries (2 and 2), or of half ones (2 and 1) in
`fault_recovers`: `Reader::reset` refuses a buffer that stopped inside an entry.

* Rings of one to three bursts: empty, partly filled, full, wrapped and lapped rings
  all occur, with begin before, at and after end, and entries across the wrap.
* `AcqUnits`: a ring and a half or more where contents are checked (80 units against
  48 in `standard_one`, 9 against 6), so an acquisition wraps, and laps the reader,
  within itself.
* `AtEnd`: what WrAddr shows when a burst ends at the ring's end.  `standard_one` has
  the end address, `standard_two` the beginning, the others either: section 7 says what happens with a firmware that
  shows either.
* `LastStart`: no acquisition starts at or after that stamp.  With `IncrementalTs` a
  burst moves the stamp too, so with 3 an acquisition is interrupted at different
  depths by the next.
* `PvDepth` 2 or 4: less than a ring, so the waveform itself overflows.
* Two arrays suffice for the shared record and the order of updates; the arrays do
  not otherwise interact.
* Fault buffers: rings of three entries in chunks of two, so a last short chunk and
  the cut at the ring's end occur; two faults per buffer, so that the state one
  readout leaves meets the next.
* `bsa_tool`: one standard and one fault array of different size; waveform buffers
  in two blocks of two, asked for none, three and five at a time, so that an index
  past the second block wraps round in it; another program whose buffers are no
  multiple of the block; two processes, so that the second meets what the first
  left; one written array and one written waveform buffer, with rings of two slots
  written up to three times, so full, wrapped and interrupted rings occur; two
  rewinds of each by `-i`, `clear` or a new acquisition, so that after the one that
  `-i` makes an acquisition may start while the first is fetched.  `FetchIsNewest`
  and `SavedBeforeDiscard` speak of several fetched arrays; the run has one, for its
  size, and the proof has any number.
* `parts`: two clients with arrays of their own and three acquisitions; two threads
  with two calls each on two channels and an event definition beyond them, with
  arguments whose low bits and whose being zero differ (`2`; severity `6`); two
  senders, three descriptors in every initial use, two system calls after
  `socket()`; rings of four entries, bursts of up to three, pulse ids up to 10 by
  steps of one and two, so that a ring wraps twice with a clear at every place (a
  window of four never has the six odd steps at which `flush()` stops: that is in
  the proof only, which is for every depth); two cycles of pulse ids and four
  datagrams, each of which may be any of seven pulses (ids that are not below the
  cycle, which the timing system does not send, are left out).
* BLD receiver: datagrams of one or of two channels, so the first event (8 or 9
  words) and the others (4 or 5) differ; three events in all, in any split, and a
  buffer of 12 words, which cuts a datagram of one channel between its second and
  its third event, and one of two channels inside its second; two interrupts and two
  failing accesses, so that the handlers are used up.

No symmetry is used: arrays are polled in ascending order.  Deadlock is checked
in the runs of the two readout modules: their poll loop never stops.  Processes of
`bld_receiver`, `bsa_tool` and `parts` end, and bounded ones stop.

## 5. Fairness

`FairSpec` adds weak fairness of `Thread`, the poll loop as a whole: it is one
thread in `while(1)` (`src/bsaapp_tst.cc:313`), always has a step to take, and
never waits for anything but its sleep.  Nothing is assumed of the firmware:
it may stop for ever or run as long as its bounds allow.  `IoError` and `FwWild` have no
fairness, they just may happen.

A client that an exception has ended is not started again by fairness
(`LatchedIsRearmed` says `\/ pc = "crashed"`).

In `BldControl` nothing is fair, not even a signal handler that has begun: on the
thread it interrupted it prints, allocates memory and runs the destructors of `exit()`
(`src/bld_control.cc:124`), any of which may wait for a lock that thread holds.

In `parts`, `PollEnds` assumes weak fairness of each client's `Poll`, a loop with a
sleep in it that waits for nothing, and of `Complete`: the hardware ends an
acquisition it was given.  A client that is robbed of its bit by another's `poll()`
or `start()` of the same register is excepted, because it does wait for ever.
`bsa_tool` and the other parts are safety only.

## 6. What is proved

Every safety property and every action property of the runs is the statement of
a theorem, and so is the refinement of `NewestWindow`.  A theorem is for all
values of the constants that satisfy the modules' assumptions:

* positive sizes, and regions of whole entries that do not overlap, which is what
  `BsaLayoutProofs` proves of the layout;
* a buffer of `7 + c` words or more for every `c` in `Channels` in `BldControl`:
  `main()` reads into 8 KiB, 2048 words (`src/bld_control.cc:348`), and an event's
  channels are bits of one 32-bit mask;
* in `BsaLayout`, nothing else; in `BsaTool` the registers of two blocks of waveform
  buffers (`0 .. 2 * Group - 1 \subseteq Waves`), the two that
  `AmcCarrierYaml::ring` knows.

Hypotheses beyond these are on what is outside of the repository, and are named:

| Hypothesis | Means | Who has to see to it |
|---|---|---|
| `WholeEntries` (fault buffers only) | a burst is a number of entries; `Reader::reset` refuses a buffer that stopped inside one (`src/Processor.cc:79`), so the code relies on it as well | firmware |
| `Disciplined` | every burst moves the time stamp (`IncrementalTs`) and WrAddr stays in its region (`~WildWrAddr`) | firmware |
| `OneWay` | WrAddr shows the ring's end as the end, or as the beginning, not now this and now that | firmware |
| `PvDepth <= RingEntries` | a waveform is no deeper than a ring: clients keep 20000 (`src/bsaapp_tst.cc:169`), a ring has 32768 (`1<<15`, `src/AmcCarrierBase.cc:25`) | the build: the small one (`1<<8`, line 22) is excluded |
| `~ErroneousDone` | no buffer is announced done while it is written | firmware |
| `~IoErrors` | no access throws | hardware |
| `InOrder` | the counters are read in the order of the source | compiler |

| Theorem | Property | Under |
|---|---|---|
| `BsaProcessorTypes!TypeCorrect` | `TypeOK` | – |
| `BsaProcessorProofs!NeverHidden` | `NewAcqVisible` | – |
| `BsaProcessorProofs!AlwaysAssigned` | `RecordAssigned` | `Disciplined` |
| `BsaProcessorProofs!FetchNeverStrays` | `FetchInRegion` | – |
| `BsaProcessorProofs!ShowsTheNewest` | `PvIsNewest` | `Disciplined OneWay`, `PvDepth <= RingEntries` |
| `BsaProcessorProofs!NothingLeftUnreported` | `SettledMeansDelivered` | `IncrementalTs` |
| `FaultReaderProofs!TypeCorrect` | `TypeOK` | – |
| `FaultReaderProofs!StampNeverEarly` | `StampNotEarly` | – |
| `FaultReaderProofs!OneReadoutOnly` | `OneReadout` | `WholeEntries` |
| `FaultReaderProofs!ChunksNeverStray` | `ChunkInRegion` | `WholeEntries ~WildWrAddr` |
| `FaultReaderProofs!ReadoutShowsTheRing` | `ReadoutExact` | `WholeEntries ~WildWrAddr ~ErroneousDone` |
| `FaultReaderProofs!NoFaultIsDiscarded` | `LatchedNotDiscarded` (action) | the same and `~IoErrors` |
| `BsaLayoutProofs!ArraysNeverShare EnabledNeverShare WavesNeverShare` | the three of `BsaLayout`, of its own `Spec` | – |
| `BsaLayoutProofs!ToolNeverShares` | the same, of `ToolSpec` | – |
| `BsaLayoutProofs!CapturesNeverShare` | `CapturesDisjoint` | – |
| `BsaLayoutProofs!DumpsAreWhole` | `DumpIsOneCapture` | – |
| `BsaLayoutProofs!FetchesNewest` | `FetchIsNewest` | – |
| `BsaLayoutProofs!ClearsOnlySaved` | `SavedBeforeDiscard` (action) | – |
| `PartsProofs!PollersLeaveWhenDone CompletionsNotLost` | `LeavesWhenDone`, `CompletionNotLost` | – |
| `PartsProofs!SettingsLast` | `FieldsAsAsked` | – |
| `PartsProofs!SendersKeepApart` | `OwnDescriptor` | – |
| `PartsProofs!RingsShowNewest` | `ShowsNewest` (refinement) | – |
| `PartsProofs!FlushReadsInside RowsGoTogether ReportsAreRight` | `FlushInBounds`, `RowsAligned`, `FlushJudgesWindow` | – |
| `PartsProofs!SilenceIsContiguous LinesAddUp` | `SilenceMeansContiguous`, `BytesNotBehind` | – |
| `BldControlProofs!BldTypes UnpacksEvents` | `TypeOK`, `EventsExact` | – |
| `BldControlProofs!LeavesDisabled` | `EndsDisabled` | – |
| `BldControlProofs!LinesShowNoMore` | `ReportConsistent` | `InOrder` |
| `SelectionCodesProofs!ACRateDecodes StatSelDecodes EventSelDecodes` | each field of the word is the argument, cut to its width | `EventSelDecodes`: the time slots fit eight bits |
| `SelectionCodesProofs!ServicesAgree` | BLD and BSAS write the same word for a sequence | – |
| `SelectionCodesProofs!ChannelDecodes` | `ChannelData` takes from an entry what was packed into it | – |

### Standard arrays

*Types.* `TypeOK` is not inductive: the position a unit is numbered by is a
natural only because an acquisition begins no later than what was written
(`Started`).  `TypeInv` is their conjunction; there is a lemma per action.

*NeverHidden.*  `state()` reads the time stamp before the clear bit.  The
invariant `Stamped` says that a stored stamp is never ahead of the hardware's
and strictly behind it while the clear bit is up, and the same of the stamp
`update()` holds from the step on which it saw the clear bit down.  A firmware
that starts an acquisition between the two reads raises the stamp, so what is
stored later is strictly older, and `pending()` still sees a difference.  With the two reads
in the other order the last part would fail.

*AlwaysAssigned.*  `pending()` and `update()` compare different reads, so an
array could be reported and then be found unchanged.  `StillDiffers` follows
what was reported through each step; it needs `PairKept` (a stored stamp that
is still current has the current WrAddr beside it) and `Unstarted`.  Both
hypotheses are used: a firmware that does not stamp bursts can rewind to the
stored WrAddr under the stored stamp (that is why `standard_oldfw` does not claim
the property and models the unassigned record instead), and a wild WrAddr of
zero equals the initial state of an array that does not begin at zero.

*FetchNeverStrays.*  `Bounded`: what `get()` fetches between has passed its traps.
The rest is arithmetic (`FetchSizes`, `FetchIs`): with the quotient `n` of what
there is by an entry, a fetch across the wrap steps `end` back by the remainder,
less than an entry.  From an address at an entry, `end` stays in the region, before
or at the wrap, since the ring is whole entries (`AlignedFetch`).  From an address
inside an entry, which only a fetch of no whole entry leaves behind
(`foreign_entries`), `end` may fall below the array's start, and the first part of
the copy be up to an entry longer than the record: the property says that much and
no more.

*ShowsTheNewest.*  Two conjuncts are added.  `RingsOK` is about the firmware alone:
WrAddr and the wrap flag tell how much was written since the rewind (`Counts`), and
the ring holds the newest units, those below WrAddr from this round and those above
it from the one before (`Holds`).  `ReaderOK` is about the reader: while no new
acquisition waits and nothing was lost, its place is behind the firmware's by no
more than a ring, in positions as in addresses modulo the ring (`Follows`, `Behind`)
and at an entry (`Aligned`), wherever in one the firmware is; the waveform holds the
newest whole entries before that place (`Shows`); and what `get()` found between its
register reads is a place between the two (`Snapped`).  A fetch between two such
places takes all there is between them but for a part of an entry (`Reads`,
`FetchReads`), and so the whole entries (`FetchTakes`, `MemoryLemmas`); the reader
that goes on where it ended follows again (`FollowsOn`), and appending what it took
to the newest before gives the newest after.  A fetch of no whole entry appends the
old record and moves `next` all the same: from there on, until the next rewind,
nothing is said of that array (`split`).  The proof attempt showed that `OneWay` is
needed (section 7).  `~WildWrAddr` is more than the property needs: `standard_one`
checks it with a wild WrAddr.

*NothingLeftUnreported.*  `Level`: a stored stamp equal to the hardware's came with
all that was written.  The stamp is read first, and a burst between it and `get()`'s look at
WrAddr moves it, so what is read with a stamp that is still current goes up to
the last whole entry.

### Fault buffers

*StampNeverEarly.*  `Stamped`: the waveforms of a latched buffer are a second behind its
register, and a readout whose buffer was re-armed is behind the next fault's stamp, so
`LastStamp` may write it even when a fault latches first.  `abort()` stamps before it
re-arms (`src/Processor.cc:368`, `387`): between the two, and for a client that an
exception ended there, the waveforms carry the stamp of a fault that was not read,
which the property excepts by name.

*OneReadoutOnly.*  `OneReadout` alone is not inductive: a reader leaves the
queue when nothing is left to read, which a misaligned address never lets be
true; `OneAtATime` adds that all addresses are at entries.

*ChunksNeverStray.*  `InRing`: a reader has taken no address yet, or its
`_next` and `_last` are in the region.  With `OneAtATime` a chunk is then a
number of entries between two such addresses or up to the ring's end.

*ReadoutShowsTheRing, NoFaultIsDiscarded.*  `RingsOK` is the same fact on the
ring as above.  `LatchOK` says that a done bit means a latched buffer that has
something in it.  `ReadoutOK` follows a readout: the reader at the front
of the queue reads on from the oldest entry, and the waveform is the span from
the oldest one up to where the reader is; with the last chunk it is the whole
ring (`LastOK`).  For the action property, without errors no reader is ever
skipped or aborted, so the only step that clears a latch is the re-arm after
the last chunk.

### Layout and command line client

*Layout.*  `Place(n)` is the closed form of the address loop.  The invariant:
the loop is at `Place(next)`, every enabled array is at its place (also those a
previous object enabled: both lay out the same way), waveform buffers are above
`Place(HSTARRAYN)` and in order.

*CapturesNeverShare.*  Every process that lays out waveform buffers does it from
the same base with the same size, so a register that is enabled holds the place
of some index that maps to it (`Placed`), and two registers have two indices;
another program's buffers are elsewhere, which is why the property excepts them.
A register with only its StartAddr written has the end of an older place:
it lies above the arrays, and may span other buffers.

*DumpsAreWhole, FetchesNewest.*  `Contents`: the memory of a buffer holds the
newest slots since its rewind, and a waveform buffer is done when, and only
when, it is full.  A buffer that is dumped was seen done in this process and is not
rewound before the dump (`Dumping`).  For the arrays, `Fetching` says which array
the last file is of and that no array is fetched twice.

*ClearsOnlySaved.*  `Saving`: what `done()` saw is no later than what is there,
and what is about to be cleared was put out if it is still what was seen (to the terminal
without `-f`); an array whose file could not be opened never gets to `clear()`.

### Parts

*Acquisition control.*  A bit a client can see is news since its `start()`
(`BitIsNews`), and the bit of a completed acquisition is there until some client
takes it (`BitStays`).

*Services.*  What a thread has read of a word is current but for the channels
that were written since (`ReadIsCurrent`).

*Sender.*  `Holding`: a descriptor that a sender keeps is owned by it, and it
owns no other but 0.

*Waveforms.*  The inductive invariant has three parts.  `BuffersOK` (every value is
stored twice, `_nelem` apart, with index and size in range) makes each position that
is read a position of the vector, so a window that crosses the end of the first copy
continues in the second.  With it an append is a `Push` of the abstract window,
`Tail` included when it is full (`AppendIsPush`), and a clear is a `Clear`, whatever
index and old values are left (`ClearIsClear`); every step of the client is one of
these for one waveform or a stutter (`StepShown`).  For `FlushReadsInside` the
second part, `NotEmpty`, follows what `update()` is going to return: when it is not
zero the waveforms hold an entry at the time of the flush, so with depth one or more
the ids 0 and 1 are inside the vector (`_nelem + _next - _nset + 1 < 2 * _nelem`) -
the second one an old value when there is one entry only. The third, `RowsOK`, says
what each waveform shows while an entry is under way: those that had its value one
more than the others (`EntryUnderWay`), and the same for a clear.  Between updates
all of them show the newest ids of the acquisition, and `flush()`, which works on
the first of them, judges that window.

*Monitor.*  `Counting`: `main()` adds a datagram before its bytes, the thread reads
the two in the same order.  `Following`: the buffer holds the id of the last pulse, and
the number of skipped pulses is whole cycles unless a report is due.

*Words.*  A field is decoded right when no bit of another argument falls into
it; the lemmas `FieldBits` and `ShiftBits` reduce that to one position.

### BLD receiver

*LeavesDisabled.*  `Handlers` counts the handlers that run or are still installed:
`SA_RESETHAND` uses each up, so they nest no deeper than there are signals.  `Off`:
nothing but `main()` turns the stream on, and while it may still do so the report
thread has taken no interrupt (`early`, excepted) and a handler on its own thread does
not let it go on; so where a handler is about to exit, the stream is off.  A
disposition is used up by an interrupt, a failed access or `main()`'s own `abort()`, which
is what the process may be killed by.

*UnpacksEvents.*  `Unpacking`: the iterator has unpacked the first `k` events of
the datagram and its `_next` is their length; the next step takes the next one
whole or stops.

*LinesShowNoMore.*  `Counted`: with `c` datagrams at least `c - 1` were
unpacked to the end, each with one event and its words at least; the three reads
keep that, since the counters only grow and the first one is read first.

### Model-checked only

Liveness is outside the proof system: `NewAcqAcked`, `WrittenIsRead`,
`LatchedIsRearmed`, `PollEnds`.  The properties of the
runs that expect a violation are false.  Nothing is proved by
induction over data: what a fetch returns is stated by position
(`MemoryLemmas`), not by recursion.

## 7. Observed, but not stated as a property

These were met while modelling; each is a behaviour of the model and of the code.

* `get()` reads WrAddr and then Full (`src/AmcCarrierBase.cc:246`, `254`).  A wrap
  in between, with `end == begin`, makes it read the whole ring again, newest
  entries first.  `PvIsNewest` excludes it only as data the firmware overwrote while
  it was read.
* A full ring can be skipped, when the firmware shows the ring's end now as the end
  address and now as the beginning: with `next` at the end, WrAddr at the beginning
  and a whole ring unread, `get()` computes zero entries up to the end and zero from
  the beginning, and goes on (`src/AmcCarrierBase.cc:262`).  The proof of
  `PvIsNewest` did not go through without `OneWay`, and TLC, given `AtEnd =
  {"begin", "end"}`, finds it violated.
* `abort()` stores only `next` (`src/Processor.cc:388`): time stamp and `wrAddr` of
  `_state` keep their values, so `pending()` goes on reporting the array and each
  poll aborts it again, although `src/Processor.cc:361` says "Clear the state of
  this acquisition so it doesn't retry later."
* `update()` returns 0 after `abort()` emptied the waveforms
  (`src/Processor.cc:354`), although `src/Processor.hh:113` promises a value that
  says whether anything changed: a client does not show it.
* `src/RELEASE_NOTES:37` says fault readouts are "queued in the order seen by the
  thread".  The queue never holds two buffers; when it empties, the first in array
  order that is polled takes it.
* A second readout of a buffer that did not wrap begins where the first ended
  (`src/Processor.cc:74`), though the buffer was rewound in between.
* `abort()` stamps empty waveforms with the fault's time stamp
  (`src/Processor.cc:368`), which a monitor takes for a complete readout; a client
  that an exception ends before the re-arm (`src/Processor.cc:387`) leaves them so
  over a buffer that is still latched.
* An exception in `pending()`, in `state()` at `src/Processor.cc:251` or in
  `abort()` is nobody's to catch.
* A fetch that begins inside an entry (after one of no whole entry) may copy up to
  an entry more than the record holds, and move `next` below the array's start; the
  next `get()` refuses that address, and `abort()` starts the array over.
* `initRaw` writes StartAddr and EndAddr of a register that a run which asked for
  more buffers left enabled: in between, for good if the process ends there, it
  spans its neighbours.
* `Reader` does not check WrAddr against the region as `get()` does, and a
  misaligned WrAddr leaves `_next` and `_last` set by the `reset()` that refused it
  (`src/Processor.cc:74-79`).
* A Processor made without `lInit` or from a shared carrier starts with empty bounds
  or zero `next` (`src/Processor.cc:188`, `201`).

* An interrupt that `bld_control`'s report thread takes before `main()` has enabled
  the stream: the handler clears the register and prints "BLD disabled", `main()`
  sets it (`src/bld_control.cc:346`), the process exits, and the stream stays on.
  Nothing blocks signals on that thread; Linux prefers the main thread, POSIX
  promises nothing. `EndsDisabled` excepts it (`~early`); without the exception TLC
  finds it.
* The handler of `bld_control` is not async-signal-safe (section 5) and may hang.
* A datagram that `read()` cuts off between two events loses the others without a
  sign.
* With `InOrder = FALSE` TLC finds `ReportConsistent` violated.
* `src/bld_control.cc:102` writes `v.channels[i-2] = _next[i++]`: since C++17 the
  index is taken after the increment, so the last channel is written past the
  vector; before, the two are unsequenced.
* `bsa_tst`: a fetch without `-i` indexes an empty vector; `delete record` deletes a
  member of the carrier object (`src/bsa_tst.cc:313`); `getRecord` reads a wrapped
  array from its first address only, so that the entries after WrAddr, the oldest,
  are missing; a fault array is never read in two parts since the test is
  `fetchArray < 60` and arrays end at 48; `rearm` is outside of the `if`
  (`src/bsa_tst.cc:254`), so a capture under way is discarded, and `-d` without `-f`
  reads a buffer and throws it away; without `-f` a fetched array is printed and
  cleared; nobody looks at what `fwrite` and `fclose` return.
* `AcqServiceYaml` and BLD's setters do not check `chn`.
* `AcqServiceYaml::setChannelMask(chn, 2)` clears the channel (`(0x1 & enable)?`,
  `src/AcqServiceYaml.cc:201`), `BsasModuleYaml::SetChannelMask(chn, 2)` sets it.
  `setChannelSevr` is declared in `src/AcqServiceYaml.hh` and defined nowhere.
* `socketAPIInitByInterfaceName` returns 0 although `_init` failed; `sendRawData`
  returns 1 on failure, not the `errno` of `src/socketAPI.h:31`; the destructor
  tests the descriptor against 0, not -1.
* `RateSelect` does not mask its time slots: a ninth one becomes the mode bit.
* `ChannelData::mean()` looks at one of the two exception bits, `rms2()` at both
  (`excpt()`): an entry with bit 14 alone has a mean and no variance.
* `tpr_stream` waits for its thread for ever after a read error (the thread ends
  when `count < 0`, and nothing sets that).  Nothing there sets `ClientRemoteIp`;
  the statements are commented out.
* `update()` gives channel `j` to the `j`-th waveform of `pvs()`
  (`src/Processor.cc:343`), and `src/Processor.hh:83` says "element order matches
  diagnostic bus element order"; `bsaapp_tst` fills that vector only with the fields
  that were asked for, so with its default (`fields = 2`) channel 0 appears as
  `Field_1`.
* `src/bsayaml_tst.cc` calls members the library does not have and is not built.
* `src/AmcCarrier.cc:273` indexes the four-element registers of a waveform block
  with the array number, `src/AmcCarrierYaml.cc:96` with the number modulo 4.

## 8. Not modelled, and the plan

Modelled, with runs and proofs above: the readouts, the layout, the clients, the
control of acquisitions and services, the receivers and the sender.  To do
next, in this order:

1. `ShowsTheNewest` without `~WildWrAddr`: `AlwaysAssigned` needs it for arrays that
   do not begin at zero, the contents of the waveforms should not.
2. how a standard array recovers after a fetch of no whole entry (`split`), from
   which on nothing is said of it until its next acquisition.
3. `ReadoutShowsTheRing` and `NoFaultIsDiscarded` as far as they hold with
   `ErroneousDone`.
4. abstract specifications of the two readouts (what a waveform of an acquisition
   may show), implemented by `BsaProcessor` and `FaultReader`: the step lemmas of
   section 6 are most of that proof.
5. the assumption `LayoutAssumption` of `BsaProcessor` as a consequence of the
   layout.

Left out for good: register offsets, printing, option parsing, and the wall
clock (time stamps are compared, never subtracted, except the provisional
second of fault buffers); quotients in floating point (`mean`, `rms2`); the constructors of
`AmcCarrier`, which fill pointers and nothing else, with a missing one that is
undefined behaviour at its first use; tools that read and print.
