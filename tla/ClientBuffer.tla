----------------------------- MODULE ClientBuffer -----------------------------
(***************************************************************************)
(* The client of one array in bsaapp_tst.cc: its pulse-id waveform and the *)
(* waveforms of its channels, each a CircularBuffer that keeps every value *)
(* twice so that it can be read from one index on; the callbacks update()  *)
(* makes on them, one at a time; and the check of the pulse ids made when  *)
(* update() says that something changed.  Of an entry only its pulse id is *)
(* modelled, which stands for its channel data too.                        *)
(***************************************************************************)
EXTENDS Integers, Sequences, FiniteSets

CONSTANTS
    Depth,     \* _nelem
    NPvs,      \* channels the client shows
    Strides,   \* steps from one pulse id to the next
    MaxFetch,  \* bound: entries one update() appends
    MaxPid     \* bound: pulse ids

ASSUME ClientConstants ==
    /\ Depth \in Nat \ {0} /\ NPvs \in Nat /\ MaxFetch \in Nat /\ MaxPid \in Nat
    /\ Strides \subseteq Nat \ {0}

Waves == 0 .. NPvs   \* the pulse ids, then the channels
Pids == 0 .. MaxPid  \* 0 is what a vector is made with

VARIABLES
    buf,      \* the CircularBuffer of each waveform
    at,       \* where the client is
    col,      \* the waveform the next callback is for
    left,     \* entries of the record still to be appended
    returns,  \* what update() is going to return
    nacq,     \* _state.nacq of the array
    fault,    \* a fault array, whose nacq starts at 0 with each update()
    last,     \* the pulse id appended last
    hist,     \* ghost: the pulse ids since the waveforms were cleared
    printed   \* the pulse ids the last flush() complained of, by index

clientVars == <<buf, at, col, left, returns, nacq, fault, last, hist, printed>>

-----------------------------------------------------------------------------
(* CircularBuffer *)

NewBuffer == [next |-> 0, nset |-> 0, v |-> [i \in 0 .. 2 * Depth - 1 |-> 0]]

ClearedBuffer(b) == [b EXCEPT !.nset = 0]

After(i) == IF i + 1 = Depth THEN 0 ELSE i + 1
OneMore(n) == IF n < Depth THEN n + 1 ELSE n

\* Variant: the second copy is forgotten.
AppendedOnce(b, x) ==
    [next |-> After(b.next), nset |-> OneMore(b.nset), v |-> [b.v EXCEPT ![b.next] = x]]

Appended(b, x) ==
    [next |-> After(b.next), nset |-> OneMore(b.nset),
     v |-> [b.v EXCEPT ![b.next] = x, ![b.next + Depth] = x]]

Index(b, i) == Depth + b.next - b.nset + i

\* Beyond the vector anything may be read.
Item(b, i) == IF Index(b, i) < 2 * Depth THEN b.v[Index(b, i)] ELSE 0

Contents(b) == [i \in 1 .. b.nset |-> Item(b, i - 1)]

-----------------------------------------------------------------------------
(* The callbacks *)

ClientInit ==
    /\ buf = [w \in Waves |-> NewBuffer]
    /\ at = "poll" /\ col = 0 /\ left = 0 /\ returns = 0 /\ nacq = 0
    /\ fault \in BOOLEAN /\ last = 0 /\ hist = <<>> /\ printed = {}

Going(where) == at' = where /\ col' = 0

\* update() of a pending array, as Processor.cc makes its calls: a new
\* acquisition (or the first chunk of a fault) with the waveforms cleared, more
\* entries of the same one, or an abort, which clears and returns 0.  A fetch
\* from the beginning of a ring finds at least one entry or throws: a burst is
\* longer than an entry.
Update ==
    /\ at = "poll"
    /\ \E k \in 0 .. MaxFetch : \E op \in {"new", "more", "abort"} :
          /\ op = "abort" => k = 0
          /\ op = "new" => k > 0
          /\ op = "more" /\ ~fault /\ nacq > 0 /\ hist = <<>> => k > 0
          /\ Going(IF op = "more" THEN "append" ELSE "reset")
          /\ left' = k
          /\ nacq' = IF op = "abort" THEN nacq ELSE IF op = "more" /\ ~fault THEN nacq + k ELSE k
          /\ returns' = IF op = "abort" THEN 0 ELSE nacq'
    /\ printed' = {}
    /\ UNCHANGED <<buf, fault, last, hist>>

\* Variant: only the pulse ids are cleared.
ResetWavePid ==
    /\ at = "reset"
    /\ buf' = [buf EXCEPT ![col] = IF col = 0 THEN ClearedBuffer(@) ELSE @]
    /\ hist' = <<>>
    /\ IF col < NPvs THEN col' = col + 1 /\ UNCHANGED at ELSE Going("append")
    /\ UNCHANGED <<left, returns, nacq, fault, last, printed>>

\* TextPvArray::reset.
ResetWave ==
    /\ at = "reset"
    /\ buf' = [buf EXCEPT ![col] = ClearedBuffer(@)]
    /\ hist' = <<>>
    /\ IF col < NPvs THEN col' = col + 1 /\ UNCHANGED at ELSE Going("append")
    /\ UNCHANGED <<left, returns, nacq, fault, last, printed>>

\* The pulse id of an entry ...
AppendPid ==
    /\ at = "append" /\ left > 0 /\ col = 0
    /\ \E d \in Strides :
          /\ last + d <= MaxPid
          /\ last' = last + d
          /\ buf' = [buf EXCEPT ![0] = Appended(@, last + d)]
          /\ hist' = Append(hist, last + d)
    /\ IF NPvs > 0 THEN col' = 1 /\ UNCHANGED left ELSE left' = left - 1 /\ UNCHANGED col
    /\ UNCHANGED <<at, returns, nacq, fault, printed>>

\* ... and then its channels.
AppendChannel ==
    /\ at = "append" /\ col > 0
    /\ buf' = [buf EXCEPT ![col] = Appended(@, last)]
    /\ IF col < NPvs THEN col' = col + 1 /\ UNCHANGED left ELSE col' = 0 /\ left' = left - 1
    /\ UNCHANGED <<at, returns, nacq, fault, last, hist, printed>>

\* Variant: the waveforms are flushed whatever update() returns.
ReturnAlways ==
    /\ at = "append" /\ left = 0 /\ col = 0
    /\ Going("flush")
    /\ UNCHANGED <<buf, left, returns, nacq, fault, last, hist, printed>>

Return ==
    /\ at = "append" /\ left = 0 /\ col = 0
    /\ Going(IF returns # 0 /\ NPvs > 0 THEN "flush" ELSE "poll")
    /\ UNCHANGED <<buf, left, returns, nacq, fault, last, hist, printed>>

\* Variant: each id is compared with what the first two foretell.
ReportsForetold(b) ==
    {i \in 2 .. b.nset - 1 : Item(b, i) # Item(b, 0) + i * (Item(b, 1) - Item(b, 0))}

\* The ids that do not follow the one before by the step of the first two,
\* which are read whatever the size; after six reports the loop is left.
Reports(b) ==
    LET step == Item(b, 1) - Item(b, 0)
        Odd == {i \in 2 .. b.nset - 1 : Item(b, i) # Item(b, i - 1) + step}
    IN  {i \in Odd : Cardinality({j \in Odd : j < i}) < 6}

\* TextPv::flush: every channel checks the pulse ids of the array.
Flush ==
    /\ at = "flush"
    /\ printed' = Reports(buf[0])
    /\ IF col + 1 < NPvs THEN col' = col + 1 /\ UNCHANGED at ELSE Going("poll")
    /\ UNCHANGED <<buf, left, returns, nacq, fault, last, hist>>

ClientNext == Update \/ ResetWave \/ AppendPid \/ AppendChannel \/ Return \/ Flush

ClientSpec == ClientInit /\ [][ClientNext]_clientVars

-----------------------------------------------------------------------------
(* Properties *)

\* Every waveform shows the newest Depth values appended since its last clear,
\* although CircularBuffer::clear leaves index and old values where they are and
\* the ring is read through its second copy.
Window == INSTANCE NewestWindow WITH
    win <- [w \in Waves |-> Contents(buf[w])], Values <- Pids

ShowsNewest == Window!Spec

\* Between updates the channels' waveforms go with the pulse ids, row by row,
\* whatever was reset and appended before.
RowsAligned ==
    at \in {"poll", "flush"} => \A w \in Waves : Contents(buf[w]) = Contents(buf[0])

\* flush() reads the first two pulse ids without a look at the size: they are
\* inside of the vector all the same, for it is not called after an abort has
\* emptied the waveforms.
FlushInBounds ==
    at = "flush" => \A i \in {0, 1} : Index(buf[0], i) \in 0 .. 2 * Depth - 1

\* The newest Depth of the sequence s.
NewestOf(s) == SubSeq(s, IF Len(s) > Depth THEN Len(s) - Depth + 1 ELSE 1, Len(s))

\* The steps between neighbours in s that are not the first one, the first six.
OddSteps(s) ==
    LET Odd == {i \in 2 .. Len(s) - 1 : s[i + 1] - s[i] # s[2] - s[1]}
    IN  {i \in Odd : Cardinality({j \in Odd : j < i}) < 6}

\* What flush() complains of is right: it reports an id if and only if, among
\* the newest Depth since the acquisition began, the step to it is another one
\* than the first, and no more than five before it are.
FlushJudgesWindow == at = "flush" /\ col > 0 => printed = OddSteps(NewestOf(hist))
=============================================================================
