----------------------------- MODULE BsaLayout ------------------------------
(***************************************************************************)
(* The layout of the DRAM: AmcCarrierBase::initialize lays the standard    *)
(* arrays and the fault buffers out from address 0, then initRaw (for      *)
(* AmcCarrierYaml: initializ_) allocates the waveform buffers above them,  *)
(* one register after the other.  The registers outlive the process; the   *)
(* object's _begin, _end and _memEnd do not.                               *)
(***************************************************************************)
EXTENDS Integers, FiniteSets

CONSTANTS
    NBSAARRAYS,   \* standard arrays
    HSTARRAYN,    \* all arrays: the fault buffers follow the standard ones
    ArrayUnits,   \* BSASIZE_L entries
    FaultUnits,   \* FAULTSIZE_L entries
    Waves,        \* the waveform buffers' indices
    Sizes,        \* bufferSize values clients ask for
    BlockUnits,   \* waveform buffers are in blocks of 4 kB
    MaxMem        \* bound: the client allocates no waveform above this address

ASSUME LayoutConstants ==
    /\ NBSAARRAYS \in Nat /\ HSTARRAYN \in Nat /\ NBSAARRAYS <= HSTARRAYN
    /\ ArrayUnits \in Nat \ {0} /\ FaultUnits \in Nat \ {0}
    /\ BlockUnits \in Nat \ {0} /\ Sizes \subseteq Nat /\ MaxMem \in Nat

Arrays == 0 .. HSTARRAYN - 1
NoRegs == [start |-> 0, end |-> 0, on |-> FALSE]
SizeOf(a) == IF a < NBSAARRAYS THEN ArrayUnits ELSE FaultUnits
Rounded(size) == ((size + BlockUnits - 1) \div BlockUnits) * BlockUnits

VARIABLES
    arrayRegs,   \* StartAddr, EndAddr and Enabled of every array
    waveRegs,    \* the same of every waveform buffer
    next, p,     \* initialize(): the array it is at and the address
    begin, end,  \* _begin and _end
    memEnd,      \* _memEnd
    pc,          \* the object: "new", "initializing", "ready"
    target,      \* initRaw() under way: the waveform buffer and its end; or <<>>
    owed,        \* what the last set-up of a waveform buffer has yet to write
    waves        \* the waveform buffers set up since initialize()

vars == <<arrayRegs, waveRegs, next, p, begin, end, memEnd, pc, target, owed, waves>>

Init ==
    /\ arrayRegs = [a \in Arrays |-> NoRegs] /\ waveRegs = [w \in Waves |-> NoRegs]
    /\ next = 0 /\ p = 0 /\ memEnd = 0
    /\ begin = [a \in Arrays |-> 0] /\ end = [a \in Arrays |-> 0]
    /\ pc = "new" /\ waves = {} /\ target = <<>> /\ owed = [w \in Waves |-> "none"]

\* initialize() begins, on a new object or again on one in use.
StartInitialize ==
    /\ pc \in {"new", "ready"} /\ target = <<>>
    /\ pc' = "initializing"
    /\ next' = 0 /\ p' = 0 /\ waves' = {}
    /\ begin' = IF pc = "new" THEN [a \in Arrays |-> 0] ELSE begin
    /\ end' = IF pc = "new" THEN [a \in Arrays |-> 0] ELSE end
    /\ UNCHANGED <<arrayRegs, waveRegs, memEnd, target, owed>>

\* Variant: the address does not move on.
InitializeSame ==
    /\ pc = "initializing" /\ next < HSTARRAYN
    /\ LET pn == p + SizeOf(next)
       IN  /\ begin' = [begin EXCEPT ![next] = p]
           /\ end' = [end EXCEPT ![next] = pn]
           /\ arrayRegs' = [arrayRegs EXCEPT ![next] = [start |-> p, end |-> pn, on |-> TRUE]]
    /\ next' = next + 1
    /\ UNCHANGED <<waveRegs, p, memEnd, pc, target, owed, waves>>

\* One array: its region starts where the last one ended.  The writes are one
\* step: an array is disabled before the first of them, or has these addresses.
InitializeArray ==
    /\ pc = "initializing" /\ next < HSTARRAYN
    /\ LET pn == p + SizeOf(next)
       IN  /\ begin' = [begin EXCEPT ![next] = p]
           /\ end' = [end EXCEPT ![next] = pn]
           /\ arrayRegs' = [arrayRegs EXCEPT ![next] = [start |-> p, end |-> pn, on |-> TRUE]]
           /\ p' = pn
    /\ next' = next + 1
    /\ UNCHANGED <<waveRegs, memEnd, pc, target, owed, waves>>

EndInitialize ==
    /\ pc = "initializing" /\ next = HSTARRAYN
    /\ memEnd' = p /\ pc' = "ready"
    /\ UNCHANGED <<arrayRegs, waveRegs, next, p, begin, end, target, owed, waves>>

\* initRaw: a waveform buffer above everything allocated so far.  StartAddr is
\* written first, on a register that may be enabled.
RawStart(w, size) ==
    /\ pc = "ready" /\ target = <<>> /\ memEnd + Rounded(size) <= MaxMem
    /\ target' = <<w, memEnd + Rounded(size)>>
    /\ waveRegs' = [waveRegs EXCEPT ![w].start = memEnd]
    /\ owed' = [owed EXCEPT ![w] = "EndAddr"] /\ waves' = waves \ {w}
    /\ UNCHANGED <<arrayRegs, next, p, begin, end, memEnd, pc>>

\* Its next write is due.
Owing(write) == target # <<>> /\ owed[target[1]] = write

RawEnd ==
    /\ Owing("EndAddr")
    /\ waveRegs' = [waveRegs EXCEPT ![target[1]].end = target[2]]
    /\ owed' = [owed EXCEPT ![target[1]] = "Enabled"]
    /\ UNCHANGED <<arrayRegs, next, p, begin, end, memEnd, pc, target, waves>>

RawEnable ==
    /\ Owing("Enabled")
    /\ waveRegs' = [waveRegs EXCEPT ![target[1]].on = TRUE]
    /\ owed' = [owed EXCEPT ![target[1]] = "Init"]
    /\ UNCHANGED <<arrayRegs, next, p, begin, end, memEnd, pc, target, waves>>

\* Variant: the end of the memory in use is not moved up.
RawInitInPlace ==
    /\ Owing("Init")
    /\ target' = <<>> /\ waves' = waves \cup {target[1]}
    /\ owed' = [owed EXCEPT ![target[1]] = "none"]
    /\ UNCHANGED <<arrayRegs, waveRegs, next, p, begin, end, memEnd, pc>>

\* Mode and the strobe of Init, then _memEnd.
RawInit ==
    /\ Owing("Init")
    /\ memEnd' = target[2]
    /\ target' = <<>> /\ waves' = waves \cup {target[1]}
    /\ owed' = [owed EXCEPT ![target[1]] = "none"]
    /\ UNCHANGED <<arrayRegs, waveRegs, next, p, begin, end, pc>>

\* One of its writes throws, and the caller goes on with the object.
RawThrow ==
    /\ target # <<>> /\ target' = <<>>
    /\ UNCHANGED <<arrayRegs, waveRegs, next, p, begin, end, memEnd, pc, owed, waves>>

\* The process ends at any point, or an access throws out of initialize(); a new
\* object starts over with the registers as they are.
Recreate ==
    /\ pc' = "new" /\ memEnd' = 0 /\ next' = 0 /\ p' = 0 /\ waves' = {} /\ target' = <<>>
    /\ begin' = [a \in Arrays |-> 0] /\ end' = [a \in Arrays |-> 0]
    /\ UNCHANGED <<arrayRegs, waveRegs, owed>>

Next ==
    \/ StartInitialize \/ InitializeArray \/ EndInitialize \/ Recreate
    \/ \E w \in Waves, size \in Sizes : RawStart(w, size)
    \/ RawEnd \/ RawEnable \/ RawInit \/ RawThrow

Spec == Init /\ [][Next]_vars

-----------------------------------------------------------------------------

Disjoint(r, s) == r.end <= s.start \/ s.end <= r.start

\* Every variable has its type.
TypeOK ==
    /\ arrayRegs \in [Arrays -> [start : Nat, end : Nat, on : BOOLEAN]]
    /\ waveRegs \in [Waves -> [start : Nat, end : Nat, on : BOOLEAN]]
    /\ next \in 0 .. HSTARRAYN /\ p \in Nat /\ memEnd \in Nat
    /\ begin \in [Arrays -> Nat] /\ end \in [Arrays -> Nat]
    /\ pc \in {"new", "initializing", "ready"} /\ waves \subseteq Waves
    /\ target \in {<<>>} \cup (Waves \X Nat)
    /\ owed \in [Waves -> {"none", "EndAddr", "Enabled", "Init"}]

\* Once initialize() has returned no two arrays share memory, and the bounds
\* get() checks a fetch against are those the hardware writes within.
ArraysDisjoint ==
    pc = "ready" =>
        /\ \A a, b \in Arrays : a # b => Disjoint(arrayRegs[a], arrayRegs[b])
        /\ \A a \in Arrays : begin[a] = arrayRegs[a].start /\ end[a] = arrayRegs[a].end

\* A waveform buffer whose set-up since initialize() was finished shares memory
\* with no array and no other such buffer, whatever order, sizes and repetitions
\* the client uses, and also after set-ups that an exception ended half-way.
WavesDisjoint ==
    \A w \in waves :
        /\ \A a \in Arrays : Disjoint(waveRegs[w], arrayRegs[a])
        /\ \A v \in waves \ {w} : Disjoint(waveRegs[w], waveRegs[v])

\* Also while a new object lays the arrays out again, no two arrays that are
\* enabled share memory: the firmware goes on writing all of them.
EnabledDisjoint ==
    \A a, b \in Arrays :
        a # b /\ arrayRegs[a].on /\ arrayRegs[b].on => Disjoint(arrayRegs[a], arrayRegs[b])
=============================================================================
