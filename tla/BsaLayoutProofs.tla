-------------------------- MODULE BsaLayoutProofs ---------------------------
(***************************************************************************)
(* The DRAM layout is right for every number of arrays, every size and     *)
(* every order of calls.                                                   *)
(***************************************************************************)
EXTENDS BsaTool, FiniteSetTheorems, WellFoundedInduction, TLAPS

\* Where initialize() puts array n, for every n up to HSTARRAYN.
Place(n) ==
    IF n <= NBSAARRAYS THEN n * ArrayUnits
    ELSE NBSAARRAYS * ArrayUnits + (n - NBSAARRAYS) * FaultUnits

\* The address loop of initialize() is at Place(next), and every enabled array
\* lies at its place, whether this object put it there or one before it.
InPlace ==
    /\ pc = "initializing" => p = Place(next)
    /\ \A a \in Arrays : arrayRegs[a].on =>
          arrayRegs[a].start = Place(a) /\ arrayRegs[a].end = Place(a + 1)

\* The object's own vectors agree with the registers for the arrays done so far.
Laid ==
    /\ pc = "initializing" =>
          \A a \in Arrays : a < next =>
              /\ arrayRegs[a].on
              /\ begin[a] = arrayRegs[a].start /\ end[a] = arrayRegs[a].end
    /\ pc = "ready" =>
          /\ p = Place(HSTARRAYN) /\ p <= memEnd
          /\ \A a \in Arrays :
                /\ arrayRegs[a].on
                /\ begin[a] = arrayRegs[a].start /\ end[a] = arrayRegs[a].end

\* The buffer initRaw() is at starts at _memEnd; its end comes with EndAddr.
Setting ==
    target # <<>> =>
        /\ target \in Waves \X Nat /\ target[1] \notin waves /\ memEnd <= target[2]
        /\ owed[target[1]] # "none" /\ waveRegs[target[1]].start = memEnd
        /\ owed[target[1]] # "EndAddr" => waveRegs[target[1]].end = target[2]

\* Waveform buffers set up since initialize() lie between the arrays and _memEnd.
WavesAbove ==
    /\ pc # "ready" => waves = {} /\ target = <<>>
    /\ \A w \in waves :
          /\ Place(HSTARRAYN) <= waveRegs[w].start
          /\ waveRegs[w].start <= waveRegs[w].end /\ waveRegs[w].end <= memEnd
    /\ \A v, w \in waves : v # w => Disjoint(waveRegs[v], waveRegs[w])

IInv == TypeOK /\ InPlace /\ Laid /\ WavesAbove /\ Setting

\* More arrays of one size take at least as much memory.
LEMMA TimesMonotone ==
    ASSUME NEW x \in Nat, NEW y \in Nat, NEW c \in Nat, x <= y
    PROVE  x * c <= y * c
<1>1. PICK d \in Nat : y = x + d
  <2>1. y - x \in Nat /\ y = x + (y - x)
    OBVIOUS
  <2> QED BY <2>1
<1>2. y * c = x * c + d * c
  BY <1>1
<1>3. d * c \in Nat /\ x * c \in Nat
  OBVIOUS
<1> QED BY <1>2, <1>3

-----------------------------------------------------------------------------

\* The place of an array is a natural; the next array's is the size of the array
\* above it (the loop's pn = p + SIZE).
LEMMA PlaceStep ==
    ASSUME NEW n \in Nat
    PROVE  /\ Place(n) \in Nat
           /\ Place(n + 1) = Place(n) + SizeOf(n)
<1> USE LayoutConstants
<1>1. n * ArrayUnits \in Nat /\ NBSAARRAYS * ArrayUnits \in Nat
  OBVIOUS
<1>2. CASE n < NBSAARRAYS
  <2>1. (n + 1) * ArrayUnits = n * ArrayUnits + ArrayUnits
    OBVIOUS
  <2> QED BY <1>1, <1>2, <2>1 DEF Place, SizeOf
<1>3. CASE n = NBSAARRAYS
  <2>1. (n + 1) - NBSAARRAYS = 1 /\ 1 * FaultUnits = FaultUnits
    BY <1>3
  <2> QED BY <1>1, <1>3, <2>1 DEF Place, SizeOf
<1>4. CASE n > NBSAARRAYS
  <2> DEFINE d == n - NBSAARRAYS
  <2>1. d \in Nat /\ (n + 1) - NBSAARRAYS = d + 1
    BY <1>4
  <2>2. d * FaultUnits \in Nat /\ (d + 1) * FaultUnits = d * FaultUnits + FaultUnits
    BY <2>1
  <2> HIDE DEF d
  <2>3. Place(n) = NBSAARRAYS * ArrayUnits + d * FaultUnits
    BY <1>4 DEF Place, d
  <2>4. Place(n + 1) = NBSAARRAYS * ArrayUnits + (d + 1) * FaultUnits
    BY <1>4, <2>1 DEF Place
  <2>5. SizeOf(n) = FaultUnits
    BY <1>4 DEF SizeOf
  <2> QED BY <1>1, <2>2, <2>3, <2>4, <2>5
<1> QED BY <1>2, <1>3, <1>4

\* Places grow with the array number.
LEMMA PlaceMonotone ==
    ASSUME NEW m \in Nat, NEW n \in Nat, m <= n
    PROVE  Place(m) <= Place(n)
<1> USE LayoutConstants
<1>1. CASE n <= NBSAARRAYS
  BY <1>1, TimesMonotone DEF Place
<1>2. CASE m <= NBSAARRAYS /\ n > NBSAARRAYS
  <2>1. m * ArrayUnits <= NBSAARRAYS * ArrayUnits
    BY <1>2, TimesMonotone
  <2>2. n - NBSAARRAYS \in Nat /\ (n - NBSAARRAYS) * FaultUnits \in Nat
    BY <1>2
  <2>3. m * ArrayUnits \in Nat /\ NBSAARRAYS * ArrayUnits \in Nat
    OBVIOUS
  <2> QED BY <1>2, <2>1, <2>2, <2>3 DEF Place
<1>3. CASE m > NBSAARRAYS
  <2>1. (m - NBSAARRAYS) * FaultUnits <= (n - NBSAARRAYS) * FaultUnits
    BY <1>3, TimesMonotone
  <2>2. /\ (m - NBSAARRAYS) * FaultUnits \in Nat
        /\ (n - NBSAARRAYS) * FaultUnits \in Nat
        /\ NBSAARRAYS * ArrayUnits \in Nat
    BY <1>3
  <2> QED BY <1>3, <2>1, <2>2 DEF Place
<1> QED BY <1>1, <1>2, <1>3

\* Rounding a size up to whole blocks gives a size.
LEMMA RoundedNat ==
    ASSUME NEW size \in Nat
    PROVE  Rounded(size) \in Nat
<1>1. (size + BlockUnits - 1) \div BlockUnits \in Nat
  BY LayoutConstants
<1> QED BY <1>1, LayoutConstants DEF Rounded

\* Enabled arrays at their places share no memory.
LEMMA PlacesDisjoint ==
    ASSUME TypeOK, InPlace, NEW a \in Arrays, NEW b \in Arrays, a # b,
           arrayRegs[a].on, arrayRegs[b].on
    PROVE  Disjoint(arrayRegs[a], arrayRegs[b])
<1>1. a \in Nat /\ b \in Nat
  BY LayoutConstants DEF Arrays
<1>2. /\ arrayRegs[a].start = Place(a) /\ arrayRegs[a].end = Place(a + 1)
      /\ arrayRegs[b].start = Place(b) /\ arrayRegs[b].end = Place(b + 1)
  BY DEF InPlace
<1>3. CASE a < b
  BY <1>1, <1>2, <1>3, PlaceMonotone DEF Disjoint
<1>4. CASE b < a
  BY <1>1, <1>2, <1>4, PlaceMonotone DEF Disjoint
<1> QED BY <1>1, <1>3, <1>4

-----------------------------------------------------------------------------

\* The invariant holds initially.
LEMMA InitIInv == Init => IInv
BY LayoutConstants DEF Init, IInv, TypeOK, InPlace, Laid, WavesAbove, Setting, NoRegs, Arrays

\* A waveform buffer's set-up begins above everything else, whatever its size.
LEMMA RawStartIInv ==
    ASSUME IInv, NEW w \in Waves, NEW size \in Nat, RawStart(w, size)
    PROVE  IInv'
<1> USE LayoutConstants DEF IInv
<1>1. Rounded(size) \in Nat
  BY RoundedNat
<1>2. PICK top \in Nat : top = memEnd + Rounded(size) /\ memEnd <= top /\ memEnd \in Nat
  BY <1>1 DEF TypeOK
<1>3. /\ pc = "ready" /\ target = <<>> /\ target' = <<w, top>> /\ waves' = waves \ {w}
      /\ waveRegs' = [waveRegs EXCEPT ![w].start = memEnd]
      /\ owed' = [owed EXCEPT ![w] = "EndAddr"]
      /\ UNCHANGED <<arrayRegs, next, p, begin, end, memEnd, pc>>
  BY <1>2 DEF RawStart
<1>4. /\ waveRegs' \in [Waves -> [start : Nat, end : Nat, on : BOOLEAN]]
      /\ waveRegs'[w].start = memEnd /\ \A v \in Waves \ {w} : waveRegs'[v] = waveRegs[v]
  BY <1>2, <1>3 DEF TypeOK
<1>5. /\ owed' \in [Waves -> {"none", "EndAddr", "Enabled", "Init"}] /\ owed'[w] = "EndAddr"
      /\ waves' \subseteq Waves /\ target' \in Waves \X Nat
      /\ target'[1] = w /\ target'[2] = top
  BY <1>2, <1>3 DEF TypeOK
<1>6. TypeOK'
  BY <1>3, <1>4, <1>5 DEF TypeOK
<1>7. InPlace'
  BY <1>3 DEF InPlace
<1>8. Laid'
  BY <1>3 DEF Laid
<1>9. WavesAbove'
  BY <1>3, <1>4 DEF WavesAbove, TypeOK, Disjoint
<1>10. Setting'
  BY <1>2, <1>3, <1>4, <1>5 DEF Setting
<1> QED BY <1>6, <1>7, <1>8, <1>9, <1>10

\* Its end and its enable are written.
LEMMA RawWriteIInv ==
    ASSUME IInv, RawEnd \/ RawEnable
    PROVE  IInv'
<1> USE LayoutConstants DEF IInv
<1>1. target # <<>> /\ UNCHANGED <<arrayRegs, next, p, begin, end, memEnd, pc, target, waves>>
  BY DEF RawEnd, RawEnable, Owing
<1>2. PICK w \in Waves, top \in Nat :
         /\ w = target[1] /\ top = target[2] /\ w \notin waves /\ memEnd <= top
         /\ owed[w] # "none" /\ waveRegs[w].start = memEnd
         /\ owed[w] # "EndAddr" => waveRegs[w].end = top
  BY <1>1 DEF Setting
<1>3. /\ waveRegs' \in [Waves -> [start : Nat, end : Nat, on : BOOLEAN]]
      /\ waveRegs'[w].start = memEnd /\ waveRegs'[w].end = top
      /\ \A v \in Waves \ {w} : waveRegs'[v] = waveRegs[v]
  <2>1. CASE RawEnd
    BY <1>2, <2>1 DEF RawEnd, TypeOK
  <2>2. CASE RawEnable
    BY <1>2, <2>2 DEF RawEnable, Owing, TypeOK
  <2> QED BY <2>1, <2>2
<1>4. owed' \in [Waves -> {"none", "EndAddr", "Enabled", "Init"}] /\ owed'[w] # "none"
  BY <1>2 DEF RawEnd, RawEnable, TypeOK
<1>5. TypeOK'
  BY <1>1, <1>3, <1>4 DEF TypeOK
<1>6. InPlace'
  BY <1>1 DEF InPlace
<1>7. Laid'
  BY <1>1 DEF Laid
<1>8. WavesAbove'
  BY <1>1, <1>2, <1>3 DEF WavesAbove, TypeOK, Disjoint
<1>9. Setting'
  BY <1>1, <1>2, <1>3, <1>4 DEF Setting
<1> QED BY <1>5, <1>6, <1>7, <1>8, <1>9

\* The set-up ends, and the buffer is one of those below _memEnd.
LEMMA RawInitIInv ==
    ASSUME IInv, RawInit
    PROVE  IInv'
<1> USE LayoutConstants DEF IInv
<1>1. PICK w \in Waves, top \in Nat :
         /\ w = target[1] /\ top = target[2] /\ w \notin waves /\ memEnd <= top
         /\ waveRegs[w].start = memEnd /\ waveRegs[w].end = top /\ pc = "ready"
  BY DEF Setting, RawInit, Owing, WavesAbove
<1>2. /\ memEnd' = top /\ target' = <<>> /\ waves' = waves \cup {w}
      /\ owed' = [owed EXCEPT ![w] = "none"]
      /\ UNCHANGED <<arrayRegs, waveRegs, next, p, begin, end, pc>>
  BY <1>1 DEF RawInit
<1>3. TypeOK'
  BY <1>1, <1>2 DEF TypeOK
<1>4. InPlace'
  BY <1>2 DEF InPlace
<1>5. memEnd \in Nat /\ Place(HSTARRAYN) \in Nat /\ Place(HSTARRAYN) <= memEnd
  BY <1>1, PlaceStep DEF Laid, TypeOK
<1>6. Laid'
  BY <1>1, <1>2, <1>5 DEF Laid
<1>7. WavesAbove'
  <2>1. \A v \in waves' : /\ Place(HSTARRAYN) <= waveRegs'[v].start
                          /\ waveRegs'[v].start <= waveRegs'[v].end
                          /\ waveRegs'[v].end <= memEnd'
    BY <1>1, <1>2, <1>5 DEF WavesAbove, TypeOK
  <2>2. \A v, u \in waves' : v # u => Disjoint(waveRegs'[v], waveRegs'[u])
    BY <1>1, <1>2 DEF WavesAbove, TypeOK, Disjoint
  <2> QED BY <1>1, <1>2, <2>1, <2>2 DEF WavesAbove, Disjoint
<1>8. Setting'
  BY <1>2 DEF Setting
<1> QED BY <1>3, <1>4, <1>6, <1>7, <1>8

\* Every step keeps it.
LEMMA NextIInv == IInv /\ [Next]_vars => IInv'
<1> SUFFICES ASSUME IInv, [Next]_vars PROVE IInv'
  OBVIOUS
<1> USE LayoutConstants DEF IInv
<1>1. CASE StartInitialize
  <2>1. Place(0) = 0
    BY DEF Place
  <2>2. TypeOK'
    BY <1>1 DEF StartInitialize, TypeOK
  <2>3. InPlace'
    BY <1>1, <2>1 DEF StartInitialize, InPlace
  <2>4. Laid'
    BY <1>1 DEF StartInitialize, Laid, Arrays
  <2>5. WavesAbove' /\ Setting'
    BY <1>1 DEF StartInitialize, WavesAbove, Setting
  <2> QED BY <2>2, <2>3, <2>4, <2>5
<1>2. CASE InitializeArray
  <2>1. next \in Arrays /\ next \in Nat /\ p = Place(next) /\ waves = {}
    BY <1>2 DEF InitializeArray, TypeOK, Arrays, InPlace, WavesAbove
  <2>2. SizeOf(next) \in Nat /\ p + SizeOf(next) = Place(next + 1)
    BY <2>1, PlaceStep DEF SizeOf
  <2>3. TypeOK'
    BY <1>2, <2>1, <2>2 DEF InitializeArray, TypeOK
  <2>4. InPlace'
    BY <1>2, <2>1, <2>2 DEF InitializeArray, InPlace, TypeOK
  <2>5. Laid'
    <3>1. /\ pc' = "initializing" /\ next' = next + 1
          /\ begin' = [begin EXCEPT ![next] = p]
          /\ end' = [end EXCEPT ![next] = p + SizeOf(next)]
          /\ arrayRegs' = [arrayRegs EXCEPT ![next] =
                               [start |-> p, end |-> p + SizeOf(next), on |-> TRUE]]
          /\ pc = "initializing"
      BY <1>2 DEF InitializeArray
    <3>2. ASSUME NEW a \in Arrays, a < next'
          PROVE  /\ arrayRegs'[a].on
                 /\ begin'[a] = arrayRegs'[a].start /\ end'[a] = arrayRegs'[a].end
      <4>1. CASE a = next
        BY <2>1, <3>1, <4>1 DEF TypeOK
      <4>2. CASE a # next
        <5>1. a < next
          BY <2>1, <3>1, <3>2, <4>2 DEF Arrays
        <5>2. /\ arrayRegs'[a] = arrayRegs[a]
              /\ begin'[a] = begin[a] /\ end'[a] = end[a]
          BY <3>1, <4>2 DEF TypeOK
        <5> QED BY <3>1, <5>1, <5>2 DEF Laid
      <4> QED BY <4>1, <4>2
    <3> QED BY <3>1, <3>2 DEF Laid
  <2>6. WavesAbove' /\ Setting'
    BY <1>2, <2>1 DEF InitializeArray, WavesAbove, Setting
  <2> QED BY <2>3, <2>4, <2>5, <2>6
<1>3. CASE EndInitialize
  <2>1. TypeOK'
    BY <1>3 DEF EndInitialize, TypeOK
  <2>2. InPlace'
    BY <1>3 DEF EndInitialize, InPlace
  <2>3. Laid'
    BY <1>3 DEF EndInitialize, Laid, InPlace, TypeOK, Arrays
  <2>4. WavesAbove' /\ Setting'
    BY <1>3 DEF EndInitialize, WavesAbove, Setting
  <2> QED BY <2>1, <2>2, <2>3, <2>4
<1>4. CASE Recreate
  <2>1. TypeOK'
    BY <1>4 DEF Recreate, TypeOK
  <2>2. InPlace' /\ Laid' /\ WavesAbove' /\ Setting'
    BY <1>4 DEF Recreate, InPlace, Laid, WavesAbove, Setting
  <2> QED BY <2>1, <2>2
<1>5. ASSUME NEW w \in Waves, NEW size \in Sizes, RawStart(w, size)
      PROVE  IInv'
  BY <1>5, RawStartIInv
<1>6. CASE RawEnd \/ RawEnable
  BY <1>6, RawWriteIInv
<1>7. CASE RawInit
  BY <1>7, RawInitIInv
<1>8. CASE RawThrow
  BY <1>8 DEF RawThrow, TypeOK, InPlace, Laid, WavesAbove, Disjoint, Setting
<1>9. CASE UNCHANGED vars
  BY <1>9 DEF vars, TypeOK, InPlace, Laid, WavesAbove, Disjoint, Setting
<1> QED BY <1>1, <1>2, <1>3, <1>4, <1>5, <1>6, <1>7, <1>8, <1>9 DEF Next

\* Every reachable layout has every array at its place, the object's bounds equal
\* to the registers, and the waveform buffers above the arrays.
THEOREM Invariance == Spec => []IInv
BY InitIInv, NextIInv, PTL DEF Spec

\* A layout whose arrays are at their places, with the waveform buffers above, is
\* one of disjoint buffers.
LEMMA PlacedIsDisjoint == IInv => ArraysDisjoint /\ EnabledDisjoint /\ WavesDisjoint
<1>1. ASSUME IInv, NEW w \in waves PROVE
          /\ \A a \in Arrays : Disjoint(waveRegs[w], arrayRegs[a])
          /\ \A v \in waves \ {w} : Disjoint(waveRegs[w], waveRegs[v])
  <2>1. pc = "ready" /\ waves \subseteq Waves
    BY <1>1 DEF IInv, WavesAbove, TypeOK
  <2>2. ASSUME NEW a \in Arrays PROVE Disjoint(waveRegs[w], arrayRegs[a])
    <3>1. a \in Nat /\ a + 1 <= HSTARRAYN /\ HSTARRAYN \in Nat
      BY LayoutConstants DEF Arrays
    <3>2. arrayRegs[a].end = Place(a + 1)
      BY <1>1, <2>1 DEF IInv, Laid, InPlace
    <3>3. Place(a + 1) <= Place(HSTARRAYN)
      BY <3>1, PlaceMonotone
    <3>4. Place(a + 1) \in Nat /\ Place(HSTARRAYN) \in Nat
      BY <3>1, PlaceStep
    <3>5. Place(HSTARRAYN) <= waveRegs[w].start /\ waveRegs[w].start \in Nat
      BY <1>1, <2>1 DEF IInv, WavesAbove, TypeOK
    <3> QED BY <3>2, <3>3, <3>4, <3>5 DEF Disjoint
  <2>3. \A v \in waves \ {w} : Disjoint(waveRegs[w], waveRegs[v])
    BY <1>1 DEF IInv, WavesAbove
  <2> QED BY <2>2, <2>3
<1>2. IInv => WavesDisjoint
  BY <1>1 DEF WavesDisjoint
<1>3. IInv => ArraysDisjoint /\ EnabledDisjoint
  BY PlacesDisjoint DEF IInv, Laid, ArraysDisjoint, EnabledDisjoint
<1> QED BY <1>2, <1>3

\* Once initialize() has returned, no two arrays share memory and get() checks
\* against the bounds the hardware writes within.
THEOREM ArraysNeverShare == Spec => []ArraysDisjoint
BY PlacedIsDisjoint, Invariance, PTL

\* Not even while a new object lays out the arrays again, with the firmware
\* still writing the ones its predecessor enabled.
THEOREM EnabledNeverShare == Spec => []EnabledDisjoint
BY PlacedIsDisjoint, Invariance, PTL

\* A waveform buffer shares memory with no array and no other waveform buffer.
THEOREM WavesNeverShare == Spec => []WavesDisjoint
BY PlacedIsDisjoint, Invariance, PTL

-----------------------------------------------------------------------------
(* The command line client over the layout *)

Points == {"none", "init", "diag", "dump", "rearm", "done", "fetch", "fill", "clear", "end", "other"}
Buffers == [id : Nat, n : Nat, done : BOOLEAN, slots : [0 .. Ring - 1 -> Nat \X Nat]]
ArrayBufs == {A(a) : a \in Fetched}

\* The types of what the client and the firmware keep.
ToolTyped ==
    /\ buf \in [Bufs -> Buffers] /\ looked \in [Bufs -> Nat]
    /\ at \in Points /\ raw \in Nat
    /\ opts.force \in SUBSET Fetched /\ fetch \in SUBSET Fetched

\* A buffer that is rewound begins anew, and the others stay as they are.
Rewound(S) ==
    /\ buf' \in [Bufs -> Buffers]
    /\ \A b \in Bufs \cap S :
          buf'[b].id = buf[b].id + 1 /\ buf'[b].n = 0 /\ buf'[b].done = FALSE
    /\ \A b \in Bufs \ S : buf'[b] = buf[b]

\* Buffer b is written or ends; the others stay as they are.
Advanced(b) ==
    /\ b \in Bufs /\ buf' \in [Bufs -> Buffers]
    /\ buf'[b].id = buf[b].id
    /\ \/ /\ ~buf[b].done /\ buf'[b].n = buf[b].n + 1
          /\ buf'[b].slots = [buf[b].slots EXCEPT ![buf[b].n % Ring] = <<buf[b].id, buf[b].n>>]
          /\ buf'[b].done <=> b[1] = "wave" /\ buf[b].n + 1 = Ring
       \/ /\ b[1] = "array" /\ ~buf[b].done
          /\ buf'[b].n = buf[b].n /\ buf'[b].slots = buf[b].slots
    /\ \A c \in Bufs \ {b} : buf'[c] = buf[c]

\* Every array buffer and every waveform buffer is a written buffer.
LEMMA BufKinds ==
    /\ \A a \in Fetched : A(a) \in Bufs /\ A(a) \in ArrayBufs /\ A(a)[1] = "array"
    /\ \A w \in Captured : W(w) \in Bufs /\ W(w)[1] = "wave"
    /\ \A w : W(w) \notin ArrayBufs /\ W(w)[1] = "wave" /\ W(w) # NoBuf
    /\ \A b \in ArrayBufs : b \in Bufs /\ b[1] = "array"
    /\ \A b \in Bufs : b[1] = "array" \/ \E w \in Captured : b = W(w)
    /\ NoBuf[1] = "none" /\ NoBuf \notin ArrayBufs
    /\ \A a, c : A(a) = A(c) => a = c
BY DEF Bufs, ArrayBufs, A, W, NoBuf

\* What Rewind does.
LEMMA RewindEffect ==
    ASSUME ToolTyped, NEW S, Rewind(S)
    PROVE  Rewound(S)
<1>1. buf' = [b \in Bufs |-> IF b \in S THEN [buf[b] EXCEPT !.id = buf[b].id + 1, !.n = 0, !.done = FALSE]
                            ELSE buf[b]]
  BY DEF Rewind
<1>2. ASSUME NEW b \in Bufs
      PROVE  /\ [buf[b] EXCEPT !.id = buf[b].id + 1, !.n = 0, !.done = FALSE] \in Buffers
             /\ [buf[b] EXCEPT !.id = buf[b].id + 1, !.n = 0, !.done = FALSE].id = buf[b].id + 1
             /\ [buf[b] EXCEPT !.id = buf[b].id + 1, !.n = 0, !.done = FALSE].n = 0
             /\ [buf[b] EXCEPT !.id = buf[b].id + 1, !.n = 0, !.done = FALSE].done = FALSE
             /\ buf[b] \in Buffers
  <2>1. PICK F : F = [0 .. Ring - 1 -> Nat \X Nat]
    OBVIOUS
  <2>2. PICK D : D = BOOLEAN
    OBVIOUS
  <2>3. PICK r \in [id : Nat, n : Nat, done : D, slots : F] : r = buf[b]
    BY <2>1, <2>2 DEF ToolTyped, Buffers
  <2>4. PICK f \in D : f = FALSE
    BY <2>2
  <2>5. PICK x \in Nat : x = r.id + 1
    OBVIOUS
  <2>6. [r EXCEPT !.id = x, !.n = 0, !.done = f] \in [id : Nat, n : Nat, done : D, slots : F]
    OBVIOUS
  <2>7. /\ [r EXCEPT !.id = x, !.n = 0, !.done = f].id = x
        /\ [r EXCEPT !.id = x, !.n = 0, !.done = f].n = 0
        /\ [r EXCEPT !.id = x, !.n = 0, !.done = f].done = f
    OBVIOUS
  <2> QED BY <2>1, <2>2, <2>3, <2>4, <2>5, <2>6, <2>7 DEF Buffers
<1>3. buf' \in [Bufs -> Buffers]
  BY <1>1, <1>2
<1>4. ASSUME NEW b \in Bufs \cap S
      PROVE  buf'[b].id = buf[b].id + 1 /\ buf'[b].n = 0 /\ buf'[b].done = FALSE
  <2>1. buf'[b] = [buf[b] EXCEPT !.id = buf[b].id + 1, !.n = 0, !.done = FALSE]
    BY <1>1
  <2> QED BY <1>2, <2>1
<1>5. \A b \in Bufs \ S : buf'[b] = buf[b]
  BY <1>1
<1> QED BY <1>3, <1>4, <1>5 DEF Rewound

\* What FwWrite does.
LEMMA WriteEffect ==
    ASSUME ToolTyped, NEW b \in Bufs, FwWrite(b)
    PROVE  Advanced(b)
<1>1. PICK i \in 0 .. Ring - 1 : i = buf[b].n % Ring
  <2>1. buf[b].n \in Nat /\ Ring \in Nat \ {0}
    BY ToolConstants DEF ToolTyped, Buffers
  <2> QED BY <2>1
<1>2. PICK x \in Nat \X Nat : x = <<buf[b].id, buf[b].n>>
  BY DEF ToolTyped, Buffers
<1>3. PICK f \in BOOLEAN : f <=> (b[1] = "wave" /\ buf[b].n + 1 = Ring)
  OBVIOUS
<1>4. PICK s \in [0 .. Ring - 1 -> Nat \X Nat] : s = [buf[b].slots EXCEPT ![i] = x]
  BY DEF ToolTyped, Buffers
<1>5. PICK B \in Buffers : B = [buf[b] EXCEPT !.n = buf[b].n + 1, !.slots = s, !.done = f]
  <2>1. PICK F : F = [0 .. Ring - 1 -> Nat \X Nat]
    OBVIOUS
  <2>2. PICK D : D = BOOLEAN
    OBVIOUS
  <2>3. PICK r \in [id : Nat, n : Nat, done : D, slots : F] : r = buf[b]
    BY <2>1, <2>2 DEF ToolTyped, Buffers
  <2>4. s \in F /\ f \in D
    BY <2>1, <2>2
  <2>5. PICK m \in Nat : m = r.n + 1
    OBVIOUS
  <2>6. [r EXCEPT !.n = m, !.slots = s, !.done = f] \in [id : Nat, n : Nat, done : D, slots : F]
    BY <2>4
  <2> QED BY <2>1, <2>2, <2>3, <2>5, <2>6 DEF Buffers
<1>6. B.id = buf[b].id /\ B.n = buf[b].n + 1 /\ B.slots = s /\ B.done = f
  BY <1>5 DEF ToolTyped, Buffers
<1>7. ~buf[b].done /\ buf' = [buf EXCEPT ![b] = B]
  <2>1. ~buf[b].done
    BY DEF FwWrite
  <2>2. buf' = [buf EXCEPT ![b].n = buf[b].n + 1, ![b].slots[i] = x, ![b].done = f]
    <3>1. f = (b[1] = "wave" /\ buf[b].n + 1 = Ring)
      BY <1>3
    <3> QED BY <1>1, <1>2, <3>1 DEF FwWrite
  <2>3. buf' = [buf EXCEPT ![b] = B]
    BY <1>4, <1>5, <2>2 DEF ToolTyped, Buffers
  <2> QED BY <2>1, <2>3
<1>8. /\ buf' \in [Bufs -> Buffers] /\ buf'[b] = B /\ \A c \in Bufs \ {b} : buf'[c] = buf[c]
  BY <1>7 DEF ToolTyped
<1> QED BY <1>1, <1>2, <1>3, <1>4, <1>6, <1>7, <1>8 DEF Advanced

\* What FwEnd does.
LEMMA EndEffect ==
    ASSUME ToolTyped, NEW a \in Fetched, FwEnd(a)
    PROVE  Advanced(A(a))
<1>1. PICK b \in Bufs : b = A(a) /\ b[1] = "array" /\ ~buf[b].done
  BY BufKinds DEF FwEnd
<1>2. PICK B \in Buffers : B = [buf[b] EXCEPT !.done = TRUE]
  <2>1. [buf[b] EXCEPT !.done = TRUE] \in Buffers
    BY DEF ToolTyped, Buffers
  <2> QED BY <2>1
<1>3. B.id = buf[b].id /\ B.n = buf[b].n /\ B.slots = buf[b].slots
  BY <1>2 DEF ToolTyped, Buffers
<1>4. buf' = [buf EXCEPT ![b] = B]
  BY <1>1, <1>2 DEF FwEnd
<1>5. /\ buf' \in [Bufs -> Buffers] /\ buf'[b] = B /\ \A c \in Bufs \ {b} : buf'[c] = buf[c]
  BY <1>4 DEF ToolTyped
<1> QED BY <1>1, <1>3, <1>5 DEF Advanced

\* Nothing but the firmware's buffers changes.
ToolUnchanged == UNCHANGED <<vars, at, opts, raw, fetch, got, looked, saved, file, runs, others, region>>

\* A step of the client, of another program or of the firmware, as the buffers see it.
LEMMA BufSteps ==
    ASSUME ToolTyped, [ToolNext]_allVars
    PROVE  \/ UNCHANGED buf
           \/ \E S : Rewound(S)
           \/ ToolUnchanged /\ \E b \in Bufs : Advanced(b)
<1>1. ASSUME NEW S, Rewind(S) PROVE \E R : Rewound(R)
  BY <1>1, RewindEffect
<1>2. ASSUME NEW a \in Fetched, FwStart(a) \/ FwEnd(a)
      PROVE  (\E S : Rewound(S)) \/ (ToolUnchanged /\ \E b \in Bufs : Advanced(b))
  <2>1. CASE FwStart(a)
    BY <1>1, <2>1 DEF FwStart
  <2>2. CASE FwEnd(a)
    <3>1. ToolUnchanged
      BY <2>2 DEF FwEnd, ToolUnchanged
    <3> QED BY <2>2, <3>1, EndEffect, BufKinds
  <2> QED BY <1>2, <2>1, <2>2
<1>3. ASSUME NEW b \in Bufs, FwWrite(b) PROVE ToolUnchanged /\ \E c \in Bufs : Advanced(c)
  <2>1. ToolUnchanged
    BY <1>3 DEF FwWrite, ToolUnchanged
  <2> QED BY <1>3, <2>1, WriteEffect
<1>4. ASSUME ToolInitialize PROVE UNCHANGED buf \/ \E S : Rewound(S)
  BY <1>1, <1>4 DEF ToolInitialize
<1>5. ASSUME ToolInitRaw PROVE UNCHANGED buf \/ \E S : Rewound(S)
  BY <1>1, <1>5 DEF ToolInitRaw, Strobe
<1>6. ASSUME Rearm \/ Clear PROVE \E S : Rewound(S)
  BY <1>1, <1>6 DEF Rearm, Clear, Strobe
<1>7. ASSUME OtherStep PROVE UNCHANGED buf \/ \E S : Rewound(S)
  BY <1>1, <1>7 DEF OtherStep, Strobe
<1>8. ASSUME Diag \/ Dump \/ ToolDone \/ Get \/ Fill \/ ToolEnd \/ Killed \/ OtherStart \/ OtherEnd
      PROVE  UNCHANGED buf
  BY <1>8 DEF Diag, Dump, ToolDone, Get, Fill, ToolEnd, Killed, OtherStart, OtherEnd, Exit
<1>9. ASSUME NEW o, Start(o) PROVE UNCHANGED buf
  BY <1>9 DEF Start
<1>10. CASE UNCHANGED allVars
  BY <1>10 DEF allVars, toolVars
<1> QED BY <1>2, <1>3, <1>4, <1>5, <1>6, <1>7, <1>8, <1>9, <1>10 DEF ToolNext

\* The lowest of some arrays is one of them.
LEMMA LowestExists ==
    ASSUME NEW T \in SUBSET Nat, T # {}
    PROVE  Min(T) \in T
<1> DEFINE R == OpToRel(<, Nat)
<1>1. PICK x \in T : \A y \in T : ~(<<y, x>> \in R)
  <2>1. IsWellFoundedOn(R, Nat)
    BY NatLessThanWellFounded, Zenon
  <2> HIDE DEF R
  <2> QED BY <2>1, WFMin, Zenon
<1>2. \A y \in T : ~(y < x)
  <2> TAKE y \in T
  <2>1. y \in Nat /\ x \in Nat
    OBVIOUS
  <2>2. <<y, x>> \in R <=> y < x
    BY <2>1, Zenon DEF OpToRel
  <2> HIDE DEF R
  <2> QED BY <1>1, <2>2
<1> HIDE DEF R
<1>3. \A y \in T : x <= y
  BY <1>2
<1> QED BY <1>3, Zenon DEF Min

\* get() takes one of the arrays that are left.
LEMMA GetTakes ==
    ASSUME ToolTyped, Get, pc = "ready", buf[A(Min(fetch))].n # 0
    PROVE  \E x \in fetch :
              /\ x \in Fetched /\ fetch' = fetch \ {x} /\ got'.of = A(x)
              /\ got'.n = buf[A(x)].n /\ buf[A(x)].n # 0
              /\ at' = "fill" /\ UNCHANGED <<vars, buf, opts, raw, looked, saved, file, runs, others, region>>
<1>1. fetch # {} /\ fetch \in SUBSET Nat
  BY ToolConstants, LayoutConstants DEF Get, ToolTyped, Arrays
<1>2. PICK x \in fetch : x = Min(fetch)
  BY <1>1, LowestExists
<1>3. /\ got' = [of |-> A(x), id |-> buf[A(x)].id, n |-> buf[A(x)].n] /\ fetch' = fetch \ {x}
      /\ at' = "fill" /\ UNCHANGED <<vars, buf, opts, raw, looked, saved, file, runs, others, region>>
  BY <1>2 DEF Get
<1> QED BY <1>2, <1>3 DEF ToolTyped

\* The types hold at the start.
LEMMA InitToolTyped == ToolInit => ToolTyped
<1> SUFFICES ASSUME ToolInit PROVE ToolTyped
  OBVIOUS
<1>1. PICK F : F = [0 .. Ring - 1 -> Nat \X Nat]
  OBVIOUS
<1>2. [i \in 0 .. Ring - 1 |-> <<0, 0>>] \in F
  BY <1>1
<1>3. PICK B \in Buffers : B = [id |-> 0, n |-> 0, done |-> FALSE, slots |-> [i \in 0 .. Ring - 1 |-> <<0, 0>>]]
  BY <1>1, <1>2 DEF Buffers
<1>4. buf = [b \in Bufs |-> B]
  BY <1>3 DEF ToolInit
<1>5. looked = [b \in Bufs |-> 0] /\ at = "none" /\ opts.force = {} /\ raw = 0 /\ fetch = {}
  BY DEF ToolInit, NoOptions
<1> QED BY <1>4, <1>5 DEF ToolTyped, Points

\* Every step keeps the types.
LEMMA ToolTypedNext == ToolTyped /\ [ToolNext]_allVars => ToolTyped'
<1> SUFFICES ASSUME ToolTyped, [ToolNext]_allVars PROVE ToolTyped'
  OBVIOUS
<1>1. buf' \in [Bufs -> Buffers]
  <2>1. UNCHANGED buf => buf' \in [Bufs -> Buffers]
    BY DEF ToolTyped
  <2> QED BY <2>1, BufSteps DEF Rewound, Advanced
<1>2. ASSUME NEW B, Look(B) PROVE looked' \in [Bufs -> Nat]
  <2>1. \A b \in Bufs : buf[b].id \in Nat /\ looked[b] \in Nat
    BY DEF ToolTyped, Buffers
  <2> QED BY <1>2, <2>1 DEF Look
<1>3. ASSUME Exit PROVE ToolTyped'
  BY <1>1, <1>3 DEF Exit, ToolTyped, Points, NoOptions
<1>4. ASSUME UNCHANGED <<opts, raw, fetch, looked>>, at' \in Points PROVE ToolTyped'
  BY <1>1, <1>4 DEF ToolTyped
<1>5. ASSUME ToolUnchanged PROVE ToolTyped'
  BY <1>1, <1>5 DEF ToolUnchanged, ToolTyped
<1>6. ASSUME NEW a \in Fetched, FwStart(a) \/ FwEnd(a) PROVE ToolTyped'
  BY <1>5, <1>6 DEF FwStart, FwEnd, ToolUnchanged
<1>7. ASSUME NEW b \in Bufs, FwWrite(b) PROVE ToolTyped'
  BY <1>5, <1>7 DEF FwWrite, ToolUnchanged
<1>8. ASSUME NEW o \in Options, Start(o) PROVE ToolTyped'
  <2>1. o.force \in SUBSET Fetched
    BY DEF Options, AllOptions
  <2> QED BY <1>1, <1>8, <2>1 DEF Start, ToolTyped, Points
<1>9. CASE ToolInitialize
  BY <1>1, <1>9 DEF ToolInitialize, ToolTyped
<1>10. CASE ToolInitRaw
  <2>1. raw' \in Nat /\ at' \in Points
    BY <1>10 DEF ToolInitRaw, ToolTyped, Points
  <2> QED BY <1>1, <1>10, <2>1 DEF ToolInitRaw, ToolTyped
<1>11. CASE Diag
  <2>1. at' \in Points
    BY <1>11 DEF Diag, Points
  <2>2. looked' \in [Bufs -> Nat]
    BY <1>2, <1>11 DEF Diag
  <2> QED BY <1>1, <1>11, <2>1, <2>2 DEF Diag, ToolTyped
<1>12. CASE Dump
  BY <1>4, <1>12 DEF Dump, Points
<1>13. CASE Rearm
  BY <1>4, <1>13 DEF Rearm, Points
<1>14. CASE ToolDone
  <2>1. at' \in Points /\ UNCHANGED <<opts, raw>>
    BY <1>14 DEF ToolDone, Points
  <2>2. looked' \in [Bufs -> Nat]
    <3>1. UNCHANGED looked => looked' \in [Bufs -> Nat]
      BY DEF ToolTyped
    <3> QED BY <1>2, <1>14, <3>1 DEF ToolDone
  <2>3. fetch' \in SUBSET Fetched
    BY <1>14 DEF ToolDone, ToolTyped
  <2> QED BY <1>1, <2>1, <2>2, <2>3 DEF ToolTyped
<1>15. CASE Get
  <2>1. CASE pc = "ready" /\ buf[A(Min(fetch))].n # 0
    <3>1. PICK x \in fetch : fetch' = fetch \ {x} /\ at' = "fill" /\ UNCHANGED <<opts, raw, looked>>
      BY <1>15, <2>1, GetTakes
    <3> QED BY <1>1, <3>1 DEF ToolTyped, Points
  <2>2. CASE ~(pc = "ready" /\ buf[A(Min(fetch))].n # 0)
    BY <1>3, <1>15, <2>2 DEF Get
  <2> QED BY <2>1, <2>2
<1>16. CASE Fill
  BY <1>4, <1>16 DEF Fill, AfterNoFile, Points
<1>17. CASE Clear
  BY <1>4, <1>17 DEF Clear, Points
<1>18. CASE ToolEnd \/ Killed \/ OtherEnd
  BY <1>3, <1>18 DEF ToolEnd, Killed, OtherEnd
<1>19. CASE OtherStart
  BY <1>4, <1>19 DEF OtherStart, Points
<1>20. CASE OtherStep
  <2>1. raw' \in Nat
    BY <1>20 DEF OtherStep, ToolTyped
  <2> QED BY <1>1, <1>20, <2>1 DEF OtherStep, ToolTyped
<1>21. CASE UNCHANGED allVars
  BY <1>5, <1>21 DEF allVars, toolVars, ToolUnchanged
<1> QED BY <1>6, <1>7, <1>8, <1>9, <1>10, <1>11, <1>12, <1>13, <1>14, <1>15, <1>16, <1>17, <1>18,
           <1>19, <1>20, <1>21 DEF ToolNext

-----------------------------------------------------------------------------
(* Where the client puts the waveform buffers *)

\* The registers of a waveform buffer are some buffer's.
LEMMA RegisterIsWave == \A i \in Nat : Register(i) \in Waves
<1> TAKE i \in Nat
<1>1. PICK g \in Nat \ {0} : g = Group
  BY ToolConstants
<1>2. i % g \in 0 .. g - 1
  BY <1>1
<1>3. Register(i) \in 0 .. 2 * g - 1
  BY <1>1, <1>2 DEF Register
<1> QED BY <1>1, <1>3, ToolConstants

\* A step of the layout, or the client's allocation of the next waveform buffer.
LayoutStep == [Next]_vars \/ RawStart(Register(raw), DiagUnits)

\* The client and other programs use the layout as it is used there.
LEMMA ToolLayout == [ToolNext]_allVars => LayoutStep
<1> SUFFICES ASSUME [ToolNext]_allVars PROVE LayoutStep
  OBVIOUS
<1>1. ASSUME UNCHANGED vars PROVE LayoutStep
  BY <1>1 DEF LayoutStep
<1>2. ASSUME Exit PROVE LayoutStep
  BY <1>2 DEF Exit, LayoutStep, Next
<1>3. ASSUME NEW a \in Fetched, FwStart(a) \/ FwEnd(a) PROVE LayoutStep
  BY <1>1, <1>3 DEF FwStart, FwEnd
<1>4. ASSUME NEW b \in Bufs, FwWrite(b) PROVE LayoutStep
  BY <1>1, <1>4 DEF FwWrite
<1>5. ASSUME NEW o \in Options, Start(o) PROVE LayoutStep
  BY <1>1, <1>5 DEF Start
<1>6. CASE ToolInitialize
  BY <1>6 DEF ToolInitialize, LayoutStep, Next
<1>7. CASE ToolInitRaw
  BY <1>1, <1>7 DEF ToolInitRaw, LayoutStep, Next
<1>8. CASE Diag \/ Dump \/ Rearm \/ ToolDone \/ Fill \/ Clear \/ OtherStart
  BY <1>1, <1>8 DEF Diag, Dump, Rearm, ToolDone, Fill, Clear, OtherStart
<1>9. CASE Get
  BY <1>1, <1>2, <1>9 DEF Get
<1>10. CASE ToolEnd \/ Killed \/ OtherEnd
  BY <1>2, <1>10 DEF ToolEnd, Killed, OtherEnd
<1>11. CASE OtherStep
  BY <1>11 DEF OtherStep, LayoutStep, Next
<1>12. CASE UNCHANGED allVars
  BY <1>1, <1>12 DEF allVars
<1> QED BY <1>3, <1>4, <1>5, <1>6, <1>7, <1>8, <1>9, <1>10, <1>11, <1>12 DEF ToolNext

\* Hence they keep the layout's invariant.
LEMMA ToolKeepsLayout == ToolTyped /\ IInv /\ [ToolNext]_allVars => IInv'
<1> SUFFICES ASSUME ToolTyped, IInv, [ToolNext]_allVars PROVE IInv'
  OBVIOUS
<1>1. CASE [Next]_vars
  BY <1>1, NextIInv
<1>2. CASE RawStart(Register(raw), DiagUnits)
  <2>1. Register(raw) \in Waves /\ DiagUnits \in Nat
    BY RegisterIsWave, ToolConstants DEF ToolTyped
  <2> QED BY <1>2, <2>1, RawStartIInv
<1> QED BY <1>1, <1>2, ToolLayout DEF LayoutStep

\* Where the client puts its i-th waveform buffer.
WavePlace(i) == Place(HSTARRAYN) + i * Rounded(DiagUnits)

\* Waveform buffers lie above the arrays, one above the other.
LEMMA WavePlaces ==
    /\ WavePlace(0) = Place(HSTARRAYN) /\ Place(HSTARRAYN) \in Nat /\ Rounded(DiagUnits) \in Nat
    /\ \A i \in Nat : /\ WavePlace(i) \in Nat /\ Place(HSTARRAYN) <= WavePlace(i)
                      /\ WavePlace(i + 1) = WavePlace(i) + Rounded(DiagUnits)
    /\ \A i, j \in Nat : i < j => WavePlace(i + 1) <= WavePlace(j)
<1>1. PICK r \in Nat, t \in Nat : r = Rounded(DiagUnits) /\ t = Place(HSTARRAYN)
  <2>1. DiagUnits \in Nat /\ HSTARRAYN \in Nat
    BY ToolConstants, LayoutConstants
  <2> QED BY <2>1, RoundedNat, PlaceStep
<1>2. \A i \in Nat : i * r \in Nat /\ (i + 1) * r = i * r + r
  OBVIOUS
<1>3. 0 * r = 0
  OBVIOUS
<1>4. ASSUME NEW i \in Nat, NEW j \in Nat, i < j PROVE WavePlace(i + 1) <= WavePlace(j)
  <2>1. (i + 1) * r <= j * r
    BY <1>4, TimesMonotone
  <2>2. PICK x \in Nat, y \in Nat : x = (i + 1) * r /\ y = j * r
    BY <1>2
  <2> QED BY <1>1, <2>1, <2>2 DEF WavePlace
<1>5. ASSUME NEW i \in Nat
      PROVE  /\ WavePlace(i) \in Nat /\ Place(HSTARRAYN) <= WavePlace(i)
             /\ WavePlace(i + 1) = WavePlace(i) + Rounded(DiagUnits)
  <2>1. PICK x \in Nat, y \in Nat : x = i * r /\ y = (i + 1) * r /\ y = x + r
    BY <1>2
  <2>2. WavePlace(i) = t + x /\ WavePlace(i + 1) = t + y
    BY <1>1, <2>1 DEF WavePlace
  <2> QED BY <1>1, <2>1, <2>2
<1> QED BY <1>1, <1>3, <1>4, <1>5 DEF WavePlace

\* Some run of the client has begun to set waveform buffer w up.
Begun(w) == waveRegs[w].on \/ owed[w] # "none"

\* It was the i-th one of that run, which did not get to its end or did.
PutAt(w, i) ==
    /\ Register(i) = w /\ waveRegs[w].start = WavePlace(i)
    /\ owed[w] = "EndAddr" \/ waveRegs[w].end = WavePlace(i + 1)

\* As long as there was no other program: every waveform buffer lies where the
\* client puts one with its registers, and _memEnd above the ones of this run.
Placed ==
    ~others =>
        /\ at # "other"
        /\ at = "none" => raw = 0
        /\ at = "init" => IF pc = "ready" THEN memEnd = WavePlace(raw) ELSE raw = 0
        /\ target # <<>> => target = <<Register(raw), WavePlace(raw + 1)>> /\ at = "init"
        /\ \A w \in Waves : Begun(w) => \E i \in Nat : PutAt(w, i)

\* No waveform buffer is enabled at the start.
LEMMA InitPlaced == ToolInit => Placed
BY DEF ToolInit, Init, Placed, Begun, NoRegs

\* The client is at its next waveform buffer, and has written the start, if not the
\* end: then every buffer is in its place if the others were.
LEMMA PutNext ==
    ASSUME ToolTyped, \A w \in Waves : Begun(w) => \E i \in Nat : PutAt(w, i),
           waveRegs'[Register(raw)].start = WavePlace(raw),
           owed'[Register(raw)] = "EndAddr" \/ waveRegs'[Register(raw)].end = WavePlace(raw + 1),
           \A v \in Waves \ {Register(raw)} : waveRegs'[v] = waveRegs[v] /\ owed'[v] = owed[v]
    PROVE  \A w \in Waves : Begun(w)' => \E i \in Nat : PutAt(w, i)'
<1> SUFFICES ASSUME NEW w \in Waves, Begun(w)' PROVE \E i \in Nat : PutAt(w, i)'
  OBVIOUS
<1>1. CASE w = Register(raw)
  <2>1. PICK i \in Nat : i = raw
    BY DEF ToolTyped
  <2>2. PutAt(w, i)'
    BY <1>1, <2>1 DEF PutAt
  <2> QED BY <2>2
<1>2. CASE w # Register(raw)
  <2>1. waveRegs'[w] = waveRegs[w] /\ owed'[w] = owed[w]
    BY <1>2
  <2>2. Begun(w)
    BY <2>1 DEF Begun
  <2>3. PICK i \in Nat : PutAt(w, i)
    BY <2>2
  <2>4. PutAt(w, i)'
    BY <2>1, <2>3 DEF PutAt
  <2> QED BY <2>4
<1> QED BY <1>1, <1>2

\* Every step leaves the waveform buffers at such places.
LEMMA PlacedNext == ToolTyped /\ IInv /\ Placed /\ [ToolNext]_allVars => Placed'
<1> SUFFICES ASSUME ToolTyped, IInv, Placed, [ToolNext]_allVars PROVE Placed'
  OBVIOUS
<1>0. CASE others'
  BY <1>0 DEF Placed
<1> SUFFICES ASSUME ~others' PROVE Placed'
  BY <1>0
<1>1. ASSUME UNCHANGED <<waveRegs, memEnd, pc, target, owed, raw, others>>,
             UNCHANGED at \/ (at' \in Points \ {"none", "init", "other"} /\ target = <<>>)
      PROVE  Placed'
  <2>1. \A w \in Waves : Begun(w)' => \E i \in Nat : PutAt(w, i)'
    BY <1>1 DEF Placed, Begun, PutAt
  <2> QED BY <1>1, <2>1 DEF Placed
<1>2. ASSUME Exit PROVE Placed'
  <2>1. \A w \in Waves : Begun(w)' => \E i \in Nat : PutAt(w, i)'
    BY <1>2 DEF Exit, Recreate, Placed, Begun, PutAt
  <2> QED BY <1>2, <2>1 DEF Exit, Recreate, Placed
<1>3. ASSUME NEW a \in Fetched, FwStart(a) \/ FwEnd(a) PROVE Placed'
  BY <1>1, <1>3 DEF FwStart, FwEnd, vars
<1>4. ASSUME NEW b \in Bufs, FwWrite(b) PROVE Placed'
  BY <1>1, <1>4 DEF FwWrite, vars
<1>5. ASSUME NEW o \in Options, Start(o) PROVE Placed'
  <2>1. \A w \in Waves : Begun(w)' => \E i \in Nat : PutAt(w, i)'
    BY <1>5 DEF Start, vars, Placed, Begun, PutAt
  <2>2. target = <<>> /\ UNCHANGED <<target, raw, pc>> /\ pc = "new" /\ raw = 0 /\ at' \in {"init", "diag"}
    BY <1>5 DEF Start, vars, IInv, WavesAbove, Placed
  <2> QED BY <2>1, <2>2 DEF Placed
<1>6. CASE ToolInitialize
  <2>1. at = "init" /\ ~others /\ UNCHANGED <<waveRegs, owed, target, at, raw, others>>
    BY <1>6 DEF ToolInitialize, StartInitialize, InitializeArray, EndInitialize
  <2>2. \A w \in Waves : Begun(w)' => \E i \in Nat : PutAt(w, i)'
    BY <2>1 DEF Placed, Begun, PutAt
  <2>3. CASE pc' # "ready"
    <3>1. pc # "ready"
      BY <1>6, <2>3 DEF ToolInitialize, StartInitialize, InitializeArray, EndInitialize
    <3> QED BY <2>1, <2>2, <2>3, <3>1 DEF Placed
  <2>4. CASE pc' = "ready"
    <3>1. EndInitialize
      BY <1>6, <2>4 DEF ToolInitialize, StartInitialize, InitializeArray
    <3>2. memEnd' = WavePlace(0) /\ raw = 0
      BY <2>1, <3>1, WavePlaces DEF EndInitialize, IInv, InPlace, Placed
    <3> QED BY <2>1, <2>2, <2>4, <3>2 DEF Placed
  <2> QED BY <2>3, <2>4
<1>7. CASE ToolInitRaw
  <2>1. CASE target = <<>> /\ at' = "diag" /\ UNCHANGED <<vars, buf, raw, region>>
    BY <1>1, <1>7, <2>1 DEF ToolInitRaw, Points, vars
  <2>2. ~others /\ at = "init" /\ pc = "ready" /\ memEnd = WavePlace(raw) /\ UNCHANGED others
    BY <1>7 DEF ToolInitRaw, Placed
  <2>3. PICK w \in Waves, top \in Nat, i \in Nat :
           /\ w = Register(raw) /\ i = raw /\ top = WavePlace(i + 1)
           /\ top = memEnd + Rounded(DiagUnits)
    <3>1. raw \in Nat /\ Register(raw) \in Waves
      BY RegisterIsWave DEF ToolTyped
    <3> QED BY <2>2, <3>1, WavePlaces
  <2>4. \A v \in Waves : Begun(v) => \E k \in Nat : PutAt(v, k)
    BY <2>2 DEF Placed
  <2>5. CASE RawStart(w, DiagUnits) /\ UNCHANGED <<at, raw>>
    <3>1. /\ waveRegs'[w].start = memEnd /\ owed'[w] = "EndAddr"
          /\ \A v \in Waves \ {w} : waveRegs'[v] = waveRegs[v] /\ owed'[v] = owed[v]
      BY <2>5 DEF RawStart, IInv, TypeOK
    <3>2. \A v \in Waves : Begun(v)' => \E k \in Nat : PutAt(v, k)'
      BY <2>2, <2>3, <2>4, <3>1, PutNext
    <3>3. target' = <<w, top>> /\ UNCHANGED <<pc, memEnd>>
      BY <2>3, <2>5 DEF RawStart
    <3> QED BY <2>2, <2>3, <2>5, <3>2, <3>3 DEF Placed
  <2>6. ASSUME RawEnd \/ RawEnable \/ RawInit
        PROVE  /\ target = <<w, top>> /\ pc' = pc
               /\ \A v \in Waves : Begun(v)' => \E k \in Nat : PutAt(v, k)'
    <3>1. target # <<>>
      BY <2>6 DEF RawEnd, RawEnable, RawInit, Owing
    <3>2. target = <<w, top>>
      BY <2>2, <2>3, <3>1 DEF Placed
    <3>3. target[1] = w /\ target[2] = top
      BY <3>2
    <3>4. waveRegs[w].start = memEnd /\ (owed[w] # "EndAddr" => waveRegs[w].end = top)
      BY <3>1, <3>3 DEF IInv, Setting
    <3>5. /\ waveRegs'[w].start = memEnd /\ waveRegs'[w].end = top /\ pc' = pc
          /\ \A v \in Waves \ {w} : waveRegs'[v] = waveRegs[v] /\ owed'[v] = owed[v]
      <4>1. CASE RawEnd
        BY <3>3, <3>4, <4>1 DEF RawEnd, IInv, TypeOK
      <4>2. CASE RawEnable
        BY <3>3, <3>4, <4>2 DEF RawEnable, Owing, IInv, TypeOK
      <4>3. CASE RawInit
        BY <3>3, <3>4, <4>3 DEF RawInit, Owing, IInv, TypeOK
      <4> QED BY <2>6, <4>1, <4>2, <4>3
    <3> QED BY <2>2, <2>3, <2>4, <3>2, <3>5, PutNext
  <2>7. CASE (RawEnd \/ RawEnable) /\ UNCHANGED <<at, raw>>
    <3>1. UNCHANGED <<target, memEnd>>
      BY <2>7 DEF RawEnd, RawEnable
    <3> QED BY <2>2, <2>3, <2>6, <2>7, <3>1 DEF Placed
  <2>8. CASE RawInit /\ raw' = raw + 1 /\ UNCHANGED at
    <3>1. memEnd' = top /\ target' = <<>>
      BY <2>6, <2>8 DEF RawInit
    <3> QED BY <2>2, <2>3, <2>6, <2>8, <3>1 DEF Placed
  <2> QED BY <1>7, <2>1, <2>3, <2>5, <2>7, <2>8 DEF ToolInitRaw
<1>8. CASE Diag \/ Dump \/ Rearm \/ ToolDone \/ Fill \/ Clear
  <2>1. at # "init" /\ UNCHANGED <<vars, raw, others>> /\ at' \in Points \ {"none", "init", "other"}
    BY <1>8 DEF Diag, Dump, Rearm, ToolDone, Fill, AfterNoFile, Clear, Points
  <2>2. target = <<>>
    BY <2>1 DEF Placed
  <2> QED BY <1>1, <2>1, <2>2 DEF vars
<1>9. CASE Get
  <2>1. Exit \/ (at' = "fill" /\ at # "init" /\ UNCHANGED <<vars, raw, others>>)
    BY <1>9 DEF Get
  <2>2. at # "init" /\ UNCHANGED others => target = <<>>
    BY DEF Placed
  <2> QED BY <1>1, <1>2, <2>1, <2>2 DEF vars, Points
<1>10. CASE ToolEnd \/ Killed \/ OtherEnd
  BY <1>2, <1>10 DEF ToolEnd, Killed, OtherEnd
<1>11. CASE OtherStart
  BY <1>11 DEF OtherStart
<1>12. CASE OtherStep
  BY <1>12 DEF OtherStep, Placed
<1>13. CASE UNCHANGED allVars
  BY <1>1, <1>13 DEF allVars, toolVars, vars
<1> QED BY <1>3, <1>4, <1>5, <1>6, <1>7, <1>8, <1>9, <1>10, <1>11, <1>12, <1>13 DEF ToolNext

\* The layout's invariant holds whatever programs are run.
LEMMA ToolLayoutInvariant == ToolSpec => [](ToolTyped /\ IInv)
<1>1. ToolInit => ToolTyped /\ IInv
  BY InitToolTyped, InitIInv DEF ToolInit
<1>2. ToolTyped /\ IInv /\ [ToolNext]_allVars => (ToolTyped /\ IInv)'
  BY ToolTypedNext, ToolKeepsLayout
<1> QED BY <1>1, <1>2, PTL DEF ToolSpec

\* So the buffers stay disjoint, and get() within them, through every run of the
\* client, each with registers and buffers of its own making.
THEOREM ToolNeverShares ==
    ToolSpec => [](ArraysDisjoint /\ EnabledDisjoint /\ WavesDisjoint)
BY PlacedIsDisjoint, ToolLayoutInvariant, PTL

\* However many waveform buffers each run of the client asks for, with whatever
\* registers two blocks give them, and wherever a run is stopped, the enabled ones
\* overlap no enabled array, nor each other but for one left with half its address,
\* as long as no other program moved them.
THEOREM CapturesNeverShare == ToolSpec => []CapturesDisjoint
<1>1. IInv /\ Placed => CapturesDisjoint
  <2> SUFFICES ASSUME IInv, Placed, ~others, NEW w \in Waves, waveRegs[w].on
               PROVE  /\ \A v \in Waves \ {w} :
                            waveRegs[v].on /\ owed[v] # "EndAddr" /\ owed[w] # "EndAddr"
                            => Disjoint(waveRegs[w], waveRegs[v])
                      /\ \A a \in Arrays : arrayRegs[a].on => Disjoint(waveRegs[w], arrayRegs[a])
    BY DEF CapturesDisjoint
  <2>1. PICK i \in Nat : PutAt(w, i)
    BY DEF Placed, Begun
  <2>2. ASSUME NEW v \in Waves \ {w}, waveRegs[v].on, owed[v] # "EndAddr", owed[w] # "EndAddr"
        PROVE  Disjoint(waveRegs[w], waveRegs[v])
    <3>1. PICK j \in Nat : PutAt(v, j)
      BY <2>2 DEF Placed, Begun
    <3>2. i # j
      BY <2>1, <3>1 DEF PutAt
    <3>3. CASE i < j
      BY <2>1, <2>2, <3>1, <3>3, WavePlaces DEF PutAt, Disjoint
    <3>4. CASE j < i
      BY <2>1, <2>2, <3>1, <3>4, WavePlaces DEF PutAt, Disjoint
    <3> QED BY <3>2, <3>3, <3>4
  <2>3. ASSUME NEW a \in Arrays, arrayRegs[a].on PROVE Disjoint(waveRegs[w], arrayRegs[a])
    <3>1. a \in Nat /\ a + 1 \in Nat /\ a + 1 <= HSTARRAYN /\ HSTARRAYN \in Nat
      BY LayoutConstants DEF Arrays
    <3>2. arrayRegs[a].end = Place(a + 1)
      BY <2>3 DEF IInv, InPlace
    <3>3. Place(a + 1) <= Place(HSTARRAYN) /\ Place(a + 1) \in Nat
      BY <3>1, PlaceMonotone, PlaceStep
    <3>4. PICK x \in Nat, y \in Nat, z \in Nat :
             x = Place(a + 1) /\ y = Place(HSTARRAYN) /\ z = WavePlace(i) /\ x <= y /\ y <= z
      BY <3>3, WavePlaces
    <3>5. arrayRegs[a].end <= waveRegs[w].start
      BY <2>1, <3>2, <3>4 DEF PutAt
    <3> QED BY <3>5 DEF Disjoint
  <2> QED BY <2>2, <2>3
<1> QED BY <1>1, ToolLayoutInvariant, InitPlaced, PlacedNext, PTL DEF ToolSpec

-----------------------------------------------------------------------------
(* What the files hold *)

\* The Ring newest slots written since the last rewind are in the memory.
Holds(B) == \A m \in Nat : m < B.n /\ B.n <= m + Ring => B.slots[m % Ring] = <<B.id, m>>

\* So it is for every buffer; a waveform buffer is done when, and only when, it is full.
Contents ==
    /\ \A b \in Bufs : Holds(buf[b])
    /\ \A w \in Captured : IF buf[W(w)].done THEN buf[W(w)].n = Ring ELSE buf[W(w)].n < Ring

\* Less than Ring apart no two slots are the same.
LEMMA SlotsApart ==
    ASSUME NEW c \in Nat \ {0}, NEW m \in Nat, NEW n \in Nat, m < n, n < m + c
    PROVE  m % c # n % c /\ m % c \in 0 .. c - 1 /\ n % c \in 0 .. c - 1
<1> SUFFICES ASSUME m % c = n % c PROVE FALSE
  OBVIOUS
<1> DEFINE q == m \div c
           s == n \div c
<1>1. /\ q \in Nat /\ s \in Nat /\ q * c \in Nat /\ s * c \in Nat /\ (m % c) \in Nat
      /\ m = q * c + (m % c) /\ n = s * c + (n % c)
  <2>1. q \in Nat /\ s \in Nat /\ (m % c) \in Nat
    OBVIOUS
  <2>2. m = q * c + (m % c) /\ n = s * c + (n % c)
    OBVIOUS
  <2> HIDE DEF q, s
  <2>3. q * c \in Nat /\ s * c \in Nat
    BY <2>1
  <2> QED BY <2>1, <2>2, <2>3
<1> HIDE DEF q, s
<1>2. q * c < s * c /\ s * c < q * c + c
  <2>1. PICK x \in Nat, y \in Nat, z \in Nat : x = q * c /\ y = s * c /\ z = m % c
    BY <1>1
  <2> QED BY <1>1, <2>1
<1>3. ~(s <= q)
  <2>1. ASSUME s <= q PROVE FALSE
    BY <1>1, <1>2, <2>1, TimesMonotone
  <2> QED BY <2>1
<1>4. ~(q + 1 <= s)
  <2>1. ASSUME q + 1 <= s PROVE FALSE
    <3>1. (q + 1) * c <= s * c
      BY <1>1, <2>1, TimesMonotone
    <3>2. (q + 1) * c = q * c + c
      BY <1>1
    <3> QED BY <1>1, <1>2, <3>1, <3>2
  <2> QED BY <2>1
<1> QED BY <1>1, <1>3, <1>4

\* A slot more overwrites the oldest one only.
LEMMA HoldsMore ==
    ASSUME NEW B \in Buffers, NEW C \in Buffers, Holds(B), C.id = B.id, C.n = B.n + 1,
           C.slots = [B.slots EXCEPT ![B.n % Ring] = <<B.id, B.n>>]
    PROVE  Holds(C)
<1> SUFFICES ASSUME NEW m \in Nat, m < C.n, C.n <= m + Ring
             PROVE  C.slots[m % Ring] = <<C.id, m>>
  BY DEF Holds
<1>1. PICK c \in Nat \ {0}, n \in Nat : c = Ring /\ n = B.n
  BY ToolConstants DEF Buffers
<1>2. n % c \in 0 .. c - 1 /\ m % c \in 0 .. c - 1
  BY <1>1
<1>3. CASE m = n
  BY <1>1, <1>2, <1>3 DEF Buffers
<1>4. CASE m # n
  <2>1. m < n /\ n < m + c /\ n <= m + c
    BY <1>1, <1>4
  <2>2. m % c # n % c
    BY <2>1, SlotsApart
  <2>3. B.slots[m % c] = <<B.id, m>>
    BY <1>1, <2>1 DEF Holds
  <2>4. C.slots[m % c] = B.slots[m % c]
    BY <1>1, <1>2, <2>2 DEF Buffers
  <2> QED BY <1>1, <2>3, <2>4
<1> QED BY <1>3, <1>4

\* Nothing is written at the start.
LEMMA InitContents == ToolInit => Contents
<1> SUFFICES ASSUME ToolInit PROVE Contents
  OBVIOUS
<1>1. \A b \in Bufs : buf[b].n = 0 /\ buf[b].done = FALSE
  BY DEF ToolInit
<1>2. Ring \in Nat \ {0}
  BY ToolConstants
<1>3. \A b \in Bufs : Holds(buf[b])
  BY <1>1, <1>2 DEF Holds
<1>4. \A w \in Captured : W(w) \in Bufs
  BY BufKinds
<1> QED BY <1>1, <1>2, <1>3, <1>4 DEF Contents

\* Every step keeps what the buffers hold.
LEMMA ContentsNext == ToolTyped /\ Contents /\ [ToolNext]_allVars => Contents'
<1> SUFFICES ASSUME ToolTyped, Contents, [ToolNext]_allVars PROVE Contents'
  OBVIOUS
<1>1. Ring \in Nat \ {0}
  BY ToolConstants
<1>2. CASE UNCHANGED buf
  BY <1>2 DEF Contents, Holds
<1>3. ASSUME NEW S, Rewound(S) PROVE Contents'
  <2>1. ASSUME NEW b \in Bufs PROVE Holds(buf'[b])
    <3>1. CASE b \in S
      BY <1>1, <1>3, <3>1 DEF Rewound, Holds
    <3>2. CASE b \notin S
      BY <1>3, <2>1, <3>2 DEF Rewound, Contents
    <3> QED BY <3>1, <3>2
  <2>2. ASSUME NEW w \in Captured
        PROVE  IF buf'[W(w)].done THEN buf'[W(w)].n = Ring ELSE buf'[W(w)].n < Ring
    <3>1. W(w) \in Bufs
      BY BufKinds
    <3>2. CASE W(w) \in S
      BY <1>1, <1>3, <3>1, <3>2 DEF Rewound
    <3>3. CASE W(w) \notin S
      BY <1>3, <3>1, <3>3 DEF Rewound, Contents
    <3> QED BY <3>2, <3>3
  <2> QED BY <2>1, <2>2 DEF Contents
<1>4. ASSUME NEW b \in Bufs, Advanced(b) PROVE Contents'
  <2>1. buf[b] \in Buffers /\ buf'[b] \in Buffers /\ Holds(buf[b])
    BY <1>4 DEF Advanced, ToolTyped, Contents
  <2>2. PICK B \in Buffers, C \in Buffers : B = buf[b] /\ C = buf'[b]
    BY <2>1
  <2>3. /\ C.id = B.id
        /\ \/ /\ ~B.done /\ C.n = B.n + 1 /\ C.slots = [B.slots EXCEPT ![B.n % Ring] = <<B.id, B.n>>]
              /\ C.done <=> b[1] = "wave" /\ B.n + 1 = Ring
           \/ b[1] = "array" /\ C.n = B.n /\ C.slots = B.slots
    BY <1>4, <2>2 DEF Advanced
  <2>4. Holds(C)
    <3>1. CASE C.n = B.n /\ C.slots = B.slots
      BY <2>1, <2>2, <2>3, <3>1 DEF Holds
    <3>2. CASE C.n = B.n + 1 /\ C.slots = [B.slots EXCEPT ![B.n % Ring] = <<B.id, B.n>>]
      BY <2>1, <2>2, <2>3, <3>2, HoldsMore
    <3> QED BY <2>3, <3>1, <3>2
  <2>5. \A c \in Bufs : Holds(buf'[c])
    <3> TAKE c \in Bufs
    <3>1. CASE c = b
      BY <2>2, <2>4, <3>1
    <3>2. CASE c # b
      <4>1. buf'[c] = buf[c]
        BY <1>4, <3>2 DEF Advanced
      <4> QED BY <4>1 DEF Contents
    <3> QED BY <3>1, <3>2
  <2>6. ASSUME NEW w \in Captured
        PROVE  IF buf'[W(w)].done THEN buf'[W(w)].n = Ring ELSE buf'[W(w)].n < Ring
    <3>1. W(w) \in Bufs /\ W(w)[1] = "wave"
      BY BufKinds
    <3>2. CASE W(w) = b
      <4>1. ~B.done /\ C.n = B.n + 1 /\ (C.done <=> B.n + 1 = Ring)
        BY <2>3, <3>1, <3>2
      <4>2. B.n < Ring /\ B.n \in Nat
        BY <2>2, <3>2, <4>1 DEF Contents, Buffers
      <4> QED BY <1>1, <2>2, <3>2, <4>1, <4>2
    <3>3. CASE W(w) # b
      <4>1. buf'[W(w)] = buf[W(w)]
        BY <1>4, <3>1, <3>3 DEF Advanced
      <4> QED BY <4>1 DEF Contents
    <3> QED BY <3>2, <3>3
  <2> QED BY <2>5, <2>6 DEF Contents
<1> QED BY <1>2, <1>3, <1>4, BufSteps

\* The capture of a waveform buffer is where its registers say, unless its last
\* set-up was not finished.
Regions ==
    \A w \in Captured : owed[w] = "none" => region[w] = <<waveRegs[w].start, waveRegs[w].end>>

\* Nothing is captured at the start.
LEMMA InitRegions == ToolInit => Regions
<1> SUFFICES ASSUME ToolInit PROVE Regions
  OBVIOUS
<1>1. \A w \in Captured : w \in Waves
  BY ToolConstants
<1> QED BY <1>1 DEF ToolInit, Init, Regions, NoRegs

\* Every step keeps it.
LEMMA RegionsNext == ToolTyped /\ IInv /\ Regions /\ [ToolNext]_allVars => Regions'
<1> SUFFICES ASSUME ToolTyped, IInv, Regions, [ToolNext]_allVars PROVE Regions'
  OBVIOUS
<1>0. \A w \in Captured : w \in Waves
  BY ToolConstants
<1>1. ASSUME UNCHANGED <<waveRegs, owed, region>> PROVE Regions'
  BY <1>1 DEF Regions
<1>2. ASSUME NEW w, Strobe(w), UNCHANGED waveRegs, \A v \in Waves : v # w => owed'[v] = owed[v] PROVE Regions'
  <2>1. \A v \in Captured : region'[v] = IF v = w THEN <<waveRegs[v].start, waveRegs[v].end>> ELSE region[v]
    BY <1>2 DEF Strobe
  <2> QED BY <1>0, <1>2, <2>1 DEF Regions
<1>3. ASSUME (\E w \in Waves : \E size : RawStart(w, size)) \/ RawEnd \/ RawEnable, UNCHANGED region
      PROVE  Regions'
  <2>1. ASSUME NEW w \in Waves, NEW size, RawStart(w, size)
        PROVE  \E v \in Waves : /\ owed'[v] # "none"
                               /\ \A u \in Waves \ {v} : owed'[u] = owed[u] /\ waveRegs'[u] = waveRegs[u]
    BY <2>1 DEF RawStart, IInv, TypeOK
  <2>2. ASSUME RawEnd \/ RawEnable
        PROVE  \E v \in Waves : /\ owed'[v] # "none"
                               /\ \A u \in Waves \ {v} : owed'[u] = owed[u] /\ waveRegs'[u] = waveRegs[u]
    <3>1. PICK v \in Waves : v = target[1]
      BY <2>2 DEF RawEnd, RawEnable, Owing, IInv, Setting
    <3>2. CASE RawEnd
      BY <3>1, <3>2 DEF RawEnd, IInv, TypeOK
    <3>3. CASE RawEnable
      BY <3>1, <3>3 DEF RawEnable, IInv, TypeOK
    <3> QED BY <2>2, <3>2, <3>3
  <2>3. PICK v \in Waves : /\ owed'[v] # "none"
                         /\ \A u \in Waves \ {v} : owed'[u] = owed[u] /\ waveRegs'[u] = waveRegs[u]
    BY <1>3, <2>1, <2>2
  <2> QED BY <1>0, <1>3, <2>3 DEF Regions
<1>4. ASSUME RawInit, Strobe(target[1]) PROVE Regions'
  <2>1. PICK v \in Waves : v = target[1]
    BY <1>4 DEF RawInit, Owing, IInv, Setting
  <2>2. UNCHANGED waveRegs /\ \A u \in Waves : u # v => owed'[u] = owed[u]
    BY <1>4, <2>1 DEF RawInit, IInv, TypeOK
  <2> QED BY <1>2, <1>4, <2>1, <2>2
<1>5. ASSUME Exit PROVE Regions'
  BY <1>1, <1>5 DEF Exit, Recreate
<1>6. ASSUME NEW a \in Fetched, FwStart(a) \/ FwEnd(a) PROVE Regions'
  BY <1>1, <1>6 DEF FwStart, FwEnd, vars
<1>7. ASSUME NEW b \in Bufs, FwWrite(b) PROVE Regions'
  BY <1>1, <1>7 DEF FwWrite, vars
<1>8. ASSUME NEW o \in Options, Start(o) PROVE Regions'
  BY <1>1, <1>8 DEF Start, vars
<1>9. CASE ToolInitialize
  BY <1>1, <1>9 DEF ToolInitialize, StartInitialize, InitializeArray, EndInitialize
<1>10. CASE ToolInitRaw
  <2>1. Register(raw) \in Waves
    BY RegisterIsWave DEF ToolTyped
  <2> QED BY <1>1, <1>3, <1>4, <1>10, <2>1 DEF ToolInitRaw, vars
<1>11. CASE Rearm
  BY <1>2, <1>11 DEF Rearm, vars
<1>12. CASE Diag \/ Dump \/ ToolDone \/ Fill \/ Clear \/ OtherStart
  BY <1>1, <1>12 DEF Diag, Dump, ToolDone, Fill, Clear, OtherStart, vars
<1>13. CASE Get
  BY <1>1, <1>5, <1>13 DEF Get, vars
<1>14. CASE ToolEnd \/ Killed \/ OtherEnd
  BY <1>5, <1>14 DEF ToolEnd, Killed, OtherEnd
<1>15. CASE OtherStep
  <2>1. CASE (\E w \in Waves, size \in Sizes : RawStart(w, size)) /\ UNCHANGED region
    <3>1. \E w \in Waves : \E size : RawStart(w, size)
      BY <2>1
    <3> QED BY <1>3, <2>1, <3>1
  <2>2. CASE (StartInitialize \/ InitializeArray \/ EndInitialize \/ RawThrow) /\ UNCHANGED region
    BY <1>1, <2>2 DEF StartInitialize, InitializeArray, EndInitialize, RawThrow
  <2>3. CASE (RawEnd \/ RawEnable) /\ UNCHANGED region
    BY <1>3, <2>3
  <2> QED BY <1>4, <1>15, <2>1, <2>2, <2>3 DEF OtherStep
<1>16. CASE UNCHANGED allVars
  BY <1>1, <1>16 DEF allVars, toolVars, vars
<1> QED BY <1>6, <1>7, <1>8, <1>9, <1>10, <1>11, <1>12, <1>13, <1>14, <1>15, <1>16 DEF ToolNext

\* Only a process that sets buffers up changes what their set-ups owe.
Initializing == at \in {"none", "init", "other"}

\* A buffer that is dumped is done, and a file of a waveform buffer is a whole capture.
Dumping ==
    /\ at = "dump" => W(opts.ndiag) \in Bufs /\ buf[W(opts.ndiag)].done
    /\ at = "fill" => got.of[1] = "array"
    /\ Initializing => file.of[1] # "wave"
    /\ DumpIsOneCapture

\* There is no file at the start.
LEMMA InitDumping == ToolInit => Dumping
BY BufKinds DEF ToolInit, Dumping, DumpIsOneCapture, NoFile

\* Every step keeps the dumps whole.
LEMMA DumpingNext == ToolTyped /\ Contents /\ Regions /\ Dumping /\ [ToolNext]_allVars => Dumping'
<1> SUFFICES ASSUME ToolTyped, Contents, Regions, Dumping, [ToolNext]_allVars PROVE Dumping'
  OBVIOUS
<1>1. ASSUME (file' = file /\ (UNCHANGED owed \/ Initializing)) \/ file'.of[1] # "wave",
             Initializing' => Initializing \/ file'.of[1] # "wave", at' \notin {"dump", "fill"}
      PROVE  Dumping'
  BY <1>1 DEF Dumping, DumpIsOneCapture
<1>2. ASSUME Exit PROVE Dumping'
  <2>1. file'.of[1] # "wave" /\ at' = "none"
    BY <1>2, BufKinds DEF Exit, NoFile
  <2> QED BY <1>1, <2>1
<1>3. ASSUME ToolUnchanged, UNCHANGED buf \/ (\E b \in Bufs : Advanced(b)) \/ (\E a \in Fetched : Rewound({A(a)}))
      PROVE  Dumping'
  <2>1. CASE at = "dump"
    <3>1. PICK w \in Captured : W(w) = W(opts.ndiag) /\ W(w) \in Bufs
      BY <2>1, BufKinds DEF Dumping
    <3>2. buf[W(w)].done /\ W(w)[1] = "wave"
      BY <2>1, <3>1, BufKinds DEF Dumping
    <3>3. ASSUME NEW b \in Bufs, Advanced(b) PROVE buf'[W(w)] = buf[W(w)]
      <4>1. b # W(w)
        BY <3>2, <3>3 DEF Advanced
      <4> QED BY <3>1, <3>3, <4>1 DEF Advanced
    <3>4. ASSUME NEW a \in Fetched, Rewound({A(a)}) PROVE buf'[W(w)] = buf[W(w)]
      <4>1. W(w) \notin {A(a)}
        BY BufKinds
      <4> QED BY <3>1, <3>4, <4>1 DEF Rewound
    <3>5. buf'[W(w)] = buf[W(w)]
      BY <1>3, <3>3, <3>4
    <3> QED BY <1>3, <2>1, <3>1, <3>2, <3>5 DEF ToolUnchanged, vars, Initializing, Dumping, DumpIsOneCapture
  <2>2. CASE at # "dump"
    BY <1>3, <2>2 DEF ToolUnchanged, vars, Initializing, Dumping, DumpIsOneCapture
  <2> QED BY <2>1, <2>2
<1>4. ASSUME NEW a \in Fetched, FwStart(a) \/ FwEnd(a) PROVE Dumping'
  <2>1. ToolUnchanged
    BY <1>4 DEF FwStart, FwEnd, ToolUnchanged
  <2>2. FwStart(a) => Rewound({A(a)})
    BY RewindEffect DEF FwStart
  <2>3. FwEnd(a) => \E b \in Bufs : Advanced(b)
    BY EndEffect, BufKinds
  <2> QED BY <1>3, <1>4, <2>1, <2>2, <2>3
<1>5. ASSUME NEW b \in Bufs, FwWrite(b) PROVE Dumping'
  <2>1. ToolUnchanged
    BY <1>5 DEF FwWrite, ToolUnchanged
  <2> QED BY <1>3, <1>5, <2>1, WriteEffect
<1>6. ASSUME NEW o \in Options, Start(o) PROVE Dumping'
  BY <1>1, <1>6 DEF Start, Initializing
<1>7. CASE ToolInitialize \/ ToolInitRaw \/ Rearm \/ ToolDone \/ Clear \/ OtherStart \/ OtherStep
  <2>1. UNCHANGED file /\ at' \notin {"dump", "fill"}
    BY <1>7 DEF ToolInitialize, ToolInitRaw, Rearm, ToolDone, Clear, OtherStart, OtherStep
  <2>2. Initializing \/ (UNCHANGED owed /\ at' \in {"done", "end", "fetch"})
    BY <1>7 DEF ToolInitialize, ToolInitRaw, Rearm, ToolDone, Clear, OtherStart, OtherStep, vars, Initializing
  <2> QED BY <1>1, <2>1, <2>2 DEF Initializing
<1>8. CASE Diag
  BY <1>8 DEF Diag, Done, Dumping, DumpIsOneCapture, vars, Initializing
<1>9. CASE Dump
  <2>1. at' = "rearm"
    BY <1>9 DEF Dump
  <2>2. ASSUME NEW how, Put(W(opts.ndiag), Addressed(opts.ndiag), how) PROVE Dumping'
    <3>1. PICK w \in Captured : w = opts.ndiag /\ W(w) \in Bufs
      BY <1>9, BufKinds DEF Dump, Dumping, W
    <3>2. PICK B \in Buffers : B = buf[W(w)]
      BY <3>1 DEF ToolTyped
    <3>3. B.done /\ B.n = Ring /\ Holds(B)
      BY <1>9, <3>1, <3>2 DEF Dump, Dumping, Contents
    <3>4. \A i \in 0 .. Ring - 1 : B.slots[i] = <<B.id, i>>
      <4>1. PICK c \in Nat \ {0} : c = Ring
        BY ToolConstants
      <4>2. ASSUME NEW i \in 0 .. c - 1 PROVE B.slots[i] = <<B.id, i>>
        <5>1. i % c = i /\ i < c /\ c <= i + c /\ i \in Nat
          BY <4>1
        <5> QED BY <3>3, <4>1, <5>1 DEF Holds
      <4> QED BY <4>1, <4>2
    <3>5. UNCHANGED owed /\ ~Initializing'
      BY <1>9, <2>1 DEF Dump, vars, Initializing
    <3>6. CASE how = "spoiled"
      <4>1. file'.of[1] # "wave"
        BY <2>2, <3>6 DEF Put, NoFile, NoBuf
      <4> QED BY <2>1, <3>5, <4>1 DEF Dumping, DumpIsOneCapture
    <3>7. CASE how # "spoiled" /\ owed[w] = "none"
      <4>1. Addressed(w) = 0 .. Ring - 1
        BY <3>7 DEF Regions, Addressed
      <4>2. file'.data = {B.slots[i] : i \in 0 .. Ring - 1} /\ file'.id = B.id
        BY <2>2, <3>1, <3>2, <3>7, <4>1 DEF Put
      <4>3. file'.data = {<<file'.id, i>> : i \in 0 .. Ring - 1}
        BY <3>4, <4>2
      <4> QED BY <2>1, <3>5, <4>3 DEF Dumping, DumpIsOneCapture
    <3>8. CASE how # "spoiled" /\ owed[w] # "none"
      <4>1. file'.of = W(w)
        BY <2>2, <3>1, <3>8 DEF Put
      <4>2. file'.of[2] = w
        BY <4>1 DEF W
      <4> QED BY <2>1, <3>5, <3>8, <4>2 DEF Dumping, DumpIsOneCapture
    <3> QED BY <3>6, <3>7, <3>8
  <2>3. CASE UNCHANGED file
    BY <1>1, <1>9, <2>1, <2>3 DEF Dump, vars, Initializing
  <2> QED BY <1>9, <2>2, <2>3 DEF Dump
<1>10. CASE Get
  <2>1. CASE pc = "ready" /\ buf[A(Min(fetch))].n # 0
    <3>1. PICK x \in Fetched : got'.of = A(x) /\ at' = "fill" /\ UNCHANGED file
      BY <1>10, <2>1, GetTakes
    <3>2. got'.of[1] = "array"
      BY <3>1, BufKinds
    <3>3. UNCHANGED owed /\ at' = "fill"
      BY <1>10, <2>1 DEF Get, vars
    <3> QED BY <3>1, <3>2, <3>3 DEF Dumping, DumpIsOneCapture, Initializing
  <2>2. CASE ~(pc = "ready" /\ buf[A(Min(fetch))].n # 0)
    BY <1>2, <1>10, <2>2 DEF Get
  <2> QED BY <2>1, <2>2
<1>11. CASE ToolEnd \/ Killed \/ OtherEnd
  BY <1>2, <1>11 DEF ToolEnd, Killed, OtherEnd
<1>12. CASE UNCHANGED allVars
  BY <1>3, <1>12 DEF allVars, toolVars, ToolUnchanged
<1>13. CASE Fill
  <2>1. file' = file \/ file'.of = got.of \/ file' = NoFile
    BY <1>13 DEF Fill, Put
  <2>2. got.of[1] = "array" /\ NoFile.of[1] = "none"
    BY <1>13 DEF Fill, Dumping, NoFile, NoBuf
  <2>3. at' \in {"clear", "fetch"} /\ UNCHANGED owed
    BY <1>13 DEF Fill, AfterNoFile, vars
  <2> QED BY <1>1, <2>1, <2>2, <2>3 DEF Initializing
<1> QED BY <1>4, <1>5, <1>6, <1>7, <1>8, <1>9, <1>10, <1>11, <1>12, <1>13 DEF ToolNext

\* A waveform file is one capture, all of it, for every size of the ring and
\* every interleaving of the firmware with the client's steps, unless the last
\* set-up of that buffer was not finished.
THEOREM DumpsAreWhole == ToolSpec => []DumpIsOneCapture
<1>1. ToolInit => ToolTyped /\ Contents /\ Regions /\ Dumping
  BY InitToolTyped, InitContents, InitRegions, InitDumping
<1>2. /\ ToolTyped /\ IInv /\ Contents /\ Regions /\ Dumping /\ [ToolNext]_allVars
      => (ToolTyped /\ Contents /\ Regions /\ Dumping)'
  BY ToolTypedNext, ContentsNext, RegionsNext, DumpingNext
<1>3. Dumping => DumpIsOneCapture
  BY DEF Dumping
<1> QED BY <1>1, <1>2, <1>3, ToolLayoutInvariant, PTL DEF ToolSpec

-----------------------------------------------------------------------------
(* The fetch of an array *)

\* Quotient and remainder of m times c and r more.
LEMMA MultiplesAndRest ==
    ASSUME NEW m \in Nat, NEW c \in Nat \ {0}, NEW r \in Nat, r < c
    PROVE  m * c \in Nat /\ (m * c + r) \div c = m /\ (m * c + r) % c = r
<1> DEFINE q == (m * c + r) \div c
<1>1. m * c \in Nat
  OBVIOUS
<1>2. q \in Nat /\ q * c <= m * c + r /\ m * c + r < q * c + c /\ (m * c + r) % c = (m * c + r) - q * c
  BY <1>1
<1> HIDE DEF q
<1>3. ~(q + 1 <= m)
  <2>1. ASSUME q + 1 <= m PROVE FALSE
    <3>1. (q + 1) * c <= m * c
      BY <1>2, <2>1, TimesMonotone
    <3>2. (q + 1) * c = q * c + c /\ q * c \in Nat
      BY <1>2
    <3> QED BY <1>1, <1>2, <3>1, <3>2
  <2> QED BY <2>1
<1>4. ~(m + 1 <= q)
  <2>1. ASSUME m + 1 <= q PROVE FALSE
    <3>1. (m + 1) * c <= q * c
      BY <1>2, <2>1, TimesMonotone
    <3>2. (m + 1) * c = m * c + c /\ q * c \in Nat
      BY <1>2
    <3> QED BY <1>1, <1>2, <3>1, <3>2
  <2> QED BY <2>1
<1>5. q = m
  BY <1>2, <1>3, <1>4
<1> QED BY <1>1, <1>2, <1>5 DEF q

\* How many slots getRecord() reads when WrAddr is n slots from the start.
Taken(n) == IF n % Ring = 0 THEN Ring ELSE n % Ring

\* They are the last ones written, and all of them in a ring that has not wrapped.
LEMMA TakenIsNewest ==
    ASSUME NEW n \in Nat \ {0}
    PROVE  /\ Taken(n) \in 1 .. Ring /\ Taken(n) <= n
           /\ n <= Ring => Taken(n) = n
           /\ \A i \in 0 .. Taken(n) - 1 : ((n - Taken(n)) + i) % Ring = i
<1>1. PICK c \in Nat \ {0} : c = Ring
  BY ToolConstants
<1>2. PICK q \in Nat, r \in 0 .. c - 1 : r = n % c /\ n = q * c + r /\ q * c \in Nat
  <2>1. n \div c \in Nat /\ (n % c) \in 0 .. c - 1 /\ n = (n \div c) * c + (n % c)
    OBVIOUS
  <2>2. (n \div c) * c \in Nat
    BY <2>1
  <2> QED BY <2>1, <2>2
<1>3. CASE r = 0
  <2>1. Taken(n) = c
    BY <1>1, <1>2, <1>3 DEF Taken
  <2>2. q # 0
    <3>1. 0 * c = 0
      OBVIOUS
    <3> QED BY <1>2, <1>3, <3>1
  <2>3. PICK k \in Nat : k = q - 1
    BY <2>2
  <2>4. PICK x \in Nat : x = k * c
    OBVIOUS
  <2>5. q * c = x + c
    <3>1. (k + 1) * c = k * c + c
      OBVIOUS
    <3> QED BY <2>3, <2>4, <3>1
  <2>6. n = x + c /\ n - c = x
    BY <1>2, <1>3, <2>5
  <2>7. \A i \in 0 .. c - 1 : (x + i) % c = i
    <3> TAKE i \in 0 .. c - 1
    <3>1. i \in Nat /\ i < c
      OBVIOUS
    <3> QED BY <2>4, <3>1, MultiplesAndRest
  <2> QED BY <1>1, <2>1, <2>6, <2>7
<1>4. CASE r # 0
  <2>1. Taken(n) = r
    BY <1>1, <1>2, <1>4 DEF Taken
  <2>2. PICK x \in Nat : x = q * c
    BY <1>2
  <2>3. n = x + r /\ n - r = x
    BY <1>2, <2>2
  <2>4. \A i \in 0 .. r - 1 : (x + i) % c = i
    <3> TAKE i \in 0 .. r - 1
    <3>1. i \in Nat /\ i < c
      OBVIOUS
    <3> QED BY <2>2, <3>1, MultiplesAndRest
  <2>5. n <= c => r = n
    <3>1. ASSUME n <= c PROVE q = 0
      <4>1. ~(1 <= q)
        <5>1. ASSUME 1 <= q PROVE FALSE
          <6>1. 1 * c <= q * c
            BY <5>1, TimesMonotone
          <6> QED BY <1>4, <2>2, <2>3, <3>1, <6>1
        <5> QED BY <5>1
      <4> QED BY <4>1
    <3>2. q = 0 => x = 0
      BY <2>2
    <3> QED BY <2>3, <3>1, <3>2
  <2> QED BY <1>1, <1>4, <2>1, <2>3, <2>4, <2>5
<1> QED BY <1>3, <1>4

\* The entries a to b - 1 of the acquisition x.
EntriesOf(x, a, b) == {<<x, i>> : i \in a .. b - 1}

\* As many entries of one acquisition as there are numbers.
LEMMA EntriesCounted ==
    ASSUME NEW x, NEW a \in Nat, NEW b \in Nat, a <= b
    PROVE  Cardinality(EntriesOf(x, a, b)) = b - a
<1> DEFINE T == {<<x, i>> : i \in a .. b - 1}
           f == [i \in a .. b - 1 |-> <<x, i>>]
<1>1. IsFiniteSet(a .. b - 1) /\ Cardinality(a .. b - 1) = b - a
  <2>1. a \in Int /\ b - 1 \in Int
    OBVIOUS
  <2>2. Cardinality(a .. b - 1) = (IF a > b - 1 THEN 0 ELSE (b - 1) - a + 1)
    BY <2>1, FS_Interval
  <2>3. IsFiniteSet(a .. b - 1)
    BY <2>1, FS_Interval
  <2> QED BY <2>2, <2>3
<1>2. f \in Bijection(a .. b - 1, T)
  <2> DEFINE S == a .. b - 1
  <2>1. f \in [S -> T]
    OBVIOUS
  <2>2. \A i, j \in S : f[i] = f[j] => i = j
    OBVIOUS
  <2>3. \A t \in T : \E i \in S : f[i] = t
    OBVIOUS
  <2> HIDE DEF f, T, S
  <2>4. f \in Injection(S, T)
    BY <2>1, <2>2 DEF Injection, IsInjective
  <2>5. f \in Surjection(S, T)
    BY <2>1, <2>3 DEF Surjection
  <2>6. f \in Bijection(S, T)
    BY <2>4, <2>5 DEF Bijection
  <2> QED BY <2>6 DEF S
<1>3. ExistsBijection(a .. b - 1, T)
  BY <1>2 DEF ExistsBijection
<1> HIDE DEF T, f
<1>4. Cardinality(T) = Cardinality(a .. b - 1)
  BY <1>1, <1>3, FS_Bijection
<1> QED BY <1>1, <1>4 DEF T, EntriesOf

\* A file of n entries' worth of slots holds the newest ones.
Newest(f) ==
    /\ f.data = {<<f.id, i>> : i \in (f.n - Cardinality(f.data)) .. (f.n - 1)}
    /\ f.n <= Ring => Cardinality(f.data) = f.n

\* What getRecord() reads are the newest entries.
LEMMA ReadsNewest ==
    ASSUME NEW B \in Buffers, B.n # 0, Holds(B), NEW f,
           f.id = B.id, f.n = B.n, f.data = {B.slots[i] : i \in Slots(B.n)}
    PROVE  Newest(f)
<1>1. PICK n \in Nat \ {0} : n = B.n
  BY DEF Buffers
<1>2. PICK k \in 1 .. Ring :
         /\ k = Taken(n) /\ k <= n /\ (n <= Ring => k = n)
         /\ \A i \in 0 .. k - 1 : ((n - k) + i) % Ring = i
  BY TakenIsNewest
<1>3. Slots(n) = 0 .. k - 1
  BY <1>2 DEF Slots, Taken
<1>4. PICK a \in Nat, c \in Nat \ {0} : a = n - k /\ n = a + k /\ c = Ring /\ k <= c /\ k \in Nat
  <2>1. PICK c \in Nat \ {0} : c = Ring
    BY ToolConstants
  <2>2. k \in Nat /\ k <= c
    BY <1>2, <2>1
  <2>3. n - k \in Nat /\ n = (n - k) + k
    BY <1>2, <2>2
  <2> QED BY <2>1, <2>2, <2>3
<1>5. ASSUME NEW i \in 0 .. k - 1 PROVE B.slots[i] = <<B.id, a + i>>
  <2>1. a + i \in Nat /\ a + i < n /\ n <= (a + i) + c
    BY <1>4
  <2>2. (a + i) % Ring = i
    BY <1>2, <1>4
  <2> QED BY <1>1, <1>4, <2>1, <2>2 DEF Holds
<1>6. f.data = {<<B.id, i>> : i \in a .. n - 1}
  <2>1. f.data = {B.slots[i] : i \in 0 .. k - 1}
    BY <1>1, <1>3
  <2>2. ASSUME NEW i \in 0 .. k - 1 PROVE B.slots[i] \in {<<B.id, j>> : j \in a .. n - 1}
    <3>1. a + i \in a .. n - 1
      BY <1>4
    <3> QED BY <1>5, <3>1
  <2>3. ASSUME NEW j \in a .. n - 1 PROVE <<B.id, j>> \in {B.slots[i] : i \in 0 .. k - 1}
    <3>1. PICK i \in 0 .. k - 1 : a + i = j
      <4>1. j - a \in 0 .. k - 1 /\ a + (j - a) = j
        BY <1>4
      <4> QED BY <4>1
    <3> QED BY <1>5, <3>1
  <2> QED BY <2>1, <2>2, <2>3
<1>7. Cardinality(f.data) = n - a
  <2>1. PICK x : x = B.id
    OBVIOUS
  <2>2. n \in Nat /\ a \in Nat /\ a <= n
    BY <1>4
  <2>3. Cardinality(EntriesOf(x, a, n)) = n - a
    BY <2>2, EntriesCounted
  <2>4. f.data = EntriesOf(x, a, n)
    BY <1>6, <2>1 DEF EntriesOf
  <2> QED BY <2>3, <2>4
<1>8. Cardinality(f.data) = k /\ n - k = a
  BY <1>4, <1>7
<1> QED BY <1>1, <1>2, <1>6, <1>8 DEF Newest

\* There is a file of an array only after it was fetched; an array is fetched once;
\* the file of the array that was fetched last holds its newest entries.
Fetching ==
    /\ at \notin {"fetch", "fill", "clear", "end"} => file.of[1] # "array"
    /\ at = "end" => file.of[1] # "array"
    /\ at \in {"fill", "clear"} => got.of \in ArrayBufs /\ \A a \in fetch : got.of # A(a)
    /\ at = "fill" => file.of # got.of /\ got.n \in Nat \ {0}
    /\ \A a \in fetch : file.of # A(a)
    /\ file.of[1] = "array" /\ file.of = got.of /\ file.n = got.n => Newest(file)

\* There is no file at the start.
LEMMA InitFetching == ToolInit => Fetching
BY BufKinds DEF ToolInit, Fetching, NoFile

\* Every step keeps the order of the fetch.
LEMMA FetchingNext == ToolTyped /\ Contents /\ Fetching /\ [ToolNext]_allVars => Fetching'
<1> SUFFICES ASSUME ToolTyped, Contents, Fetching, [ToolNext]_allVars PROVE Fetching'
  OBVIOUS
<1>1. ASSUME ToolUnchanged PROVE Fetching'
  BY <1>1 DEF ToolUnchanged, Fetching, Newest
<1>2. ASSUME Exit PROVE Fetching'
  BY <1>2, BufKinds DEF Exit, NoFile, Fetching
<1>3. ASSUME at \notin {"fetch", "fill", "clear", "end"}, at' \notin {"fetch", "fill", "clear"},
             UNCHANGED <<file, got, fetch>>
      PROVE  Fetching'
  BY <1>3 DEF Fetching, Newest
<1>4. ASSUME NEW a \in Fetched, FwStart(a) \/ FwEnd(a) PROVE Fetching'
  BY <1>1, <1>4 DEF FwStart, FwEnd, ToolUnchanged
<1>5. ASSUME NEW b \in Bufs, FwWrite(b) PROVE Fetching'
  BY <1>1, <1>5 DEF FwWrite, ToolUnchanged
<1>6. ASSUME NEW o \in Options, Start(o) PROVE Fetching'
  BY <1>3, <1>6 DEF Start
<1>7. CASE ToolInitialize \/ ToolInitRaw \/ Diag \/ Rearm \/ OtherStart \/ OtherStep
  BY <1>3, <1>7 DEF ToolInitialize, ToolInitRaw, Diag, Rearm, OtherStart, OtherStep
<1>8. CASE Dump
  <2>1. CASE UNCHANGED file
    BY <1>3, <1>8, <2>1 DEF Dump
  <2>2. ASSUME NEW how, Put(W(opts.ndiag), Addressed(opts.ndiag), how) PROVE Fetching'
    <3>1. file'.of = W(opts.ndiag) \/ file'.of = NoBuf
      BY <2>2 DEF Put, NoFile
    <3>2. file'.of[1] # "array" /\ \A a \in fetch : file'.of # A(a)
      <4>1. \A a \in fetch : A(a)[1] = "array"
        BY BufKinds DEF ToolTyped
      <4> QED BY <3>1, <4>1, BufKinds
    <3> QED BY <1>8, <3>2 DEF Dump, Fetching
  <2> QED BY <1>8, <2>1, <2>2 DEF Dump
<1>9. CASE ToolDone
  <2>1. at' \in {"fetch", "end"} /\ UNCHANGED <<got, file>> /\ file.of[1] # "array"
    BY <1>9 DEF ToolDone, Fetching
  <2>2. \A a \in fetch' : A(a)[1] = "array"
    <3>1. fetch' \in SUBSET Fetched
      BY <1>9 DEF ToolDone, ToolTyped
    <3> QED BY <3>1, BufKinds
  <2>3. \A a \in fetch' : file.of # A(a)
    BY <2>1, <2>2
  <2> QED BY <2>1, <2>3 DEF Fetching
<1>10. CASE Get
  <2>1. CASE pc = "ready" /\ buf[A(Min(fetch))].n # 0
    <3>1. PICK x \in fetch :
             /\ x \in Fetched /\ fetch' = fetch \ {x} /\ got'.of = A(x)
             /\ got'.n = buf[A(x)].n /\ buf[A(x)].n # 0 /\ at' = "fill" /\ UNCHANGED file
      BY <1>10, <2>1, GetTakes
    <3>2. A(x) \in ArrayBufs /\ A(x) \in Bufs /\ (\A a \in fetch' : A(x) # A(a))
      BY <3>1, BufKinds
    <3>3. file.of # A(x) /\ (\A a \in fetch' : file.of # A(a))
      BY <3>1 DEF Fetching
    <3>4. buf[A(x)].n \in Nat
      BY <3>2 DEF ToolTyped, Buffers
    <3> QED BY <3>1, <3>2, <3>3, <3>4 DEF Fetching
  <2>2. CASE ~(pc = "ready" /\ buf[A(Min(fetch))].n # 0)
    BY <1>2, <1>10, <2>2 DEF Get
  <2> QED BY <2>1, <2>2
<1>11. CASE Fill
  <2>1. at = "fill" /\ UNCHANGED <<got, fetch, buf>>
    BY <1>11 DEF Fill
  <2>2. got.of \in ArrayBufs /\ got.n \in Nat \ {0} /\ (\A a \in fetch : got.of # A(a)) /\ file.of # got.of
    BY <2>1 DEF Fetching
  <2>3. ASSUME at' = "clear", NEW how, Put(got.of, Slots(got.n), how), how # "spoiled" PROVE Fetching'
    <3>1. PICK B \in Buffers : B = buf[got.of]
      BY <2>2, BufKinds DEF ToolTyped
    <3>2. /\ file'.of = got.of /\ file'.id = B.id /\ file'.n = B.n
          /\ file'.data = {B.slots[i] : i \in Slots(got.n)}
      BY <2>3, <3>1 DEF Put
    <3>3. file'.n = got.n => Newest(file')
      <4>1. Holds(B)
        BY <2>2, <3>1, BufKinds DEF Contents
      <4>2. ASSUME file'.n = got.n PROVE Newest(file')
        <5>1. B.n # 0 /\ file'.data = {B.slots[i] : i \in Slots(B.n)}
          BY <2>2, <3>2, <4>2
        <5> QED BY <3>2, <4>1, <5>1, ReadsNewest
      <4> QED BY <4>2
    <3>4. Newest(file)' <=> Newest(file')
      BY DEF Newest
    <3> QED BY <2>1, <2>2, <2>3, <3>2, <3>3, <3>4 DEF Fetching
  <2>4. CASE at' = AfterNoFile /\ UNCHANGED <<saved, file>>
    BY <2>1, <2>4 DEF Fetching, AfterNoFile, Newest
  <2>5. CASE at' = "clear" /\ file' = NoFile
    <3>1. NoFile.of[1] # "array" /\ \A a \in fetch : NoFile.of # A(a)
      <4>1. \A a \in fetch : A(a)[1] = "array"
        BY BufKinds DEF ToolTyped
      <4> QED BY <4>1, BufKinds DEF NoFile
    <3> QED BY <2>1, <2>2, <2>5, <3>1 DEF Fetching
  <2>6. ASSUME NEW how, Put(got.of, Slots(got.n), how), how = "spoiled" PROVE file' = NoFile
    BY <2>6 DEF Put
  <2> QED BY <1>11, <2>3, <2>4, <2>5, <2>6 DEF Fill
<1>12. CASE Clear
  <2>1. at = "clear" /\ at' = "fetch" /\ UNCHANGED <<got, fetch, file>>
    BY <1>12 DEF Clear
  <2> QED BY <2>1 DEF Fetching, Newest
<1>13. CASE ToolEnd \/ Killed \/ OtherEnd
  BY <1>2, <1>13 DEF ToolEnd, Killed, OtherEnd
<1>14. CASE UNCHANGED allVars
  BY <1>1, <1>14 DEF allVars, toolVars, ToolUnchanged
<1> QED BY <1>4, <1>5, <1>6, <1>7, <1>8, <1>9, <1>10, <1>11, <1>12, <1>13, <1>14 DEF ToolNext

\* For every size of the ring and however often the firmware goes round it: the
\* file of an array holds its newest entries, unless the firmware wrote on
\* between get()'s look at WrAddr and its read.
THEOREM FetchesNewest == ToolSpec => []FetchIsNewest
<1>1. ToolInit => ToolTyped /\ Contents /\ Fetching
  BY InitToolTyped, InitContents, InitFetching
<1>2. ToolTyped /\ Contents /\ Fetching /\ [ToolNext]_allVars => (ToolTyped /\ Contents /\ Fetching)'
  BY ToolTypedNext, ContentsNext, FetchingNext
<1>3. Fetching => FetchIsNewest
  BY DEF Fetching, FetchIsNewest, Newest
<1> QED BY <1>1, <1>2, <1>3, PTL DEF ToolSpec

-----------------------------------------------------------------------------
(* Nothing is cleared unsaved *)

\* Acquisition in buffer b as far as it goes is put out the way the options say.
IsOut(b) ==
    \E how \in IF opts.file THEN {"file", "spoiled"} ELSE {"print"} :
        <<b, buf[b].id, buf[b].n, how>> \in saved

\* This process has seen that what is in buffer b is done.
Seen(b) == looked[b] # 0 /\ looked[b] = buf[b].id

\* What this process has seen done is no later than what there is, and ended if it
\* is the same; what it is about to clear is put out if it is still what it has seen.
Saving ==
    /\ \A b \in Bufs : looked[b] <= buf[b].id /\ (Seen(b) => buf[b].done)
    /\ at \in {"fill", "clear"} => got.of \in ArrayBufs
    /\ at = "clear" /\ Seen(got.of) => IsOut(got.of)

\* Nothing is seen at the start.
LEMMA InitSaving == ToolInit => Saving
<1> SUFFICES ASSUME ToolInit PROVE Saving
  OBVIOUS
<1>1. \A b \in Bufs : looked[b] = 0 /\ buf[b].id = 0
  BY DEF ToolInit
<1> QED BY <1>1 DEF ToolInit, Saving, Seen

\* A buffer that was seen done is no more touched but by a rewind.
LEMMA SeenStays ==
    ASSUME ToolTyped, Saving, [ToolNext]_allVars, NEW b \in Bufs
    PROVE  /\ looked[b] \in Nat /\ buf[b].id \in Nat /\ buf'[b].id \in Nat
           /\ looked[b] <= buf'[b].id
           /\ looked[b] # 0 /\ looked[b] = buf'[b].id => Seen(b) /\ buf[b].done /\ buf'[b] = buf[b]
<1>1. looked[b] \in Nat /\ buf[b].id \in Nat /\ looked[b] <= buf[b].id /\ (Seen(b) => buf[b].done)
  BY DEF ToolTyped, Buffers, Saving
<1>2. CASE buf'[b] = buf[b]
  BY <1>1, <1>2 DEF Seen
<1>3. ASSUME NEW S, Rewound(S), b \in S
      PROVE  buf'[b].id = buf[b].id + 1
  BY <1>3 DEF Rewound
<1>4. ASSUME Advanced(b)
      PROVE  buf'[b].id = buf[b].id /\ ~buf[b].done
  BY <1>4 DEF Advanced
<1>5. \/ buf'[b] = buf[b]
      \/ buf'[b].id = buf[b].id + 1
      \/ buf'[b].id = buf[b].id /\ ~buf[b].done
  <2>1. ASSUME NEW S, Rewound(S), b \notin S PROVE buf'[b] = buf[b]
    BY <2>1 DEF Rewound
  <2>2. ASSUME NEW c \in Bufs, Advanced(c), c # b PROVE buf'[b] = buf[b]
    BY <2>2 DEF Advanced
  <2> QED BY <1>3, <1>4, <2>1, <2>2, BufSteps
<1> QED BY <1>1, <1>2, <1>5 DEF Seen

\* Every step keeps it.
LEMMA SavingNext == ToolTyped /\ Saving /\ [ToolNext]_allVars => Saving'
<1> SUFFICES ASSUME ToolTyped, Saving, [ToolNext]_allVars PROVE Saving'
  OBVIOUS
<1>0. \A b \in Bufs :
         /\ looked[b] \in Nat /\ buf[b].id \in Nat /\ buf'[b].id \in Nat
         /\ looked[b] <= buf'[b].id
         /\ looked[b] # 0 /\ looked[b] = buf'[b].id => Seen(b) /\ buf[b].done /\ buf'[b] = buf[b]
  BY SeenStays
<1>1. ASSUME UNCHANGED looked, at' \notin {"fill", "clear"} PROVE Saving'
  BY <1>0, <1>1 DEF Saving, Seen
<1>2. ASSUME NEW B, Look(B), \A b \in B \cap Bufs : buf[b].done, at' \notin {"fill", "clear"}, UNCHANGED buf
      PROVE  Saving'
  <2>1. \A b \in Bufs : looked'[b] = IF b \in B THEN buf[b].id ELSE looked[b]
    BY <1>2 DEF Look
  <2>2. \A b \in Bufs : looked'[b] <= buf'[b].id /\ (Seen(b)' => buf'[b].done)
    BY <1>0, <1>2, <2>1 DEF Saving, Seen
  <2> QED BY <1>2, <2>2 DEF Saving
<1>3. ASSUME UNCHANGED <<at, opts, got, looked, saved>> PROVE Saving'
  <2>1. \A b \in Bufs : looked'[b] <= buf'[b].id /\ (Seen(b)' => buf'[b].done)
    BY <1>0, <1>3 DEF Seen
  <2>2. ASSUME at = "clear", Seen(got.of)' PROVE IsOut(got.of)'
    <3>1. PICK b \in Bufs : b = got.of /\ UNCHANGED got
      BY <1>3, <2>2, BufKinds DEF Saving
    <3>2. Seen(b) /\ buf'[b] = buf[b]
      BY <1>0, <1>3, <2>2, <3>1 DEF Seen
    <3>3. IsOut(b)
      BY <2>2, <3>1, <3>2 DEF Saving
    <3> QED BY <1>3, <3>1, <3>2, <3>3 DEF IsOut
  <2> QED BY <1>3, <2>1, <2>2 DEF Saving
<1>4. ASSUME Exit PROVE Saving'
  <2>1. \A b \in Bufs : looked'[b] = 0
    BY <1>4 DEF Exit
  <2>2. at' = "none"
    BY <1>4 DEF Exit
  <2> QED BY <1>0, <2>1, <2>2 DEF Saving, Seen
<1>5. ASSUME NEW a \in Fetched, FwStart(a) \/ FwEnd(a) PROVE Saving'
  BY <1>3, <1>5 DEF FwStart, FwEnd
<1>6. ASSUME NEW b \in Bufs, FwWrite(b) PROVE Saving'
  BY <1>3, <1>6 DEF FwWrite
<1>7. ASSUME NEW o \in Options, Start(o) PROVE Saving'
  BY <1>1, <1>7 DEF Start
<1>8. CASE ToolInitialize \/ ToolInitRaw \/ Dump \/ Rearm \/ Clear \/ OtherStart \/ OtherStep
  <2>1. UNCHANGED looked /\ at' \notin {"fill", "clear"}
    BY <1>8 DEF ToolInitialize, ToolInitRaw, Dump, Rearm, Clear, OtherStart, OtherStep
  <2> QED BY <1>1, <2>1
<1>9. CASE Diag
  BY <1>2, <1>9 DEF Diag, Done
<1>10. CASE ToolDone
  BY <1>1, <1>2, <1>10 DEF ToolDone, Done
<1>11. CASE Get
  <2>1. CASE pc = "ready" /\ buf[A(Min(fetch))].n # 0
    <3>1. PICK x \in Fetched : got'.of = A(x) /\ at' = "fill" /\ UNCHANGED <<looked, buf>>
      BY <1>11, <2>1, GetTakes
    <3>2. \A b \in Bufs : looked'[b] <= buf'[b].id /\ (Seen(b)' => buf'[b].done)
      BY <3>1 DEF Saving, Seen
    <3> QED BY <3>1, <3>2, BufKinds DEF Saving
  <2>2. CASE ~(pc = "ready" /\ buf[A(Min(fetch))].n # 0)
    BY <1>4, <1>11, <2>2 DEF Get
  <2> QED BY <2>1, <2>2
<1>12. CASE Fill
  <2>1. at = "fill" /\ got.of \in ArrayBufs /\ UNCHANGED <<got, buf, looked, opts>>
    BY <1>12 DEF Fill, Saving
  <2>2. \A b \in Bufs : looked'[b] <= buf'[b].id /\ (Seen(b)' => buf'[b].done)
    BY <2>1 DEF Saving, Seen
  <2>3. at' = "fetch" \/ IsOut(got.of)'
    <3>1. CASE at' = AfterNoFile
      BY <3>1 DEF AfterNoFile
    <3>2. ASSUME NEW how \in IF opts.file THEN {"file", "spoiled"} ELSE {"print"},
                 Put(got.of, Slots(got.n), how)
          PROVE  IsOut(got.of)'
      <4>1. <<got.of, buf[got.of].id, buf[got.of].n, how>> \in saved'
        BY <3>2 DEF Put
      <4> QED BY <2>1, <4>1 DEF IsOut
    <3> QED BY <1>12, <3>1, <3>2 DEF Fill
  <2> QED BY <2>1, <2>2, <2>3 DEF Saving
<1>13. CASE ToolEnd \/ Killed \/ OtherEnd
  BY <1>4, <1>13 DEF ToolEnd, Killed, OtherEnd
<1>14. CASE UNCHANGED allVars
  BY <1>3, <1>14 DEF allVars, toolVars
<1> QED BY <1>5, <1>6, <1>7, <1>8, <1>9, <1>10, <1>11, <1>12, <1>13, <1>14 DEF ToolNext

\* clear() throws away no acquisition that done() had reported unless all of it was
\* put out, to a file with -f and to the terminal without: for any number of arrays,
\* files that cannot be opened and new acquisitions.  What goes to a file that
\* opened may still be lost: nobody looks whether the writing worked.
THEOREM ClearsOnlySaved == ToolSpec => SavedBeforeDiscard
<1>1. ToolInit => ToolTyped /\ Saving
  BY InitToolTyped, InitSaving
<1>2. ToolTyped /\ Saving /\ [ToolNext]_allVars => (ToolTyped /\ Saving)'
  BY ToolTypedNext, SavingNext
<1> DEFINE Kept ==
      \A a \in Fetched :
         /\ at = "clear" /\ at' = "fetch" /\ looked[A(a)] # 0
         /\ looked[A(a)] = buf[A(a)].id /\ buf'[A(a)].id # buf[A(a)].id
         => \E how \in IF opts.file THEN {"file", "spoiled"} ELSE {"print"} :
               <<A(a), buf[A(a)].id, buf[A(a)].n, how>> \in saved
<1>3. ToolTyped /\ Saving /\ [ToolNext]_allVars => [Kept]_allVars
  <2> SUFFICES ASSUME ToolTyped, Saving, [ToolNext]_allVars, NEW a \in Fetched,
                      at = "clear", at' = "fetch", looked[A(a)] # 0, looked[A(a)] = buf[A(a)].id,
                      buf'[A(a)].id # buf[A(a)].id
               PROVE  \E how \in IF opts.file THEN {"file", "spoiled"} ELSE {"print"} :
                         <<A(a), buf[A(a)].id, buf[A(a)].n, how>> \in saved
    BY Zenon
  <2>1. Clear
    BY DEF ToolNext, FwStart, FwEnd, FwWrite, Start, ToolInitialize, ToolInitRaw, Diag, Dump, Rearm,
           ToolDone, Get, Exit, Fill, ToolEnd, Killed, OtherStart, OtherStep, OtherEnd, allVars, toolVars
  <2>2. Rewound({got.of})
    BY <2>1, RewindEffect DEF Clear
  <2>3. A(a) = got.of
    BY <2>2, BufKinds DEF Rewound
  <2>4. IsOut(A(a))
    BY <2>3 DEF Saving, Seen
  <2> QED BY <2>4 DEF IsOut
<1> QED BY <1>1, <1>2, <1>3, PTL DEF ToolSpec, SavedBeforeDiscard
=============================================================================
