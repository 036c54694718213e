------------------------- MODULE BsaProcessorProofs -------------------------
(***************************************************************************)
(* What holds of the standard array readout for every number and size of   *)
(* arrays, every entry and burst size, and every order of steps.           *)
(***************************************************************************)
EXTENDS BsaProcessorTypes

-----------------------------------------------------------------------------
(* What the steps do to time stamps *)

\* The firmware never takes a time stamp back, sets a clear bit only with a new
\* time stamp, and leaves the software's state alone.
LEMMA FirmwareStamps ==
    ASSUME TypeInv, Firmware
    PROVE  /\ \A a \in Arrays :
                 /\ tstamp'[a] \in Nat /\ tstamp'[a] >= tstamp[a]
                 /\ clear'[a] => clear[a] \/ tstamp'[a] > tstamp[a]
           /\ UNCHANGED <<state, pc, todo, arr, cur, from, snap, seen>>
<1> USE DEF TypeInv, TypeOK, RegistersOK
<1> DEFINE Kept == \A a \in Arrays :
                      /\ tstamp'[a] \in Nat /\ tstamp'[a] >= tstamp[a]
                      /\ clear'[a] => clear[a] \/ tstamp'[a] > tstamp[a]
<1>1. UNCHANGED <<state, pc, todo, arr, cur, from, snap, seen>>
  BY DEF Firmware, FwStart, FwBurst, FwWild, local
<1>2. ASSUME NEW a \in Arrays, FwStart(a) PROVE Kept
  BY <1>2 DEF FwStart
<1>3. ASSUME NEW a \in Arrays, Touch(a), clear' = clear PROVE Kept
  <2>1. tstamp' = [tstamp EXCEPT ![a] = @ + 1] \/ tstamp' = tstamp
    BY <1>3, Zenon DEF Touch
  <2> QED BY <1>3, <2>1
<1>4. ASSUME NEW a \in Arrays, FwBurst(a) \/ FwWild(a) PROVE Kept
  BY <1>3, <1>4, Zenon DEF FwBurst, FwWild
<1> QED BY <1>1, <1>2, <1>4 DEF Firmware

\* update()'s tail stores the time stamp and write address state() read.
LEMMA DeliverStamps ==
    ASSUME TypeInv, arr \in Arrays, NEW r, NEW next, Deliver(r, next)
    PROVE  \A a \in Arrays :
              /\ state'[a].ts = IF a = arr THEN cur.ts ELSE state[a].ts
              /\ state'[a].wr = IF a = arr THEN cur.wr ELSE state[a].wr
              /\ state'[a].next = IF a = arr THEN next ELSE state[a].next
<1> DEFINE n == cur.nacq + Len(r)
           new == [ts |-> cur.ts, wr |-> cur.wr, next |-> next, nacq |-> n]
<1>1. state' = [state EXCEPT ![arr] = new]
  BY Zenon DEF Deliver
<1>2. state \in [Arrays -> [ts : Nat, wr : Nat, next : Int, nacq : Nat]]
  BY DEF TypeInv, TypeOK, DataOK
<1> HIDE DEF n
<1> QED BY <1>1, <1>2

-----------------------------------------------------------------------------
(* A new acquisition is never hidden *)

\* A stored time stamp is never ahead of the hardware's, and behind it while a
\* new acquisition waits; the same of the stamp update() is about to store, from
\* the step on which it took the clear bit to be down.
Stamped ==
    /\ \A a \in Arrays : /\ state[a].ts <= tstamp[a]
                         /\ clear[a] => state[a].ts < tstamp[a]
    /\ arr \in Arrays => cur.ts <= tstamp[arr]
    /\ arr \in Arrays /\ pc \in {"getWr", "getFull", "fill"} /\ clear[arr] =>
          cur.ts < tstamp[arr]
    /\ pc = "unassigned" => cur.ts = state[arr].ts

\* What the invariant speaks of are numbers and truth values.
LEMMA StampTypes ==
    ASSUME TypeInv
    PROVE  /\ \A a \in Arrays : tstamp[a] \in Nat /\ state[a].ts \in Nat /\ clear[a] \in BOOLEAN
           /\ cur.ts \in Nat /\ NoArray \notin Arrays
BY LayoutTyped DEF TypeInv, TypeOK, RegistersOK, DataOK, ThreadOK

\* No stamp is ahead at the start.
LEMMA StampedInit == Init => Stamped
BY LayoutTyped DEF Init, Stamped, NoCur

\* No step puts a stored stamp ahead, or level with a waiting acquisition.
LEMMA StampedNext == TypeInv /\ TypeInv' /\ Stamped /\ [Next]_vars => Stamped'
<1> SUFFICES ASSUME TypeInv, TypeInv', Stamped, [Next]_vars PROVE Stamped'
  OBVIOUS
<1> USE StampTypes
<1>1. CASE Firmware
  BY <1>1, FirmwareStamps DEF Stamped
<1>2. CASE PendingTs \/ PendingWr \/ Sleep \/ ReadWr \/ GetWr \/ GetFull \/ AbortPv
  <2>1. UNCHANGED <<tstamp, clear, state, arr>> /\ cur'.ts = cur.ts
    BY <1>2 DEF PendingTs, PendingWr, Sleep, ReadWr, GetWr, GetFull, AbortPv, fw, local,
                TypeInv, TypeOK, ThreadOK
  <2>2. /\ pc' # "unassigned"
        /\ pc' \in {"getWr", "getFull", "fill"} => pc \in {"getWr", "getFull", "fill"}
    BY <1>2 DEF PendingTs, PendingWr, Sleep, ReadWr, GetWr, GetFull, AbortPv
  <2> QED BY <2>1, <2>2 DEF Stamped
<1>3. CASE ReadTs
  <2>1. PICK a \in todo : arr' = a /\ cur' = [NoCur EXCEPT !.ts = tstamp[a]]
    BY <1>3 DEF ReadTs
  <2>2. pc' = "readWr" /\ UNCHANGED <<tstamp, clear, state>> /\ cur'.ts = tstamp[a]
    BY <1>3, <2>1 DEF ReadTs, fw, NoCur
  <2> QED BY <2>1, <2>2 DEF Stamped
<1>4. CASE ReadClear
  <2>1. UNCHANGED <<tstamp, clear, state, arr>> /\ cur'.ts = cur.ts /\ arr \in Arrays
    BY <1>4 DEF ReadClear, fw, TypeInv, TypeOK, ThreadOK
  <2>2. \/ pc' = "unassigned" /\ cur.ts = state[arr].ts
        \/ pc' = "ackClear"
        \/ pc' = "getWr" /\ ~clear[arr]
    BY <1>4 DEF ReadClear, Differs
  <2> QED BY <2>1, <2>2 DEF Stamped
<1>5. CASE AckClear
  <2>1. /\ arr \in Arrays /\ clear' = [clear EXCEPT ![arr] = FALSE] /\ pc' = "getWr"
        /\ UNCHANGED <<tstamp, state, arr>> /\ cur'.ts = cur.ts
    BY <1>5 DEF AckClear, TypeInv, TypeOK, ThreadOK
  <2>2. ~clear'[arr] /\ \A a \in Arrays : clear'[a] => clear[a]
    BY <2>1 DEF TypeInv, TypeOK, RegistersOK
  <2> QED BY <2>1, <2>2 DEF Stamped
<1>6. CASE Fill
  <2>1. arr \in Arrays /\ pc = "fill" /\ Back("scan") /\ UNCHANGED <<tstamp, clear>>
    BY <1>6 DEF Fill, fw, TypeInv, TypeOK, ThreadOK
  <2>2. \E r, next : Deliver(r, next)
    BY <1>6, Zenon DEF Fill
  <2>3. \A a \in Arrays : state'[a].ts = IF a = arr THEN cur.ts ELSE state[a].ts
    BY <2>1, <2>2, DeliverStamps
  <2> QED BY <2>1, <2>3 DEF Stamped, Back
<1>7. CASE Unassigned
  <2>1. arr \in Arrays /\ pc = "unassigned" /\ UNCHANGED <<tstamp, clear>>
    BY <1>7 DEF Unassigned, fw, TypeInv, TypeOK, ThreadOK
  <2>2. arr' = NoArray /\ pc' \in {"scan", "crashed"}
    BY <1>7 DEF Unassigned, Back
  <2>3. \A a \in Arrays : state'[a].ts = IF a = arr THEN cur.ts ELSE state[a].ts
    BY <1>7, <2>1, DeliverStamps DEF Unassigned, Stamped
  <2> QED BY <2>1, <2>2, <2>3 DEF Stamped
<1>8. CASE AbortReset
  <2>1. arr' = NoArray /\ pc' = "scan" /\ UNCHANGED <<tstamp, clear>>
    BY <1>8 DEF AbortReset, Back
  <2>2. \A a \in Arrays : state'[a].ts = state[a].ts
    BY <1>8 DEF AbortReset, TypeInv, TypeOK, DataOK
  <2> QED BY <2>1, <2>2 DEF Stamped
<1>9. CASE IoError
  <2>1. UNCHANGED <<tstamp, state>> /\ \A a \in Arrays : clear'[a] => clear[a]
    BY <1>9 DEF IoError, TypeInv, TypeOK, RegistersOK
  <2>2. \/ pc' = "abort" /\ arr' = arr /\ cur' = cur
        \/ pc' = "crashed" /\ arr' = NoArray
    BY <1>9 DEF IoError, local, Back
  <2> QED BY <2>1, <2>2 DEF Stamped
<1>10. CASE Restart
  <2>1. arr' = NoArray /\ pc' = "idle" /\ UNCHANGED <<tstamp, clear>>
    BY <1>10 DEF Restart, Back
  <2>2. \A a \in Arrays : state'[a].ts = 0
    BY <1>10 DEF Restart
  <2> QED BY <2>1, <2>2 DEF Stamped
<1>11. CASE UNCHANGED vars
  BY <1>11 DEF vars, fw, local, Stamped
<1> QED
  BY <1>1, <1>2, <1>3, <1>4, <1>5, <1>6, <1>7, <1>8, <1>9, <1>10, <1>11 DEF Next, Thread

\* A new acquisition is never hidden from pending(): whatever the firmware does
\* between the register reads of state(), the stamp update() stores is older than
\* that of an acquisition whose clear bit it did not see.
THEOREM NeverHidden == Spec => []NewAcqVisible
<1> DEFINE Inv == TypeInv /\ Stamped
<1>1. Init => Inv
  BY TypeInit, StampedInit
<1>2. Inv /\ [Next]_vars => Inv'
  BY TypeNext, StampedNext
<1>3. Inv => NewAcqVisible
  BY DEF Stamped, NewAcqVisible
<1> HIDE DEF Inv
<1> QED BY <1>1, <1>2, <1>3, PTL DEF Spec

-----------------------------------------------------------------------------
(* update() always has a record *)

\* A firmware that stamps every burst and keeps WrAddr in its region.
Disciplined == IncrementalTs /\ ~WildWrAddr

\* An array that never started has its WrAddr at the beginning.
Unstarted ==
    \A a \in Arrays :
        /\ wrAddr[a] \in Begin[a] .. End[a]
        /\ tstamp[a] = 0 => wrAddr[a] = Begin[a] /\ left[a] = 0

\* A stored stamp that is still the hardware's has the hardware's WrAddr beside
\* it, except where nothing was ever stored.
PairKept ==
    \A a \in Arrays : \/ state[a].ts < tstamp[a]
                      \/ wrAddr[a] = state[a].wr
                      \/ state[a].ts = 0 /\ state[a].wr = 0

\* What pending() reported still differs, at each step up to update()'s tail.
StillDiffers ==
    /\ arr \notin todo
    /\ \A a \in todo : state[a].ts < tstamp[a] \/ wrAddr[a] # state[a].wr
    /\ pc = "pending" =>
          \A a \in Arrays : state[a].ts <= seen[a] /\ seen[a] <= tstamp[a]
    /\ pc = "readWr" =>
          /\ state[arr].ts <= cur.ts
          /\ state[arr].ts = cur.ts =>
                state[arr].ts = 0 /\ state[arr].wr = 0 /\ Begin[arr] > 0
    /\ pc \in {"readClear", "ackClear", "getWr", "getFull", "fill", "abort", "reset"} =>
          /\ Differs(cur.ts, cur.wr, arr)
          /\ state[arr].ts <= cur.ts
          /\ cur.ts < tstamp[arr] \/ wrAddr[arr] = cur.wr

Assigned == Unstarted /\ PairKept /\ StillDiffers /\ RecordAssigned

\* What the invariant speaks of are naturals.
LEMMA AssignedTypes ==
    ASSUME TypeInv
    PROVE  /\ \A a \in Arrays : /\ tstamp[a] \in Nat /\ wrAddr[a] \in Nat /\ left[a] \in Nat
                                /\ state[a].ts \in Nat /\ state[a].wr \in Nat
                                /\ Begin[a] \in Nat /\ End[a] \in Nat /\ Begin[a] <= End[a]
           /\ cur.ts \in Nat /\ cur.wr \in Nat /\ todo \subseteq Arrays /\ NoArray \notin Arrays
           /\ IF pc \in {"idle", "pending", "scan", "crashed"}
              THEN arr = NoArray ELSE arr \in Arrays
<1>1. \A a \in Arrays : Begin[a] <= End[a]
  <2>1. RingEntries * EntryUnits \in Nat
    BY SizeAssumption, EntryAssumption
  <2> QED BY <2>1, LayoutAssumption
<1> QED BY <1>1, LayoutTyped DEF TypeInv, TypeOK, RegistersOK, CountersOK, DataOK, ThreadOK

\* Whatever a disciplined firmware does to an array raises its time stamp.
LEMMA DisciplinedMoves ==
    ASSUME Disciplined, TypeInv, Unstarted, Firmware
    PROVE  \A a \in Arrays :
              /\ wrAddr'[a] \in Begin[a] .. End[a]
              /\ \/ tstamp'[a] > tstamp[a]
                 \/ tstamp'[a] = tstamp[a] /\ wrAddr'[a] = wrAddr[a] /\ left'[a] = left[a]
<1> USE AssignedTypes
<1> DEFINE Moved == \A a \in Arrays :
              /\ wrAddr'[a] \in Begin[a] .. End[a]
              /\ \/ tstamp'[a] > tstamp[a]
                 \/ tstamp'[a] = tstamp[a] /\ wrAddr'[a] = wrAddr[a] /\ left'[a] = left[a]
<1>1. ASSUME NEW b \in Arrays, FwStart(b) PROVE Moved
  BY <1>1 DEF FwStart, Rewound, Unstarted, TypeInv, TypeOK, RegistersOK, CountersOK
<1>2. ASSUME NEW b \in Arrays, FwBurst(b) PROVE Moved
  <2>1. tstamp' = [tstamp EXCEPT ![b] = @ + 1]
    BY <1>2 DEF FwBurst, Touch, Disciplined
  <2>2. PICK wr : wrAddr' = [wrAddr EXCEPT ![b] = wr] /\ wr \in Begin[b] .. End[b]
    <3> DEFINE w == IF wrAddr[b] = End[b] THEN Begin[b] ELSE wrAddr[b]
    <3>1. PICK wr \in IF w + BurstUnits = End[b] THEN EndShown(b) ELSE {w + BurstUnits} :
             wrAddr' = [wrAddr EXCEPT ![b] = wr]
      BY <1>2, Zenon DEF FwBurst
    <3>2. w \in Begin[b] .. End[b] /\ w + BurstUnits <= End[b]
      BY <1>2 DEF FwBurst, Unstarted
    <3> HIDE DEF w
    <3>3. wr \in Begin[b] .. End[b]
      BY <3>2, LayoutTyped DEF EndShown
    <3> QED BY <3>1, <3>3
  <2>3. left' = [left EXCEPT ![b] = @ - BurstUnits]
    BY <1>2 DEF FwBurst
  <2> QED BY <2>1, <2>2, <2>3 DEF Unstarted, TypeInv, TypeOK, RegistersOK, CountersOK
<1>3. ASSUME NEW b \in Arrays, FwWild(b) PROVE Moved
  BY <1>3 DEF FwWild, Disciplined
<1> QED BY <1>1, <1>2, <1>3 DEF Firmware

\* Nothing is reported at the start.
LEMMA AssignedInit == Init => Assigned
<1> SUFFICES ASSUME Init PROVE Assigned
  OBVIOUS
<1>1. \A a \in Arrays : Begin[a] \in Nat /\ Begin[a] \in Begin[a] .. End[a]
  <2>1. RingEntries * EntryUnits \in Nat
    BY SizeAssumption, EntryAssumption
  <2> QED BY <2>1, LayoutAssumption
<1>2. Unstarted /\ PairKept
  BY <1>1 DEF Init, Unstarted, PairKept
<1>3. StillDiffers /\ RecordAssigned
  BY DEF Init, StillDiffers, RecordAssigned
<1> QED BY <1>2, <1>3 DEF Assigned

\* The firmware cannot make what was reported equal again.
LEMMA AssignedFirmware ==
    ASSUME Disciplined, TypeInv, Stamped, Assigned, Firmware
    PROVE  Assigned'
<1> USE AssignedTypes DEF Assigned
<1> DEFINE Moved(a) == /\ wrAddr'[a] \in Begin[a] .. End[a]
                       /\ \/ tstamp'[a] > tstamp[a]
                          \/ /\ tstamp'[a] = tstamp[a] /\ wrAddr'[a] = wrAddr[a]
                             /\ left'[a] = left[a]
<1>1. \A a \in Arrays : Moved(a) /\ tstamp'[a] \in Nat
  BY DisciplinedMoves, FirmwareStamps
<1>2. UNCHANGED <<state, pc, todo, arr, cur, from, snap, seen>>
  BY FirmwareStamps
<1>3. Unstarted'
  BY <1>1 DEF Unstarted
<1>4. PairKept'
  BY <1>1, <1>2 DEF PairKept, Stamped
<1>5. StillDiffers'
  <2>1. \A a \in todo : state[a].ts < tstamp'[a] \/ wrAddr'[a] # state[a].wr
    BY <1>1 DEF StillDiffers, Stamped
  <2>2. ASSUME pc = "pending", NEW a \in Arrays
        PROVE  state[a].ts <= seen[a] /\ seen[a] <= tstamp'[a]
    <3>1. seen[a] \in Nat
      BY DEF TypeInv, TypeOK, ThreadOK
    <3> QED BY <1>1, <2>2, <3>1 DEF StillDiffers
  <2>3. ASSUME arr \in Arrays, cur.ts < tstamp[arr] \/ wrAddr[arr] = cur.wr
        PROVE  cur.ts < tstamp'[arr] \/ wrAddr'[arr] = cur.wr
    BY <1>1, <2>3 DEF Stamped
  <2> QED BY <1>2, <2>1, <2>2, <2>3 DEF StillDiffers, Differs
<1>6. RecordAssigned'
  BY <1>2 DEF RecordAssigned
<1> QED BY <1>3, <1>4, <1>5, <1>6

\* Nor can the poll thread, up to the tail of update().
LEMMA AssignedThread ==
    ASSUME Disciplined, TypeInv, TypeInv', Stamped, Assigned, Thread
    PROVE  Assigned'
<1> USE AssignedTypes DEF Assigned
<1>1. CASE PendingTs
  <2>1. UNCHANGED <<tstamp, wrAddr, left, state, todo, arr>> /\ pc' = "pending" /\ seen' = tstamp
    BY <1>1 DEF PendingTs, fw
  <2> QED BY <2>1 DEF Unstarted, PairKept, StillDiffers, RecordAssigned, Stamped
<1>2. CASE PendingWr
  <2>1. /\ UNCHANGED <<tstamp, wrAddr, left, state, arr>> /\ pc = "pending" /\ pc' = "scan"
        /\ todo' = {a \in Arrays : Differs(seen[a], wrAddr[a], a)}
    BY <1>2 DEF PendingWr, fw
  <2>2. ASSUME NEW a \in todo' PROVE state[a].ts < tstamp[a] \/ wrAddr[a] # state[a].wr
    <3>1. a \in Arrays /\ seen[a] \in Nat
      BY <2>1 DEF TypeInv, TypeOK, ThreadOK
    <3> QED BY <2>1, <3>1 DEF Differs, StillDiffers
  <2> QED BY <2>1, <2>2 DEF Unstarted, PairKept, StillDiffers, RecordAssigned
<1>3. CASE Sleep \/ AbortPv
  <2>1. UNCHANGED <<tstamp, wrAddr, left, state, todo, arr, cur>>
    BY <1>3 DEF Sleep, AbortPv, fw, local
  <2>2. pc' = "idle" \/ (pc = "abort" /\ pc' = "reset")
    BY <1>3 DEF Sleep, AbortPv
  <2> QED BY <2>1, <2>2 DEF Unstarted, PairKept, StillDiffers, RecordAssigned, Differs
<1>4. CASE ReadTs
  <2>1. PICK a \in todo : /\ arr' = a /\ todo' = todo \ {a}
                          /\ cur' = [NoCur EXCEPT !.ts = tstamp[a]]
    BY <1>4 DEF ReadTs
  <2>2. UNCHANGED <<tstamp, wrAddr, left, state>> /\ pc' = "readWr" /\ cur'.ts = tstamp[a]
    BY <1>4, <2>1 DEF ReadTs, fw, NoCur
  <2>3. state[a].ts <= tstamp[a]
    BY DEF Stamped
  <2>4. state[a].ts = tstamp[a] => state[a].ts = 0 /\ state[a].wr = 0 /\ Begin[a] > 0
    BY DEF StillDiffers, PairKept, Unstarted
  <2> QED BY <2>1, <2>2, <2>3, <2>4 DEF Unstarted, PairKept, StillDiffers, RecordAssigned
<1>5. CASE ReadWr
  <2>1. /\ UNCHANGED <<tstamp, wrAddr, left, state, todo, arr>> /\ arr \in Arrays
        /\ pc = "readWr" /\ pc' = "readClear" /\ cur' = [cur EXCEPT !.wr = wrAddr[arr]]
    BY <1>5 DEF ReadWr, fw
  <2>2. cur'.ts = cur.ts /\ cur'.wr = wrAddr[arr]
    BY <2>1 DEF TypeInv, TypeOK, ThreadOK
  <2>3. state[arr].ts = cur.ts => wrAddr[arr] # state[arr].wr
    BY <2>1 DEF StillDiffers, Unstarted
  <2> QED BY <2>1, <2>2, <2>3 DEF Unstarted, PairKept, StillDiffers, RecordAssigned, Differs
<1>6. CASE ReadClear
  <2>1. /\ UNCHANGED <<tstamp, wrAddr, left, state, todo, arr>> /\ arr \in Arrays
        /\ pc = "readClear" /\ cur'.ts = cur.ts /\ cur'.wr = cur.wr
    BY <1>6 DEF ReadClear, fw, TypeInv, TypeOK, ThreadOK
  <2>2. Differs(cur.ts, cur.wr, arr)
    BY <2>1 DEF StillDiffers
  <2>3. pc' = "ackClear" \/ pc' = "getWr"
    BY <1>6, <2>2 DEF ReadClear
  <2> QED BY <2>1, <2>2, <2>3 DEF Unstarted, PairKept, StillDiffers, RecordAssigned, Differs
<1>7. CASE AckClear \/ GetWr \/ GetFull
  <2>1. UNCHANGED <<tstamp, wrAddr, left, state, todo, arr>>
    BY <1>7 DEF AckClear, GetWr, GetFull, fw
  <2>2. /\ cur'.ts = cur.ts /\ cur'.wr = cur.wr
        /\ pc \in {"ackClear", "getWr", "getFull"} /\ pc' \in {"getWr", "getFull", "fill", "abort"}
    BY <1>7 DEF AckClear, GetWr, GetFull, TypeInv, TypeOK, ThreadOK
  <2> QED BY <2>1, <2>2 DEF Unstarted, PairKept, StillDiffers, RecordAssigned, Differs
<1>8. CASE Fill
  <2>1. /\ UNCHANGED <<tstamp, wrAddr, left, todo>> /\ arr \in Arrays
        /\ pc = "fill" /\ pc' = "scan" /\ arr' = NoArray
    BY <1>8 DEF Fill, Back, fw
  <2>2. \E r, next : Deliver(r, next)
    BY <1>8, Zenon DEF Fill
  <2>3. \A a \in Arrays : /\ state'[a].ts = IF a = arr THEN cur.ts ELSE state[a].ts
                          /\ state'[a].wr = IF a = arr THEN cur.wr ELSE state[a].wr
    BY <2>1, <2>2, DeliverStamps
  <2>4. PairKept'
    BY <2>1, <2>3 DEF PairKept, StillDiffers
  <2>5. StillDiffers'
    BY <2>1, <2>3 DEF StillDiffers
  <2> QED BY <2>1, <2>4, <2>5 DEF Unstarted, RecordAssigned
<1>9. CASE Unassigned
  BY <1>9 DEF Unassigned, RecordAssigned
<1>10. CASE AbortReset
  <2>1. /\ arr \in Arrays /\ pc = "reset" /\ pc' = "scan" /\ arr' = NoArray
        /\ UNCHANGED <<tstamp, left, todo>>
    BY <1>10 DEF AbortReset, Back
  <2>2. \A a \in Arrays : /\ state'[a].ts = state[a].ts /\ state'[a].wr = state[a].wr
                          /\ wrAddr'[a] = IF a = arr THEN Begin[a] ELSE wrAddr[a]
    BY <1>10 DEF AbortReset, Rewound, TypeInv, TypeOK, RegistersOK, DataOK
  <2>3. Unstarted'
    BY <2>1, <2>2 DEF Unstarted
  <2>4. \/ state[arr].ts < tstamp[arr]
        \/ state[arr].ts = 0 /\ state[arr].wr = 0
    BY <2>1 DEF StillDiffers, PairKept, Stamped, Differs
  <2>5. PairKept' /\ StillDiffers'
    BY <2>1, <2>2, <2>4 DEF PairKept, StillDiffers
  <2> QED BY <2>1, <2>3, <2>5 DEF RecordAssigned
<1>11. CASE Restart
  <2>1. /\ wrAddr' = Begin /\ UNCHANGED <<tstamp, left>> /\ todo' = {} /\ pc' = "idle"
        /\ state' = [a \in Arrays |-> [ts |-> 0, wr |-> 0, next |-> Begin[a], nacq |-> 0]]
    BY <1>11 DEF Restart, Back
  <2> QED BY <2>1 DEF Unstarted, PairKept, StillDiffers, RecordAssigned
<1> QED
  BY <1>1, <1>2, <1>3, <1>4, <1>5, <1>6, <1>7, <1>8, <1>9, <1>10, <1>11 DEF Thread

\* Nor can an access that throws.
LEMMA AssignedIoError ==
    ASSUME TypeInv, Assigned, IoError
    PROVE  Assigned'
<1>1. UNCHANGED <<tstamp, wrAddr, left, state, todo>>
  BY DEF IoError, local
<1>2. \/ /\ pc \in {"ackClear", "getWr", "getFull", "fill"} /\ pc' = "abort"
         /\ arr' = arr /\ cur' = cur
      \/ pc' = "crashed" /\ arr' = NoArray
  BY DEF IoError, local, Back
<1> QED BY <1>1, <1>2, AssignedTypes
        DEF Assigned, Unstarted, PairKept, StillDiffers, RecordAssigned, Differs

\* Every step of a disciplined firmware and of the software keeps it so.
LEMMA AssignedNext ==
    ASSUME Disciplined, TypeInv, Stamped, Assigned, [Next]_vars
    PROVE  Assigned'
<1>1. TypeInv' /\ Stamped'
  BY TypeNext, StampedNext
<1>2. ASSUME UNCHANGED vars PROVE Assigned'
  <2>1. UNCHANGED <<tstamp, wrAddr, left, state, pc, todo, arr, cur, seen>>
    BY <1>2 DEF vars, fw, local
  <2>2. Unstarted' /\ PairKept' /\ RecordAssigned'
    BY <2>1 DEF Assigned, Unstarted, PairKept, RecordAssigned
  <2>3. StillDiffers'
    BY <2>1 DEF Assigned, StillDiffers, Differs
  <2> QED BY <2>2, <2>3 DEF Assigned
<1> QED BY <1>1, <1>2, AssignedFirmware, AssignedThread, AssignedIoError DEF Next

\* While the firmware stamps every burst and keeps WrAddr in its region, the
\* array update() is called for still differs when it reads the registers again,
\* so the record it delivers was assigned: true of every interleaving of bursts,
\* acquisitions, aborts, failed accesses and restarts.
THEOREM AlwaysAssigned == Disciplined => (Spec => []RecordAssigned)
<1> DEFINE Inv == TypeInv /\ Stamped /\ Assigned
<1> SUFFICES ASSUME Disciplined PROVE Spec => []RecordAssigned
  OBVIOUS
<1>1. Init => Inv
  BY TypeInit, StampedInit, AssignedInit
<1>2. Inv /\ [Next]_vars => Inv'
  BY TypeNext, StampedNext, AssignedNext
<1>3. Inv => RecordAssigned
  BY DEF Assigned
<1> HIDE DEF Inv
<1> QED BY <1>1, <1>2, <1>3, PTL DEF Spec

-----------------------------------------------------------------------------
(* Every fetch stays in its region *)

\* What get() goes by has passed its traps.
Bounded ==
    /\ pc \in {"getFull", "fill"} => {from, snap.end} \subseteq Begin[arr] .. End[arr]
    /\ pc = "fill" => Fetch(arr, from, snap.end).n <= RingEntries

\* The number of entries c units long in nb units, what remains, and where that
\* many entries end.
FetchSizes(f, a, begin, end) ==
    LET E == EntryUnits
    IN  /\ f.n \in Nat /\ f.head \in Nat /\ f.tail \in Int /\ f.next \in Int
        /\ end - f.next >= 0 /\ end - f.next < E
        /\ IF end <= begin
           THEN /\ f.head = End[a] - begin /\ f.next = Begin[a] + f.tail
                /\ f.head + f.tail = f.n * E
                /\ f.next = end - (End[a] - begin + end - Begin[a] - f.n * E)
           ELSE /\ f.head = f.n * E /\ f.tail = 0
                /\ f.n # 0 => f.next = begin + f.n * E
                /\ f.n = 0 => f.next = end

\* A quotient is a number of whole parts.
LEMMA WholeParts ==
    ASSUME NEW x \in Nat, NEW c \in Nat \ {0}
    PROVE  \E n, k \in Nat : /\ n = x \div c /\ k = n * c /\ k = c * n
                            /\ k <= x /\ x < k + c /\ ((x % c) = 0 => x = k)
<1>1. /\ x \div c \in Nat /\ (x \div c) * c \in Nat /\ (x \div c) * c = c * (x \div c)
      /\ (x \div c) * c <= x /\ x < (x \div c) * c + c
  BY Division
<1>2. (x % c) = x - c * (x \div c)
  OBVIOUS
<1> PICK n \in Nat : n = x \div c
  BY <1>1
<1> PICK k \in Nat : k = n * c
  BY <1>1
<1>3. k = c * n /\ k <= x /\ x < k + c
  BY <1>1
<1>4. (x % c) = x - k
  BY <1>1, <1>2
<1>5. (x % c) = 0 => x = k
  BY <1>4
<1> QED BY <1>3, <1>5

\* That is what a fetch between two addresses of the region is: bursts may end
\* anywhere.
LEMMA FetchIs ==
    ASSUME NEW a \in Arrays, NEW begin \in Begin[a] .. End[a], NEW end \in Begin[a] .. End[a]
    PROVE  FetchSizes(Fetch(a, begin, end), a, begin, end)
<1> PICK E \in Nat \ {0} : E = EntryUnits
  BY EntryAssumption
<1> PICK s \in Nat : s = Begin[a]
  BY LayoutTyped
<1> PICK e \in Nat : e = End[a]
  BY LayoutTyped
<1>1. begin \in Nat /\ end \in Nat /\ s <= begin /\ begin <= e /\ s <= end /\ end <= e
  OBVIOUS
<1>2. CASE end <= begin
  <2> PICK nb \in Nat : nb = e - begin + end - s
    BY <1>1
  <2>1. PICK n, k \in Nat : /\ n = nb \div E /\ k = n * E /\ k = E * n
                            /\ k <= nb /\ nb < k + E
    BY WholeParts
  <2>2. /\ Fetch(a, begin, end).n = n
        /\ Fetch(a, begin, end).next = end + E * n - nb
        /\ Fetch(a, begin, end).head = e - begin
        /\ Fetch(a, begin, end).tail = end + E * n - nb - s
    BY <1>2, <2>1 DEF Fetch
  <2>3. /\ Fetch(a, begin, end).next = end + k - nb
        /\ Fetch(a, begin, end).tail = end + k - nb - s
    BY <2>1, <2>2
  <2> PICK f : f = Fetch(a, begin, end)
    OBVIOUS
  <2>4. f.n = n /\ f.next = end + k - nb /\ f.head = e - begin /\ f.tail = end + k - nb - s
    BY <2>2, <2>3
  <2>5. k <= nb /\ nb < k + E /\ f.n * EntryUnits = k
    BY <2>1, <2>4
  <2>6. /\ f.n \in Nat /\ f.head \in Nat /\ f.tail \in Int /\ f.next \in Int
        /\ end - f.next >= 0 /\ end - f.next < E
        /\ f.next = s + f.tail /\ f.head + f.tail = k
        /\ f.next = end - (e - begin + end - s - k)
    BY <1>1, <2>4, <2>5
  <2>7. FetchSizes(f, a, begin, end)
    BY <1>2, <2>4, <2>5, <2>6 DEF FetchSizes
  <2> QED BY <2>7
<1>3. CASE ~(end <= begin)
  <2> PICK nb \in Nat : nb = end - begin
    BY <1>1, <1>3
  <2>1. PICK n, k \in Nat : n = nb \div E /\ k = n * E /\ k <= nb /\ nb < k + E
    BY WholeParts
  <2> PICK f : f = Fetch(a, begin, end)
    OBVIOUS
  <2>2. f.n = n /\ f.next = (IF n = 0 THEN end ELSE begin + k) /\ f.head = k /\ f.tail = 0
    BY <1>3, <2>1 DEF Fetch
  <2>3. f.n * EntryUnits = k /\ k <= nb /\ nb < k + E /\ (n = 0 => k = 0)
    BY <2>1, <2>2
  <2>4. /\ f.n \in Nat /\ f.head \in Nat /\ f.tail \in Int /\ f.next \in Int
        /\ end - f.next >= 0 /\ end - f.next < E
    BY <1>1, <2>2, <2>3
  <2>5. FetchSizes(f, a, begin, end)
    BY <1>3, <2>2, <2>3, <2>4 DEF FetchSizes
  <2> QED BY <2>5
<1> QED BY <1>2, <1>3

\* Address x of array a begins an entry, or ends the last one.
Aligned(a, x) == \E j \in 0 .. RingEntries : x = Begin[a] + j * EntryUnits

\* Both ends of a region are aligned.
LEMMA AlignedBounds ==
    ASSUME NEW a \in Arrays
    PROVE  /\ Begin[a] \in Nat /\ End[a] \in Nat
           /\ Begin[a] \in Begin[a] .. End[a] /\ End[a] \in Begin[a] .. End[a]
           /\ Aligned(a, Begin[a]) /\ Aligned(a, End[a])
<1>1. RingEntries \in Nat /\ RingEntries * EntryUnits \in Nat /\ 0 * EntryUnits = 0
  BY SizeAssumption, EntryAssumption
<1>2. Begin[a] \in Nat /\ End[a] = Begin[a] + RingEntries * EntryUnits
  BY LayoutAssumption
<1>3. Aligned(a, Begin[a]) /\ Aligned(a, End[a])
  <2>1. 0 \in 0 .. RingEntries /\ RingEntries \in 0 .. RingEntries
    BY <1>1
  <2>2. Begin[a] = Begin[a] + 0 * EntryUnits
    BY <1>1, <1>2
  <2> QED BY <1>2, <2>1, <2>2 DEF Aligned
<1> QED BY <1>1, <1>2, <1>3

\* An address of the region that is a whole number of entries from its beginning
\* is aligned.
LEMMA AlignedIs ==
    ASSUME NEW a \in Arrays, NEW x \in Begin[a] .. End[a], (x - Begin[a]) % EntryUnits = 0
    PROVE  Aligned(a, x)
<1> PICK E \in Nat \ {0} : E = EntryUnits
  BY EntryAssumption
<1> PICK s \in Nat : s = Begin[a]
  BY LayoutTyped
<1>1. RingEntries \in Nat /\ End[a] = s + RingEntries * E /\ RingEntries * E \in Nat
  BY SizeAssumption, LayoutAssumption
<1> PICK d \in Nat : d = x - s
  BY <1>1
<1>2. (d % E) = 0
  BY Zenon
<1>3. PICK j, k \in Nat : k = j * E /\ ((d % E) = 0 => d = k)
  BY WholeParts
<1>4. j <= RingEntries
  <2>1. ~(RingEntries * E < j * E)
    BY <1>1, <1>2, <1>3
  <2> QED BY <1>1, <2>1, TimesOrder
<1>5. x = s + j * E
  BY <1>2, <1>3
<1> QED BY <1>4, <1>5 DEF Aligned

\* A fetch that begins at an entry ends at one, in the region, and copies no less
\* than nothing after the wrap.
LEMMA AlignedFetch ==
    ASSUME NEW a \in Arrays, NEW begin \in Begin[a] .. End[a], NEW end \in Begin[a] .. End[a],
           Aligned(a, begin), NEW f, FetchSizes(f, a, begin, end), f.n # 0 \/ end <= begin
    PROVE  f.tail >= 0 /\ f.next \in Begin[a] .. End[a] /\ Aligned(a, f.next)
<1> PICK E \in Nat \ {0} : E = EntryUnits
  BY EntryAssumption
<1> PICK s \in Nat : s = Begin[a]
  BY LayoutTyped
<1> PICK R \in Nat : R = RingEntries
  BY SizeAssumption
<1>1. End[a] = s + R * E /\ R * E \in Nat
  BY LayoutAssumption
<1> PICK i \in 0 .. R : begin = s + i * E
  BY DEF Aligned
<1> PICK n \in Nat : n = f.n
  BY DEF FetchSizes
<1>2. i * E \in Nat /\ n * E \in Nat /\ i \in Nat
  BY TimesOrder
<1> PICK z \in Int : z = f.next
  BY DEF FetchSizes
<1>3. \E j \in Nat : z = s + j * E
  <2>1. CASE end <= begin
    <3>1. /\ f.head = s + R * E - begin /\ z = s + f.tail /\ f.head + f.tail = n * E
          /\ f.tail \in Int
          /\ z = end - (s + R * E - begin + end - s - n * E)
      BY <1>1, <2>1 DEF FetchSizes
    <3>2. f.tail = n * E - (R * E - i * E)
      BY <1>1, <1>2, <3>1
    <3>3. end - z < E /\ s <= end
      BY DEF FetchSizes
    <3>4. R - i \in Nat /\ (R - i) * E = R * E - i * E /\ (R - i) * E \in Nat
      <4>1. PICK d \in Nat : R = d + i
        <5>1. R - i \in Nat /\ R = (R - i) + i
          BY <1>2
        <5> QED BY <5>1
      <4>2. (d + i) * E = d * E + i * E /\ d * E \in Nat
        BY <1>2, TimesOrder
      <4> QED BY <1>2, <4>1, <4>2
    <3>5. PICK d \in Nat : d = R - i /\ d * E = R * E - i * E /\ d * E \in Nat
      BY <3>4
    <3>6. n * E + E > d * E
      BY <1>1, <1>2, <3>1, <3>2, <3>3, <3>5
    <3>7. d <= n
      <4>1. (n + 1) * E = n * E + E
        BY <1>2
      <4>2. PICK m \in Nat : m = n + 1
        OBVIOUS
      <4>3. d * E < m * E
        BY <3>6, <4>1, <4>2
      <4>4. d < m
        BY <4>3, TimesOrder
      <4> QED BY <4>2, <4>4
    <3>8. PICK j \in Nat : n = j + d
      <4>1. n - d \in Nat /\ n = (n - d) + d
        BY <3>7
      <4> QED BY <4>1
    <3>9. n * E = j * E + d * E /\ j * E \in Nat
      BY <3>8, TimesOrder
    <3>10. f.tail = j * E
      BY <3>2, <3>5, <3>9
    <3>11. z = s + j * E
      BY <3>1, <3>10
    <3> QED BY <3>11
  <2>2. CASE ~(end <= begin)
    <3>1. z = begin + n * E
      BY <2>2 DEF FetchSizes
    <3>2. (i + n) * E = i * E + n * E /\ i + n \in Nat
      BY <1>2, TimesOrder
    <3>3. z = s + (i + n) * E
      BY <1>2, <3>1, <3>2
    <3> QED BY <3>2, <3>3
  <2> QED BY <2>1, <2>2
<1> PICK j \in Nat : z = s + j * E
  BY <1>3
<1>4. j * E \in Nat /\ z >= s /\ z <= end /\ z <= s + R * E
  <2>1. j * E \in Nat
    BY TimesOrder
  <2>2. z <= end
    BY DEF FetchSizes
  <2> QED BY <1>1, <2>1, <2>2
<1>5. j <= R
  <2>1. ~(R * E < j * E)
    BY <1>1, <1>4
  <2> QED BY <2>1, TimesOrder
<1>6. f.tail >= 0
  <2>1. CASE end <= begin
    BY <1>4, <2>1 DEF FetchSizes
  <2>2. CASE ~(end <= begin)
    BY <2>2 DEF FetchSizes
  <2> QED BY <2>1, <2>2
<1>7. Aligned(a, z)
  BY <1>5 DEF Aligned
<1> QED BY <1>1, <1>4, <1>6, <1>7

\* No step but get()'s own moves what its traps have passed.
LEMMA BoundedNext ==
    ASSUME TypeInv, Bounded, [Next]_vars
    PROVE  Bounded'
<1>1. CASE Firmware
  <2>1. UNCHANGED <<pc, arr, from, snap>>
    BY <1>1, FirmwareStamps
  <2> QED BY <2>1 DEF Bounded, Fetch
<1>2. CASE GetWr
  <2>1. /\ UNCHANGED <<arr, from>>
        /\ \/ pc' = "abort"
           \/ /\ pc' = "getFull" /\ snap'.end = wrAddr[arr]
              /\ {from, wrAddr[arr]} \subseteq Begin[arr] .. End[arr]
    BY <1>2 DEF GetWr
  <2> QED BY <2>1 DEF Bounded
<1>3. CASE GetFull
  <2>1. arr \in Arrays /\ pc = "getFull" /\ UNCHANGED <<arr, from>>
    BY <1>3 DEF GetFull, TypeInv, TypeOK, ThreadOK
  <2>2. snap'.end = snap.end
    BY <1>3 DEF GetFull, TypeInv, TypeOK, ThreadOK
  <2>3. \/ pc' = "abort"
        \/ pc' = "fill" /\ ~(Fetch(arr, from, snap.end).n > RingEntries)
    BY <1>3, Zenon DEF GetFull
  <2>4. Fetch(arr, from, snap.end).n \in Int
    BY <2>1, FetchTyped DEF TypeInv, TypeOK, ThreadOK
  <2>5. pc' = "fill" => Fetch(arr', from', snap'.end).n <= RingEntries
    <3>1. RingEntries \in Nat
      BY SizeAssumption
    <3> QED BY <2>1, <2>2, <2>3, <2>4, <3>1
  <2>6. {from', snap'.end} \subseteq Begin[arr'] .. End[arr']
    BY <2>1, <2>2 DEF Bounded
  <2> QED BY <2>5, <2>6 DEF Bounded, Fetch
<1>4. CASE Thread /\ ~GetWr /\ ~GetFull
  <2>1. pc' \notin {"getFull", "fill"}
    BY <1>4 DEF Thread, PendingTs, PendingWr, Sleep, ReadTs, ReadWr, ReadClear, AckClear,
                Fill, Unassigned, AbortPv, AbortReset, Restart, Back
  <2> QED BY <2>1 DEF Bounded
<1>5. CASE IoError
  <2>1. pc' \in {"abort", "crashed"}
    BY <1>5 DEF IoError, Back
  <2> QED BY <2>1 DEF Bounded
<1>6. CASE UNCHANGED vars
  <2>1. UNCHANGED <<pc, arr, from, snap>>
    BY <1>6 DEF vars, local
  <2> QED BY <2>1 DEF Bounded, Fetch
<1> QED BY <1>1, <1>2, <1>3, <1>4, <1>5, <1>6 DEF Next, Thread

\* Whatever the sizes of bursts and entries and wherever WrAddr went, every fetch
\* stays within its array's region and reads no more than a ring; one that begins
\* at an entry fills exactly the record it allocated and ends in the region.
THEOREM FetchNeverStrays == Spec => []FetchInRegion
<1> DEFINE Inv == TypeInv /\ Bounded
<1>1. Init => Inv
  <2>1. Init => Bounded
    BY DEF Init, Bounded
  <2> QED BY <2>1, TypeInit
<1>2. Inv /\ [Next]_vars => Inv'
  BY TypeNext, BoundedNext
<1>3. Inv => FetchInRegion
  <2> SUFFICES ASSUME TypeInv, Bounded, pc = "fill" PROVE FetchInRegion
    BY DEF FetchInRegion
  <2>1. arr \in Arrays
    BY DEF TypeInv, TypeOK, ThreadOK
  <2> PICK a \in Arrays : a = arr
    BY <2>1
  <2>2. from \in Begin[a] .. End[a] /\ snap.end \in Begin[a] .. End[a]
    BY DEF Bounded
  <2> PICK x \in Begin[a] .. End[a] : x = from
    BY <2>2
  <2> PICK y \in Begin[a] .. End[a] : y = snap.end
    BY <2>2
  <2> PICK f : f = Fetch(arr, from, snap.end)
    OBVIOUS
  <2>3. FetchSizes(f, a, x, y)
    BY FetchIs
  <2>4. f.n <= RingEntries /\ RingEntries \in Nat
    BY SizeAssumption DEF Bounded
  <2> PICK E \in Nat \ {0} : E = EntryUnits
    BY EntryAssumption
  <2> PICK s \in Nat : s = Begin[a]
    BY LayoutTyped
  <2> PICK e \in Nat : e = End[a]
    BY LayoutTyped
  <2> PICK n \in Nat : n = f.n
    BY <2>3 DEF FetchSizes
  <2> PICK k \in Nat : k = n * E /\ (n + 1) * E = k + E /\ (n = 0 => k = 0)
    <3>1. n * E \in Nat /\ (n + 1) * E = n * E + E
      OBVIOUS
    <3> QED BY <3>1
  <2>5. /\ f.head \in Nat /\ f.tail \in Int /\ f.next \in Int
        /\ y - f.next >= 0 /\ y - f.next < E
        /\ IF y <= x
           THEN /\ f.head = e - x /\ f.next = s + f.tail /\ f.head + f.tail = k
                /\ f.next = y - (e - x + y - s - k)
           ELSE /\ f.head = k /\ f.tail = 0
                /\ n # 0 => f.next = x + k
                /\ n = 0 => f.next = y
    BY <2>3 DEF FetchSizes
  <2>6. x \in Nat /\ y \in Nat /\ s <= x /\ x <= e /\ s <= y /\ y <= e
    OBVIOUS
  <2>7. /\ f.head >= 0 /\ s <= x /\ x + f.head <= e
        /\ f.tail > 0 => x + f.head = e /\ s + f.tail <= e
        /\ f.head < k + E /\ f.head + f.tail = k
    <3>1. CASE y <= x
      <4>1. PICK h \in Nat, t \in Int, z \in Int :
               /\ h = f.head /\ t = f.tail /\ z = f.next
               /\ y - z >= 0 /\ y - z < E /\ h = e - x /\ z = s + t /\ h + t = k
        BY <2>5, <3>1
      <4>2. h >= 0 /\ x + h = e /\ s + t <= e /\ h < k + E
        BY <2>6, <4>1
      <4> QED BY <2>6, <4>1, <4>2
    <3>2. CASE ~(y <= x)
      <4>0. f.head = k /\ f.tail = 0
        BY <2>5, <3>2
      <4>1. x + k <= e
        <5>1. CASE n = 0
          BY <2>6, <5>1
        <5>2. CASE n # 0
          BY <2>5, <2>6, <3>2, <5>2
        <5> QED BY <5>1, <5>2
      <4> QED BY <2>6, <4>0, <4>1
    <3> QED BY <3>1, <3>2
  <2>8. ASSUME (from - Begin[arr]) % EntryUnits = 0
        PROVE  f.tail >= 0 /\ f.next \in Begin[arr] .. End[arr]
    <3>1. Aligned(a, x)
      BY <2>8, AlignedIs
    <3>2. CASE n = 0 /\ ~(y <= x)
      BY <2>5, <2>6, <3>2
    <3>3. CASE ~(n = 0 /\ ~(y <= x))
      <4>1. f.n # 0 \/ y <= x
        BY <3>3
      <4> QED BY <2>3, <3>1, <4>1, AlignedFetch
    <3> QED BY <3>2, <3>3
  <2> QED BY <2>4, <2>7, <2>8 DEF FetchInRegion
<1> HIDE DEF Inv
<1> QED BY <1>1, <1>2, <1>3, PTL DEF Spec

-----------------------------------------------------------------------------
(* The waveforms hold the newest entries *)

\* WrAddr shows the end of a ring in one way only.
OneWay == AtEnd = {"end"} \/ AtEnd = {"begin"}

\* The first n entries of the acquisition of array a, of which the newest
\* PvDepth are shown.
Window(a, n) == Span(a, base[a], n - (IF n < PvDepth THEN n ELSE PvDepth), n - 1)

\* A number of whole entries.
Entire(x) == \E n \in Nat : x = n * EntryUnits

\* update() of array a is between the choice of from and the fetch.
InGet(a) == arr = a /\ pc \in {"getWr", "getFull", "fill"}

\* Where the next fetch of array a begins, or the one under way.
NextOf(a) == IF InGet(a) THEN from ELSE state[a].next

\* Below WrAddr stand the newest units of the acquisition, above it, once the
\* ring is full, those of the round before.
Holds(a) ==
    LET k == written[a] - base[a]
    IN  /\ \A x \in Begin[a] .. wrAddr[a] - 1 :
              dram[x] = UnitAt(a, base[a], k - (wrAddr[a] - x))
        /\ full[a] => \A x \in wrAddr[a] .. End[a] - 1 :
              dram[x] = UnitAt(a, base[a], k - RingUnits + (x - wrAddr[a]))

\* WrAddr and the wrap flag tell how much was written since the rewind.
Counts(a) ==
    LET k == written[a] - base[a]
        p == wrAddr[a] - Begin[a]
    IN  /\ wrAddr[a] \in Begin[a] .. End[a]
        /\ full[a] => k >= RingUnits + p
        /\ ~full[a] => k = p
        /\ AtEnd = {"end"} /\ p = 0 => k = 0
        /\ AtEnd = {"begin"} => wrAddr[a] # End[a]

RingsOK == \A a \in Arrays : Counts(a) /\ Holds(a)

\* What is claimed of an array is claimed while no new acquisition waits, nothing
\* was lost, no fetch found only a part of an entry, and its update is neither
\* before the choice of from nor aborted.
Current(a) ==
    /\ ~clear[a] /\ ~lost[a] /\ ~split[a] /\ pc # "crashed"
    /\ ~(arr = a /\ pc \in {"ackClear", "abort", "reset"})

\* Position at is behind position upto by as much as address x is behind y, which
\* may be a ring further on.
Behind(at, upto, x, y) ==
    /\ at <= upto /\ upto - at <= RingUnits
    /\ y - x = upto - at \/ y - x = upto - at - RingUnits
    /\ at = upto => x = y

\* The reader of array a is at an entry, behind the firmware by at most a ring.
Follows(a) ==
    /\ base[a] <= rd[a] /\ Entire(rd[a] - base[a])
    /\ Begin[a] <= NextOf(a) /\ NextOf(a) <= End[a] /\ Aligned(a, NextOf(a))
    /\ AtEnd = {"begin"} => NextOf(a) # End[a]
    /\ Behind(rd[a], written[a], NextOf(a), wrAddr[a])

\* The waveforms of array a hold the newest entries before rd.
Shows(a) == \E n \in Nat : rd[a] - base[a] = n * EntryUnits /\ pv[a] = Window(a, n)

\* What get() found between the two: how far it may go on.
Snapped(a) ==
    /\ snap.at <= written[a]
    /\ Behind(rd[a], snap.at, from, snap.end)
    /\ AtEnd = {"end"} /\ snap.end = Begin[a] => snap.at = base[a]
    /\ AtEnd = {"begin"} => snap.end # End[a]
    /\ snap.at = rd[a] => written[a] = rd[a]
    /\ pc = "fill" /\ snap.at = rd[a] => rd[a] - base[a] >= RingUnits

ReaderOK ==
    /\ \A a \in Arrays : Current(a) => Follows(a) /\ Shows(a)
    /\ pc \in {"getFull", "fill"} /\ Current(arr) => Snapped(arr)
    /\ pc = "reset" => pv[arr] = <<>>

-----------------------------------------------------------------------------
(* The newest entries *)

\* u is s and t in a row without their first d elements.
Ends(u, s, t, d) ==
    \A i \in 1 .. Len(u) : u[i] = IF d + i <= Len(s) THEN s[d + i] ELSE t[d + i - Len(s)]

\* u is w without its first d elements.
Cut(w, d, u) == Len(w) = d + Len(u) /\ SubSeq(w, d + 1, Len(w)) = u

\* That is the same.
LEMMA JoinedEnd ==
    ASSUME NEW S, NEW s \in Seq(S), NEW t \in Seq(S), NEW u \in Seq(S), NEW d \in Nat,
           d + Len(u) = Len(s) + Len(t), NEW w, Joined(s, t, w), Ends(u, s, t, d)
    PROVE  Cut(w, d, u)
<1>1. /\ w \in Seq(S) /\ Len(w) = Len(s) + Len(t)
      /\ \A i \in 1 .. Len(s) + Len(t) : w[i] = IF i <= Len(s) THEN s[i] ELSE t[i - Len(s)]
  <2>1. /\ s \o t \in Seq(S) /\ Len(s \o t) = Len(s) + Len(t)
        /\ \A i \in 1 .. Len(s) + Len(t) :
              (s \o t)[i] = IF i <= Len(s) THEN s[i] ELSE t[i - Len(s)]
    BY ConcatProperties
  <2> QED BY <2>1 DEF Joined
<1>2. Len(s) \in Nat /\ Len(t) \in Nat /\ Len(u) \in Nat /\ Len(w) = d + Len(u)
  BY <1>1
<1> PICK v : v = SubSeq(w, d + 1, Len(w))
  OBVIOUS
<1>3. v \in Seq(S)
  <2>1. d + 1 \in 1 .. Len(w) + 1
    BY <1>2
  <2> QED BY <1>1, <2>1, Suffix
<1>4. Len(v) = Len(u)
  BY <1>1, <1>2
<1>5. ASSUME NEW i \in 1 .. Len(u) PROVE v[i] = u[i]
  <2>1. d + i \in 1 .. Len(s) + Len(t) /\ d + 1 + i - 1 = d + i
    BY <1>1, <1>2
  <2>2. v[i] = w[d + i]
    BY <1>1, <1>2, <2>1
  <2>3. u[i] = IF d + i <= Len(s) THEN s[d + i] ELSE t[d + i - Len(s)]
    BY DEF Ends
  <2> QED BY <1>1, <2>1, <2>2, <2>3
<1>6. v = u
  BY <1>3, <1>4, <1>5, SeqEqual
<1> QED BY <1>2, <1>6 DEF Cut

\* s are m entries of an acquisition, from the f-th on.
Numbered(s, a, b, f, m) ==
    /\ s \in Seq(OwnEntries(a)) /\ Len(s) = m
    /\ \A i \in 1 .. m : s[i] = [array |-> a, at |-> b + (f + i - 1) * EntryUnits + 1]

\* That is what a span is.
LEMMA SpanIs ==
    ASSUME NEW a \in Nat, NEW b \in Nat, NEW f \in Nat, NEW m \in Nat, NEW l \in Int,
           l - f + 1 = m, NEW s, s = Span(a, b, f, l)
    PROVE  Numbered(s, a, b, f, m)
<1>1. s \in Seq(OwnEntries(a))
  <2>1. Span(a, b, f, l) \in Seq(OwnEntries(a))
    BY SpanTyped, Zenon
  <2> QED BY <2>1
<1>2. s = [i \in 1 .. m |-> [array |-> a, at |-> b + (f + i - 1) * EntryUnits + 1]]
  BY DEF Span
<1>3. Len(s) = m /\ \A i \in 1 .. m : s[i] = [array |-> a, at |-> b + (f + i - 1) * EntryUnits + 1]
  BY <1>2
<1> QED BY <1>1, <1>3 DEF Numbered

\* c is n cut to what a waveform keeps.
Kept(n, c) == c = IF n < PvDepth THEN n ELSE PvDepth

\* s are the last c of the first n entries.
LastOf(s, a, b, n, c) == Numbered(s, a, b, n - c, c)

\* The last m of l entries are all that follow the first n, or fill a waveform.
Reaches(m, n, l) == m <= l /\ (l - m = n \/ m >= PvDepth)

\* m entries that follow the newest c of n, or as many as the waveform keeps, leave
\* the newest e of l, where c and e are n and l cut to the depth.
LEMMA NewestNumbered ==
    ASSUME NEW a \in Nat, NEW b \in Nat, NEW n \in Nat, NEW m \in Nat, NEW l \in Nat,
           Reaches(m, n, l),
           NEW c \in Nat, Kept(n, c),
           NEW e \in Nat, Kept(l, e),
           NEW s, LastOf(s, a, b, n, c),
           NEW t, LastOf(t, a, b, l, m),
           NEW u, LastOf(u, a, b, l, e),
           NEW w, Joined(s, t, w)
    PROVE  Newest(w) = u
<1> DEFINE Nth(i) == [array |-> a, at |-> b + i * EntryUnits + 1]
           S == OwnEntries(a)
<1>1. PvDepth \in Nat \ {0}
  BY SizeAssumption
<1> USE DEF Kept, LastOf, Reaches
<1>3. s \in Seq(S) /\ Len(s) = c /\ \A i \in 1 .. c : s[i] = Nth(n - c + i - 1)
  BY DEF Numbered
<1>4. t \in Seq(S) /\ Len(t) = m /\ \A i \in 1 .. m : t[i] = Nth(l - m + i - 1)
  BY DEF Numbered
<1>5. u \in Seq(S) /\ Len(u) = e /\ \A i \in 1 .. e : u[i] = Nth(l - e + i - 1)
  BY DEF Numbered
<1> HIDE DEF Nth, S
<1> PICK d \in Nat : d = IF c + m > PvDepth THEN c + m - PvDepth ELSE 0
  <2>1. c + m > PvDepth => c + m - PvDepth \in Nat
    BY <1>1
  <2> QED BY <2>1
<1>6. d + e = c + m
  BY <1>1
<1>7. ASSUME NEW i \in 1 .. e
      PROVE  u[i] = IF d + i <= c THEN s[d + i] ELSE t[d + i - c]
  <2>1. CASE d + i <= c
    <3>1. d + i \in 1 .. c /\ n - c + (d + i) - 1 = l - e + i - 1
      BY <1>1, <2>1
    <3>2. s[d + i] = Nth(l - e + i - 1)
      BY <1>3, <3>1
    <3> QED BY <1>5, <2>1, <3>2
  <2>2. CASE ~(d + i <= c)
    <3>1. d + i - c \in 1 .. m /\ l - m + (d + i - c) - 1 = l - e + i - 1
      BY <1>1, <2>2
    <3>2. t[d + i - c] = Nth(l - e + i - 1)
      BY <1>4, <3>1
    <3> QED BY <1>5, <2>2, <3>2
  <2> QED BY <2>1, <2>2
<1>8. Len(w) = c + m /\ SubSeq(w, d + 1, Len(w)) = u
  <2>1. d + Len(u) = Len(s) + Len(t)
    BY <1>3, <1>4, <1>5, <1>6
  <2>2. Ends(u, s, t, d)
    <3>1. Len(u) = e /\ Len(s) = c
      BY <1>3, <1>5
    <3>2. ASSUME NEW i \in 1 .. Len(u)
          PROVE  u[i] = IF d + i <= Len(s) THEN s[d + i] ELSE t[d + i - Len(s)]
      BY <1>7, <3>1
    <3> QED BY <3>2 DEF Ends
  <2>3. Cut(w, d, u)
    <3>1. s \in Seq(S) /\ t \in Seq(S) /\ u \in Seq(S) /\ d \in Nat
      BY <1>3, <1>4, <1>5
    <3> QED BY <3>1, <2>1, <2>2, JoinedEnd
  <2> QED BY <1>3, <1>4, <2>1, <2>3 DEF Cut
<1>9. Newest(w) = SubSeq(w, d + 1, Len(w))
  <2>1. d + 1 = IF Len(w) > PvDepth THEN Len(w) - PvDepth + 1 ELSE 1
    BY <1>1, <1>8
  <2> QED BY <2>1 DEF Newest
<1> QED BY <1>8, <1>9

-----------------------------------------------------------------------------
(* What a fetch reads *)

\* What the invariant speaks of are numbers.
LEMMA ContentTypes ==
    ASSUME TypeInv
    PROVE  /\ \A a \in Arrays :
                 /\ a \in Nat /\ Begin[a] \in Nat /\ End[a] = Begin[a] + RingUnits
                 /\ wrAddr[a] \in Nat /\ written[a] \in Nat /\ base[a] \in Nat /\ rd[a] \in Int
                 /\ base[a] <= written[a] /\ state[a].next \in Int /\ Region(a) \subseteq Units
                 /\ clear[a] \in BOOLEAN /\ lost[a] \in BOOLEAN /\ full[a] \in BOOLEAN
           /\ from \in Int /\ snap.end \in Nat /\ snap.at \in Nat
           /\ RingUnits \in Nat \ {0} /\ RingUnits = RingEntries * EntryUnits
           /\ EntryUnits \in Nat \ {0} /\ RingEntries \in Nat \ {0} /\ NoArray \notin Arrays
           /\ pc \notin {"idle", "pending", "scan", "crashed"} => arr \in Arrays
<1>1. RingEntries * EntryUnits \in Nat \ {0}
  BY SizeAssumption, EntryAssumption
<1>2. \A a \in Arrays : Region(a) \subseteq Units
  BY DEF Units
<1>3. \A a \in Arrays : End[a] = Begin[a] + RingUnits
  BY LayoutAssumption DEF RingUnits
<1> QED
  BY <1>1, <1>2, <1>3, LayoutTyped, SizeAssumption, EntryAssumption
     DEF RingUnits, TypeInv, TypeOK, Started, RegistersOK, CountersOK, DataOK, ThreadOK

\* A unit that was written less than a ring ago is still in its place: i units
\* after the reader, or after the place a ring before it.
LEMMA StillThere ==
    ASSUME TypeInv, NEW a \in Arrays, Counts(a), Holds(a),
           NEW at \in Nat, base[a] <= at, NEW x \in Int, Begin[a] <= x, x <= End[a],
           Behind(at, written[a], x, wrAddr[a]),
           NEW i \in Nat, NEW j \in Int, NEW y,
           \/ at + i < written[a] /\ j = at - base[a] + i
           \/ /\ at = written[a] /\ at - base[a] >= RingUnits
              /\ i < RingUnits /\ j = at - base[a] - RingUnits + i,
           y = IF x + i < End[a] THEN x + i ELSE x + i - RingUnits
    PROVE  y \in Units /\ dram[y] = UnitAt(a, base[a], j)
<1> PICK b \in Nat : b = base[a]
  BY ContentTypes
<1> PICK v \in Nat : v = written[a]
  BY ContentTypes
<1> PICK w \in Int : w = wrAddr[a]
  BY ContentTypes
<1> PICK s \in Nat : s = Begin[a]
  BY ContentTypes
<1> PICK R \in Nat : R = RingUnits
  BY ContentTypes
<1>1. /\ s <= w /\ w <= s + R /\ End[a] = s + R
      /\ full[a] => v - b >= R + (w - s)
      /\ ~full[a] => v - b = w - s
  BY ContentTypes DEF Counts
<1>2. /\ at <= v /\ v - at <= R /\ b <= at /\ s <= x /\ x <= s + R
      /\ w - x = v - at \/ w - x = v - at - R
      /\ at = v => x = w
  BY <1>1 DEF Behind
<1>3. y = IF x + i < s + R THEN x + i ELSE x + i - R
  BY <1>1
<1>4. \/ at + i < v /\ j = at - b + i
      \/ at = v /\ at - b >= R /\ i < R /\ j = at - b - R + i
  OBVIOUS
<1>5. y \in Int /\ s <= y /\ y < s + R
  BY <1>1, <1>2, <1>3, <1>4
<1>6. y \in Units
  <2>1. y \in Region(a)
    BY <1>1, <1>5 DEF Region
  <2> QED BY <2>1, ContentTypes
<1>7. CASE y < w
  <2>1. y \in Begin[a] .. wrAddr[a] - 1
    BY <1>5, <1>7
  <2>2. dram[y] = UnitAt(a, b, v - b - (w - y))
    BY <2>1 DEF Holds
  <2>3. j = v - b - (w - y)
    BY <1>1, <1>2, <1>3, <1>4, <1>5, <1>7
  <2> QED BY <1>6, <2>2, <2>3
<1>8. CASE ~(y < w)
  <2>1. full[a]
    BY <1>1, <1>2, <1>3, <1>4, <1>5, <1>8
  <2>2. y \in wrAddr[a] .. End[a] - 1
    BY <1>1, <1>5, <1>8
  <2>3. dram[y] = UnitAt(a, b, v - b - R + (y - w))
    BY <2>1, <2>2 DEF Holds
  <2>4. j = v - b - R + (y - w)
    <3>1. CASE at = v
      <4>1. x = w /\ j = v - b - R + i /\ i < R
        BY <1>2, <1>4, <3>1
      <4>2. y = w + i
        BY <1>3, <1>8, <4>1
      <4> QED BY <4>1, <4>2
    <3>2. CASE at # v
      <4>1. at + i < v /\ j = at - b + i
        BY <1>4, <3>2
      <4>2. y = x + i /\ w - x = v - at - R
        BY <1>2, <1>3, <1>8, <4>1
      <4> QED BY <4>1, <4>2
    <3> QED BY <3>1, <3>2
  <2> QED BY <1>6, <2>3, <2>4
<1> QED BY <1>7, <1>8

\* A fetch of array a takes the newest m of l entries: those that follow the n
\* delivered, or the whole ring.
Takes(a, m, n, l) ==
    /\ m \in Nat /\ n \in Nat /\ l \in Nat /\ m <= l
    /\ rd[a] - base[a] = n * EntryUnits
    /\ l - m = n \/ m = RingEntries

\* How many units k a fetch of array a takes that ends at z, which is where
\* position q stands: all there are, but for a part of an entry.
Reads(a, k, z, q) ==
    /\ k \in Nat /\ z \in Int /\ q \in Int /\ q = snap.at - (snap.end - z)
    /\ Begin[a] <= z /\ z <= snap.end /\ q <= snap.at
    /\ \/ /\ snap.at = rd[a] /\ snap.end = from
          /\ z = from /\ q = rd[a] /\ k = RingUnits
       \/ /\ snap.at # rd[a] /\ snap.end <= from /\ snap.end - from = snap.at - rd[a] - RingUnits
          /\ z = from - RingUnits + k /\ q = rd[a] + k
       \/ /\ snap.at # rd[a] /\ from < snap.end /\ snap.end - from = snap.at - rd[a]
          /\ z = from + k /\ q = rd[a] + k

\* A fetch that takes as much as the ring holds ends where it started.
LEMMA WholeRing ==
    ASSUME NEW n \in Nat, NEW m \in Nat, NEW c \in Nat, NEW k \in Nat, NEW l \in Nat,
           k = n * c, m * c = l, n = m
    PROVE  k = l
OBVIOUS

\* Its next address is then the one before.
LEMMA BackAtStart ==
    ASSUME NEW x \in Int, NEW y \in Int, NEW z \in Int, NEW k \in Int, NEW l \in Int,
           y = x, z = y - (l - k), k = l
    PROVE  z = x
OBVIOUS

\* A place a whole ring behind is the ring's start, with nothing left to take.
LEMMA WholeRingBehind ==
    ASSUME NEW s \in Int, NEW l \in Int, NEW p \in Int, NEW z \in Int, NEW v \in Int,
           NEW q \in Int, q <= v, s <= z, p <= s + l, p - z = (v - q) + l
    PROVE  v = q /\ p = s + l /\ z = s
OBVIOUS

\* Reads holds of the fetch Fill is about to make, unless it finds only a part
\* of an entry.
LEMMA FetchReads ==
    ASSUME TypeInv, Bounded, ReaderOK, pc = "fill", Current(arr),
           NEW f, f = Fetch(arr, from, snap.end), f.n # 0 \/ snap.end <= from
    PROVE  /\ f.n \in Nat /\ Aligned(arr, f.next) /\ f.next \in Begin[arr] .. End[arr]
           /\ Reads(arr, f.n * EntryUnits, f.next, snap.at - (snap.end - f.next))
<1> PICK a \in Arrays : a = arr
  BY ContentTypes
<1> PICK E \in Nat \ {0} : E = EntryUnits
  BY EntryAssumption
<1> PICK s \in Nat : s = Begin[a]
  BY LayoutTyped
<1> PICK R \in Nat : R = RingUnits /\ R > 0
  BY ContentTypes
<1>1. PICK M \in Nat : M = RingEntries /\ M * E = R
  BY ContentTypes
<1>2. End[a] = s + R
  BY ContentTypes
<1>3. from \in Begin[a] .. End[a] /\ snap.end \in Begin[a] .. End[a]
  BY DEF Bounded
<1> PICK x \in Int : x = from
  BY ContentTypes
<1> PICK y \in Nat : y = snap.end
  BY ContentTypes
<1>4. Follows(a) /\ Snapped(a) /\ NextOf(a) = x
  BY DEF ReaderOK, InGet, NextOf
<1>5. FetchSizes(f, a, x, y)
  BY <1>3, FetchIs
<1>6. f.next \in Begin[a] .. End[a] /\ Aligned(a, f.next)
  <2>1. Aligned(a, x) /\ (f.n # 0 \/ y <= x)
    BY <1>4 DEF Follows
  <2> QED BY <1>3, <1>5, <2>1, AlignedFetch
<1> PICK n \in Nat : n = f.n
  BY <1>5 DEF FetchSizes
<1>7. PICK k \in Nat : k = n * E
  BY TimesOrder
<1> PICK z \in Int : z = f.next
  BY <1>6
<1> PICK t \in Nat : t = snap.at
  BY ContentTypes
<1> PICK r \in Int : r = rd[a]
  BY ContentTypes
<1>8. x \in Nat /\ y \in Nat /\ s <= x /\ x <= s + R /\ s <= y /\ y <= s + R /\ s <= z
  BY <1>2, <1>3, <1>6
<1>9. /\ r <= t /\ t - r <= R /\ (t = r => x = y)
      /\ (y - x = t - r \/ y - x = (t - r) - R)
  BY <1>4 DEF Snapped, Behind
<1>10. /\ y - z >= 0 /\ y - z < E
       /\ y <= x => z = (x - R) + k
       /\ x < y => (n # 0 /\ z = x + k)
  <2>1. y - z >= 0 /\ y - z < E
    BY <1>5 DEF FetchSizes
  <2>2. CASE y <= x
    <3>1. z = y - (End[a] - x + y - Begin[a] - f.n * EntryUnits)
      BY <1>5, <2>2 DEF FetchSizes
    <3>2. z = (x - R) + k
      BY <1>2, <1>8, <1>7, <3>1
    <3> QED BY <1>8, <2>1, <2>2, <3>2
  <2>3. CASE ~(y <= x)
    <3>1. n # 0 /\ z = x + k
      BY <1>5, <1>7, <2>3 DEF FetchSizes
    <3> QED BY <2>1, <2>3, <3>1
  <2> QED BY <2>2, <2>3
<1>11. t = r => (k = R /\ z = x)
  <2> SUFFICES ASSUME t = r PROVE k = R /\ z = x
    OBVIOUS
  <2>1. y = x /\ z = y - (R - k) /\ R - k >= 0 /\ R - k < E
    <3>1. y = x
      BY <1>9
    <3>2. z = (x - R) + k
      BY <1>8, <1>10, <3>1
    <3> QED BY <1>8, <1>10, <3>1, <3>2
  <2>2. n = M
    <3>1. k <= R /\ R < k + E
      BY <2>1
    <3>2. (n + 1) * E = k + E
      BY <1>7
    <3>3. ~(M * E < n * E)
      BY <1>1, <1>7, <3>1
    <3>4. ~(M < n)
      BY <3>3, TimesOrder
    <3>5. PICK m \in Nat : m = n + 1
      OBVIOUS
    <3>6. M * E < m * E
      BY <1>1, <3>1, <3>2, <3>5
    <3>7. M < m
      BY <3>6, TimesOrder
    <3> QED BY <3>4, <3>5, <3>7
  <2>3. k = R
    BY <1>1, <1>7, <2>2, WholeRing
  <2>4. z = x
    BY <2>1, <2>3, BackAtStart
  <2> QED BY <2>3, <2>4
<1> PICK q \in Int : q = t - (y - z)
  OBVIOUS
<1>12. \/ t = r /\ y = x /\ z = x /\ q = r /\ k = R
       \/ t # r /\ y <= x /\ y - x = (t - r) - R /\ z = (x - R) + k /\ q = r + k
       \/ t # r /\ x < y /\ y - x = t - r /\ z = x + k /\ q = r + k
  <2>1. CASE t = r
    <3>1. k = R /\ z = x /\ y = x
      BY <1>9, <1>11, <2>1
    <3>2. q = r
      BY <2>1, <3>1
    <3> QED BY <2>1, <3>1, <3>2
  <2>2. CASE t # r /\ y <= x
    <3>1. y - x = (t - r) - R
      <4>1. y - x # t - r
        BY <1>9, <2>2
      <4>2. y - x = t - r \/ y - x = (t - r) - R
        BY <1>9
      <4> QED BY <4>1, <4>2
    <3>2. z = (x - R) + k
      BY <1>10, <2>2
    <3>3. q = r + k
      BY <3>1, <3>2
    <3> QED BY <2>2, <3>1, <3>2, <3>3
  <2>3. CASE t # r /\ x < y
    <3>1. y - x = t - r
      BY <1>8, <1>9, <2>3
    <3>2. z = x + k
      BY <1>10, <2>3
    <3>3. q = r + k
      BY <3>1, <3>2
    <3> QED BY <2>3, <3>1, <3>2, <3>3
  <2>4. y <= x \/ x < y
    BY <1>8
  <2> QED BY <2>1, <2>2, <2>3, <2>4
<1>13. z <= y /\ q <= t
  BY <1>8, <1>10
<1>14. Reads(a, k, z, q)
  BY <1>8, <1>12, <1>13 DEF Reads
<1> QED BY <1>6, <1>14, <1>7

\* The entries it takes are still in place, and the newest whole ones.
LEMMA FetchTakes ==
    ASSUME TypeInv, Bounded, RingsOK, ReaderOK, pc = "fill", Current(arr),
           NEW f, f = Fetch(arr, from, snap.end), f.n # 0 \/ snap.end <= from
    PROVE  \E n, l \in Nat :
              /\ Takes(arr, f.n, n, l)
              /\ snap.at - (snap.end - f.next) - base[arr] = l * EntryUnits
              /\ EntriesAt(arr, from, f.n) = Span(arr, base[arr], l - f.n, l - 1)
<1> DEFINE E == EntryUnits
<1>1. /\ arr \in Arrays /\ Counts(arr) /\ Holds(arr) /\ Follows(arr) /\ Snapped(arr)
      /\ NextOf(arr) = from
  BY ContentTypes DEF RingsOK, ReaderOK, InGet, NextOf
<1>2. f.n \in Nat /\ Reads(arr, f.n * E, f.next, snap.at - (snap.end - f.next))
  BY FetchReads
<1> PICK m \in Nat : m = f.n
  BY <1>2
<1> PICK z \in Int : z = f.next
  BY <1>2 DEF Reads
<1> PICK q \in Int : q = snap.at - (snap.end - z)
  BY <1>2 DEF Reads
<1> PICK n \in Nat : rd[arr] - base[arr] = n * E
  BY <1>1 DEF Follows, Entire
<1> PICK b \in Nat : b = base[arr]
  BY <1>1, ContentTypes
<1>3. E \in Nat \ {0} /\ RingEntries \in Nat \ {0} /\ RingUnits = RingEntries * E
  BY ContentTypes
<1> PICK k \in Nat : k = m * E
  BY <1>3
<1> PICK l \in Nat : l = IF snap.at = rd[arr] THEN n ELSE n + m
  OBVIOUS
<1>4. n * E \in Nat /\ l * E \in Nat /\ RingUnits \in Nat
  BY <1>3
<1>5. /\ rd[arr] = b + n * E /\ rd[arr] \in Nat /\ snap.at \in Nat
      /\ from \in Int /\ snap.end \in Int
  <2>1. rd[arr] \in Int /\ snap.at \in Nat /\ from \in Int /\ snap.end \in Int
    BY <1>1, ContentTypes
  <2> QED BY <1>4, <2>1
<1>6. /\ q <= snap.at
      /\ \/ snap.at = rd[arr] /\ q = rd[arr] /\ k = RingUnits
         \/ snap.at # rd[arr] /\ q = rd[arr] + k
  BY <1>2 DEF Reads
<1>7. /\ m <= l
      /\ l - m = n \/ m = RingEntries
      /\ q - b = l * E
      /\ (l - m) * E = IF rd[arr] = snap.at THEN rd[arr] - b - RingUnits ELSE n * E
  <2>1. CASE rd[arr] # snap.at
    <3>1. l = n + m /\ l - m = n
      BY <2>1
    <3>2. (n + m) * E = n * E + m * E
      BY <1>3, TimesOrder
    <3>3. q - b = n * E + k
      BY <1>4, <1>5, <1>6, <2>1
    <3>4. l * E = n * E + k
      BY <3>1, <3>2
    <3> QED BY <2>1, <3>1, <3>3, <3>4
  <2>2. CASE rd[arr] = snap.at
    <3>1. m * E = RingEntries * E /\ l = n /\ n * E >= RingUnits
      BY <1>1, <1>3, <1>5, <1>6, <2>2 DEF Snapped
    <3>2. m = RingEntries
      BY <1>3, <3>1, TimesOrder
    <3>3. m <= n
      <4>1. ~(n * E < m * E)
        BY <1>3, <1>4, <3>1
      <4>2. ~(n < m)
        BY <1>3, <4>1, TimesOrder
      <4> QED BY <4>2
    <3>4. (n - m) * E = n * E - m * E
      BY <1>3, <3>3
    <3>5. q - b = n * E
      BY <1>4, <1>5, <1>6, <2>2
    <3> QED BY <1>3, <1>5, <2>2, <3>1, <3>2, <3>3, <3>4, <3>5
  <2> QED BY <2>1, <2>2
<1> DEFINE Addr(i) == IF from + i < End[arr] THEN from + i ELSE from + i - RingUnits
           units == [i \in 0 .. m * E - 1 |->
                        IF Addr(i) \in Units THEN dram[Addr(i)] ELSE Blank]
<1>9. ASSUME NEW i \in 0 .. m * E - 1
      PROVE  units[i] = UnitAt(arr, b, (l - m) * E + i)
  <2> PICK y : y = Addr(i)
    OBVIOUS
  <2> PICK j \in Int : j = (l - m) * E + i
    BY <1>3, <1>7
  <2>1. i \in Nat /\ i < k
    OBVIOUS
  <2>2. \/ rd[arr] + i < written[arr] /\ j = rd[arr] - b + i
        \/ /\ rd[arr] = written[arr] /\ rd[arr] - b >= RingUnits
           /\ i < RingUnits /\ j = rd[arr] - b - RingUnits + i
    <3>1. CASE rd[arr] # snap.at
      <4>1. rd[arr] + i < snap.at /\ snap.at <= written[arr]
        BY <1>1, <1>5, <1>6, <2>1, <3>1 DEF Snapped
      <4>2. j = rd[arr] - b + i
        BY <1>4, <1>5, <1>7, <3>1
      <4> QED BY <1>1, <1>5, <2>1, <4>1, <4>2, ContentTypes
    <3>2. CASE rd[arr] = snap.at
      <4>1. rd[arr] = written[arr] /\ rd[arr] - b >= RingUnits
        BY <1>1, <3>2 DEF Snapped
      <4>2. i < RingUnits
        BY <1>6, <2>1, <3>2
      <4>3. j = rd[arr] - b - RingUnits + i
        BY <1>4, <1>5, <1>7, <3>2
      <4> QED BY <4>1, <4>2, <4>3
    <3> QED BY <3>1, <3>2
  <2>3. /\ base[arr] <= rd[arr] /\ Begin[arr] <= from /\ from <= End[arr]
        /\ Behind(rd[arr], written[arr], from, wrAddr[arr])
    BY <1>1 DEF Follows
  <2>4. y = IF from + i < End[arr] THEN from + i ELSE from + i - RingUnits
    OBVIOUS
  <2>5. y \in Units /\ dram[y] = UnitAt(arr, b, j)
    <3>1. y \in Units /\ dram[y] = UnitAt(arr, base[arr], j)
      BY <1>1, <1>5, <2>1, <2>2, <2>3, <2>4, StillThere
    <3> QED BY <3>1
  <2>6. units[i] = IF y \in Units THEN dram[y] ELSE Blank
    <3> HIDE DEF Addr
    <3> QED OBVIOUS
  <2> HIDE DEF units
  <2> QED BY <2>5, <2>6
<1>10. EntriesAt(arr, from, m) = Entries(units, m)
  BY DEF EntriesAt
<1> HIDE DEF units
<1> PICK p \in Nat : p = l - m
  BY <1>7
<1>11. Entries(units, m) = Span(arr, b, p, p + m - 1)
  <2>1. Written(units, arr, b, p, m)
    BY <1>9 DEF Written
  <2>2. arr \in Nat
    BY <1>1, ContentTypes
  <2>3. PICK u : u = units
    OBVIOUS
  <2>4. PICK g \in Nat : g = arr
    BY <2>2
  <2>5. Written(u, g, b, p, m)
    BY <2>1, <2>3, <2>4
  <2>6. Entries(u, m) = Span(g, b, p, p + m - 1)
    BY <2>5, EntriesExact
  <2> QED BY <2>3, <2>4, <2>6
<1>12. p + m - 1 = l - 1
  OBVIOUS
<1>13. EntriesAt(arr, from, f.n) = Span(arr, base[arr], l - f.n, l - 1)
  BY <1>10, <1>11, <1>12
<1>14. Takes(arr, f.n, n, l)
  BY <1>7 DEF Takes
<1>15. snap.at - (snap.end - f.next) - base[arr] = l * EntryUnits
  BY <1>7
<1> QED BY <1>13, <1>14, <1>15

-----------------------------------------------------------------------------
(* What the firmware wrote *)

\* A rewound array holds nothing.
LEMMA RingRewound ==
    ASSUME TypeInv, NEW a \in Arrays, wrAddr'[a] = Begin[a], ~full'[a],
           written'[a] = written[a], base'[a] = written[a]
    PROVE  Counts(a)' /\ Holds(a)'
<1>1. written[a] - written[a] = 0
  BY ContentTypes
<1>2. Counts(a)'
  BY <1>1, ContentTypes DEF Counts
<1>3. Holds(a)'
  BY ContentTypes DEF Holds
<1> QED BY <1>2, <1>3

\* Where nothing moves nothing changes.
LEMMA RingKept ==
    ASSUME TypeInv, NEW a \in Arrays, Counts(a), Holds(a), wrAddr'[a] = wrAddr[a],
           full'[a] = full[a], written'[a] = written[a], base'[a] = base[a],
           \A x \in Region(a) : dram'[x] = dram[x]
    PROVE  Counts(a)' /\ Holds(a)'
<1>1. Counts(a)'
  BY DEF Counts
<1>2. wrAddr[a] \in Begin[a] .. End[a]
  BY DEF Counts
<1>3. /\ Begin[a] .. wrAddr[a] - 1 \subseteq Region(a)
      /\ wrAddr[a] .. End[a] - 1 \subseteq Region(a)
  BY <1>2, ContentTypes DEF Region
<1>4. Holds(a)'
  BY <1>3 DEF Holds
<1> QED BY <1>1, <1>4

\* A burst of array a is written at w, and WrAddr then shows wr.
Burst(a, w, wr) ==
    /\ w = IF wrAddr[a] = End[a] THEN Begin[a] ELSE wrAddr[a]
    /\ Begin[a] <= w /\ w + BurstUnits <= End[a]
    /\ w + BurstUnits # End[a] => wr = w + BurstUnits
    /\ w + BurstUnits = End[a] => wr \in EndShown(a) /\ wr \in {Begin[a], End[a]}
    /\ wrAddr' = [wrAddr EXCEPT ![a] = wr]
    /\ full' = [full EXCEPT ![a] = full[a] \/ wr = Begin[a] \/ wrAddr[a] = End[a]]
    /\ dram' = [x \in Units |->
                  IF x \in w .. (w + BurstUnits - 1)
                  THEN UnitAt(a, base[a], written[a] - base[a] + x - w) ELSE dram[x]]

\* Every burst is like that.
LEMMA BurstIs ==
    ASSUME TypeInv, NEW a \in Arrays, FwBurst(a)
    PROVE  \E w, wr \in Nat : Burst(a, w, wr)
<1> DEFINE w == IF wrAddr[a] = End[a] THEN Begin[a] ELSE wrAddr[a]
<1>1. PICK wr \in IF w + BurstUnits = End[a] THEN EndShown(a) ELSE {w + BurstUnits} :
         /\ wrAddr' = [wrAddr EXCEPT ![a] = wr]
         /\ full' = [full EXCEPT ![a] = @ \/ wr = Begin[a] \/ wrAddr[a] = End[a]]
  BY Zenon DEF FwBurst
<1>2. /\ w \in Region(a) /\ w + BurstUnits <= End[a]
      /\ dram' = [x \in Units |-> IF x \in w .. (w + BurstUnits - 1)
                                  THEN UnitAt(a, base[a], written[a] - base[a] + x - w)
                                  ELSE dram[x]]
  BY Zenon DEF FwBurst
<1>3. w \in Nat
  BY ContentTypes
<1>4. full' = [full EXCEPT ![a] = full[a] \/ wr = Begin[a] \/ wrAddr[a] = End[a]]
  BY <1>1
<1>5. /\ w + BurstUnits # End[a] => wr = w + BurstUnits
      /\ w + BurstUnits = End[a] => wr \in EndShown(a)
  <2> HIDE DEF w
  <2> QED OBVIOUS
<1>6. wr \in EndShown(a) => wr \in {Begin[a], End[a]}
  BY DEF EndShown
<1>7. w = IF wrAddr[a] = End[a] THEN Begin[a] ELSE wrAddr[a]
  OBVIOUS
<1> HIDE DEF w
<1>8. wr \in Nat /\ Begin[a] <= w
  BY <1>2, <1>3, <1>5, <1>6, ContentTypes, SizeAssumption DEF Region
<1>9. wrAddr' = [wrAddr EXCEPT ![a] = wr]
  BY <1>1
<1>10. Burst(a, w, wr)
  BY <1>2, <1>4, <1>5, <1>6, <1>7, <1>8, <1>9 DEF Burst
<1> QED BY <1>3, <1>8, <1>10

\* A burst goes on with what the ring holds.
LEMMA RingBurst ==
    ASSUME TypeInv, NEW a \in Arrays, Counts(a), Holds(a), FwBurst(a)
    PROVE  Counts(a)' /\ Holds(a)'
<1> PICK w \in Nat, wr \in Nat : Burst(a, w, wr)
  BY BurstIs
<1> PICK s \in Nat : s = Begin[a]
  BY ContentTypes
<1> PICK R \in Nat : R = RingUnits
  BY ContentTypes
<1> PICK B \in Nat : B = BurstUnits /\ B > 0
  BY SizeAssumption
<1> PICK p \in Nat : p = wrAddr[a]
  BY ContentTypes
<1> PICK k \in Nat : k = written[a] - base[a]
  BY ContentTypes
<1> PICK b \in Nat : b = base[a]
  BY ContentTypes
<1>1. /\ End[a] = s + R /\ s <= p /\ p <= s + R /\ R > 0
      /\ full[a] => k >= R + (p - s)
      /\ ~full[a] => k = p - s
      /\ AtEnd = {"end"} /\ p = s => k = 0
      /\ AtEnd = {"begin"} => p # s + R
  BY ContentTypes DEF Counts
<1>2. /\ w = IF p = s + R THEN s ELSE p
      /\ s <= w /\ w + B <= s + R
      /\ w + B # s + R => wr = w + B
      /\ w + B = s + R => wr \in EndShown(a) /\ wr \in {s, s + R}
  BY <1>1 DEF Burst
<1>3. /\ wrAddr'[a] = wr /\ base'[a] = b /\ written'[a] - base'[a] = k + B
      /\ full'[a] <=> (full[a] \/ wr = s \/ p = s + R)
  <2>1. wrAddr'[a] = wr
    BY DEF Burst, TypeInv, TypeOK, RegistersOK
  <2>2. written' = [written EXCEPT ![a] = @ + BurstUnits] /\ base' = base
    BY DEF FwBurst
  <2>3. written'[a] - base'[a] = k + B /\ base'[a] = b
    BY <2>2, ContentTypes DEF TypeInv, TypeOK, CountersOK
  <2>4. full'[a] <=> (full[a] \/ wr = Begin[a] \/ wrAddr[a] = End[a])
    BY Zenon DEF Burst, TypeInv, TypeOK, RegistersOK
  <2> QED BY <1>1, <2>1, <2>3, <2>4
<1>4. k + B \in Nat
  OBVIOUS
<1>5. Counts(a)'
  <2>1. s <= wr /\ wr <= s + R
    BY <1>1, <1>2
  <2>2. full'[a] => k + B >= R + (wr - s)
    BY <1>1, <1>2, <1>3
  <2>3. ~full'[a] => k + B = wr - s
    BY <1>1, <1>2, <1>3
  <2>4. AtEnd = {"end"} => wr # s
    BY <1>1, <1>2 DEF EndShown
  <2>5. AtEnd = {"begin"} => wr # s + R
    BY <1>1, <1>2 DEF EndShown
  <2> QED BY <1>1, <1>3, <1>4, <2>1, <2>2, <2>3, <2>4, <2>5 DEF Counts
<1>6. Holds(a)'
  <2>1. ASSUME NEW x \in Nat, s <= x, x < s + R
        PROVE  dram'[x] = IF w <= x /\ x < w + B THEN UnitAt(a, b, k + x - w) ELSE dram[x]
    <3>1. x \in Units
      <4>1. x \in Region(a)
        BY <1>1, <2>1 DEF Region
      <4> QED BY <4>1, ContentTypes
    <3>2. dram' = [z \in Units |->
                      IF z \in w .. (w + B - 1) THEN UnitAt(a, b, k + z - w) ELSE dram[z]]
      BY DEF Burst
    <3> QED BY <3>1, <3>2
  <2>2. /\ \A x \in Begin[a] .. p - 1 : dram[x] = UnitAt(a, b, k - (p - x))
        /\ full[a] => \A x \in p .. s + R - 1 : dram[x] = UnitAt(a, b, k - R + (x - p))
    BY <1>1 DEF Holds
  <2>3. ASSUME NEW x \in Begin[a] .. wr - 1
        PROVE  dram'[x] = UnitAt(a, b, k + B - (wr - x))
    <3>1. x \in Nat /\ s <= x /\ x < wr
      OBVIOUS
    <3>2. x < s + R /\ wr = w + B
      BY <1>1, <1>2, <3>1
    <3>3. CASE w <= x
      <4>1. dram'[x] = UnitAt(a, b, k + x - w)
        BY <2>1, <3>1, <3>2, <3>3
      <4>2. k + x - w = k + B - (wr - x)
        BY <3>1, <3>2
      <4> QED BY <4>1, <4>2
    <3>4. CASE ~(w <= x)
      <4>1. dram'[x] = dram[x] /\ w = p /\ x \in Begin[a] .. p - 1
        BY <1>2, <2>1, <3>1, <3>2, <3>4
      <4>2. dram[x] = UnitAt(a, b, k - (p - x))
        BY <2>2, <4>1
      <4>3. k - (p - x) = k + B - (wr - x)
        BY <3>1, <3>2, <4>1
      <4> QED BY <4>1, <4>2, <4>3
    <3> QED BY <3>3, <3>4
  <2>4. ASSUME full'[a], NEW x \in wr .. s + R - 1
        PROVE  dram'[x] = UnitAt(a, b, k + B - R + (x - wr))
    <3>1. x \in Nat /\ s <= x /\ x < s + R /\ wr <= x
      BY <1>1, <1>2
    <3>2. wr = w + B \/ (wr = s /\ w + B = s + R)
      <4>1. CASE w + B = s + R
        BY <1>2, <4>1
      <4>2. CASE w + B # s + R
        BY <1>2, <4>2
      <4> QED BY <4>1, <4>2
    <3>3. CASE wr = s /\ w + B = s + R
      <4>1. CASE w <= x
        <5>1. dram'[x] = UnitAt(a, b, k + x - w)
          BY <2>1, <3>1, <3>3, <4>1
        <5>2. k + x - w = k + B - R + (x - wr)
          BY <3>1, <3>3
        <5> QED BY <5>1, <5>2
      <4>2. CASE ~(w <= x)
        <5>1. dram'[x] = dram[x] /\ w = p /\ x \in Begin[a] .. p - 1
          BY <1>2, <2>1, <3>1, <4>2
        <5>2. dram[x] = UnitAt(a, b, k - (p - x))
          BY <2>2, <5>1
        <5>3. k - (p - x) = k + B - R + (x - wr)
          BY <3>1, <3>3, <5>1
        <5> QED BY <5>1, <5>2, <5>3
      <4> QED BY <4>1, <4>2
    <3>4. CASE wr = w + B
      <4>1. dram'[x] = dram[x]
        BY <2>1, <3>1, <3>4
      <4>2. CASE p = s + R
        <5>1. dram[x] = UnitAt(a, b, k - (p - x))
          <6>1. x \in Begin[a] .. p - 1
            BY <3>1, <4>2
          <6> QED BY <2>2, <6>1
        <5>2. k - (p - x) = k + B - R + (x - wr)
          BY <1>2, <3>1, <3>4, <4>2
        <5> QED BY <4>1, <5>1, <5>2
      <4>3. CASE p # s + R
        <5>1. w = p /\ full[a] /\ x \in p .. s + R - 1
          BY <1>1, <1>2, <1>3, <2>4, <3>1, <3>4, <4>3
        <5>2. dram[x] = UnitAt(a, b, k - R + (x - p))
          BY <2>2, <5>1
        <5>3. k - R + (x - p) = k + B - R + (x - wr)
          BY <3>1, <3>4, <5>1
        <5> QED BY <4>1, <5>2, <5>3
      <4> QED BY <4>2, <4>3
    <3> QED BY <3>2, <3>3, <3>4
  <2>5. k + B = written'[a] - base'[a]
    BY <1>3
  <2> QED BY <1>1, <1>3, <2>3, <2>4, <2>5 DEF Holds
<1> QED BY <1>5, <1>6

\* The rings are empty at the start.
LEMMA RingsInit == Init => RingsOK
<1> SUFFICES ASSUME Init, NEW a \in Arrays PROVE Counts(a) /\ Holds(a)
  BY DEF RingsOK
<1>1. RingEntries * EntryUnits \in Nat \ {0}
  BY EntryAssumption, SizeAssumption
<1>2. Begin[a] \in Nat /\ End[a] = Begin[a] + RingEntries * EntryUnits
  BY LayoutAssumption
<1>3. wrAddr[a] = Begin[a] /\ ~full[a] /\ written[a] = 0 /\ base[a] = 0
  BY DEF Init
<1> QED BY <1>1, <1>2, <1>3 DEF Counts, Holds

\* Another array's burst does not touch a region.
LEMMA BurstElsewhere ==
    ASSUME TypeInv, NEW a \in Arrays, NEW b \in Arrays, a # b, FwBurst(b)
    PROVE  /\ \A x \in Region(a) : dram'[x] = dram[x]
           /\ wrAddr'[a] = wrAddr[a] /\ full'[a] = full[a]
           /\ written'[a] = written[a] /\ base'[a] = base[a]
<1> PICK w \in Nat, wr \in Nat : Burst(b, w, wr)
  BY BurstIs
<1>1. ASSUME NEW x \in Region(a) PROVE dram'[x] = dram[x]
  <2>1. x \in Units /\ Begin[a] <= x /\ x < End[a] /\ x \in Nat
    BY ContentTypes DEF Region
  <2>2. x \notin w .. (w + BurstUnits - 1)
    <3>1. Begin[b] <= w /\ w + BurstUnits <= End[b]
      BY DEF Burst
    <3>2. End[a] <= Begin[b] \/ End[b] <= Begin[a]
      BY LayoutAssumption
    <3> QED BY <2>1, <3>1, <3>2, ContentTypes, SizeAssumption
  <2>3. dram' = [z \in Units |->
                    IF z \in w .. (w + BurstUnits - 1)
                    THEN UnitAt(b, base[b], written[b] - base[b] + z - w) ELSE dram[z]]
    BY DEF Burst
  <2> QED BY <2>1, <2>2, <2>3
<1>2. wrAddr'[a] = wrAddr[a] /\ full'[a] = full[a]
  BY DEF Burst, TypeInv, TypeOK, RegistersOK
<1>3. written'[a] = written[a] /\ base'[a] = base[a]
  BY DEF FwBurst, TypeInv, TypeOK, CountersOK
<1> QED BY <1>1, <1>2, <1>3

\* Every step keeps what the registers tell and what the rings hold.
LEMMA RingsNext ==
    ASSUME ~WildWrAddr, TypeInv, RingsOK, [Next]_vars
    PROVE  RingsOK'
<1> SUFFICES ASSUME NEW a \in Arrays PROVE Counts(a)' /\ Holds(a)'
  BY DEF RingsOK
<1> USE DEF RingsOK
<1>1. ASSUME NEW b \in Arrays, Rewound(b), UNCHANGED <<written, dram>>
      PROVE  Counts(a)' /\ Holds(a)'
  <2>1. /\ wrAddr'[a] = IF a = b THEN Begin[a] ELSE wrAddr[a]
        /\ full'[a] = IF a = b THEN FALSE ELSE full[a]
        /\ base'[a] = IF a = b THEN written[a] ELSE base[a]
    BY <1>1 DEF Rewound, TypeInv, TypeOK, RegistersOK, CountersOK
  <2>2. CASE a = b
    BY <1>1, <2>1, <2>2, RingRewound
  <2>3. CASE a # b
    BY <1>1, <2>1, <2>3, RingKept
  <2> QED BY <2>2, <2>3
<1>2. ASSUME NEW b \in Arrays, FwStart(b) PROVE Counts(a)' /\ Holds(a)'
  BY <1>1, <1>2 DEF FwStart
<1>3. ASSUME NEW b \in Arrays, FwBurst(b) PROVE Counts(a)' /\ Holds(a)'
  <2>1. CASE a = b
    BY <1>3, <2>1, RingBurst
  <2>2. CASE a # b
    BY <1>3, <2>2, BurstElsewhere, RingKept
  <2> QED BY <2>1, <2>2
<1>4. ASSUME NEW b \in Arrays, FwWild(b) PROVE Counts(a)' /\ Holds(a)'
  BY <1>4 DEF FwWild
<1>5. ASSUME AbortReset PROVE Counts(a)' /\ Holds(a)'
  <2>1. arr \in Arrays
    BY <1>5, ContentTypes DEF AbortReset
  <2> QED BY <1>1, <1>5, <2>1 DEF AbortReset
<1>6. ASSUME Restart PROVE Counts(a)' /\ Holds(a)'
  <2>1. wrAddr'[a] = Begin[a] /\ ~full'[a] /\ written'[a] = written[a] /\ base'[a] = written[a]
    BY <1>6 DEF Restart
  <2> QED BY <2>1, RingRewound
<1>7. ASSUME UNCHANGED <<wrAddr, full, dram, written, base>> PROVE Counts(a)' /\ Holds(a)'
  BY <1>7, RingKept
<1>8. ASSUME Thread, ~AbortReset, ~Restart PROVE UNCHANGED <<wrAddr, full, dram, written, base>>
  BY <1>8 DEF Thread, PendingTs, PendingWr, Sleep, ReadTs, ReadWr, ReadClear, AckClear,
              GetWr, GetFull, Fill, Unassigned, AbortPv, fw
<1>9. ASSUME IoError \/ UNCHANGED vars PROVE UNCHANGED <<wrAddr, full, dram, written, base>>
  BY <1>9 DEF IoError, vars, fw
<1> QED BY <1>2, <1>3, <1>4, <1>5, <1>6, <1>7, <1>8, <1>9 DEF Next, Firmware

-----------------------------------------------------------------------------
(* The reader follows *)

\* What is claimed of one array.
Good(a) == Current(a) => Follows(a) /\ Shows(a)

\* Nothing was written at the start.
LEMMA ReaderInit == Init => ReaderOK
<1> SUFFICES ASSUME Init PROVE ReaderOK
  OBVIOUS
<1>1. pc = "idle" /\ TypeInv
  BY TypeInit DEF Init
<1>2. ASSUME NEW a \in Arrays PROVE Follows(a) /\ Shows(a)
  <2>1. /\ rd[a] = 0 /\ base[a] = 0 /\ written[a] = 0 /\ wrAddr[a] = Begin[a]
        /\ pv[a] = <<>> /\ state[a].next = Begin[a]
    BY DEF Init
  <2>2. NextOf(a) = Begin[a]
    BY <1>1, <2>1 DEF NextOf, InGet
  <2>3. 0 = 0 * EntryUnits /\ 0 \in Nat
    BY EntryAssumption
  <2>4. Follows(a)
    <3>1. Begin[a] \in Nat /\ End[a] = Begin[a] + RingUnits /\ RingUnits \in Nat \ {0}
      BY <1>1, ContentTypes
    <3>2. Behind(0, 0, Begin[a], Begin[a])
      BY <3>1 DEF Behind
    <3>3. Entire(0) /\ Aligned(a, Begin[a])
      BY <2>3, AlignedBounds DEF Entire
    <3> QED BY <2>1, <2>2, <3>1, <3>2, <3>3 DEF Follows
  <2>5. Window(a, 0) = <<>>
    BY SizeAssumption DEF Window, Span
  <2> QED BY <2>1, <2>3, <2>4, <2>5 DEF Shows
<1> QED BY <1>1, <1>2 DEF ReaderOK

\* Where nothing that is claimed of moves, the claim stays.
LEMMA GoodKept ==
    ASSUME NEW a \in Arrays, Good(a), Current(a)' => Current(a),
           rd'[a] = rd[a], base'[a] = base[a], written'[a] = written[a],
           wrAddr'[a] = wrAddr[a], pv'[a] = pv[a], NextOf(a)' = NextOf(a)
    PROVE  Good(a)'
<1> SUFFICES ASSUME Current(a)' PROVE Follows(a)' /\ Shows(a)'
  BY DEF Good
<1>1. Follows(a) /\ Shows(a)
  BY DEF Good
<1>2. Follows(a)'
  BY <1>1 DEF Follows, Behind
<1>3. \A n \in Nat : Window(a, n)' = Window(a, n)
  BY DEF Window
<1>4. Shows(a)'
  BY <1>1, <1>3 DEF Shows
<1> QED BY <1>2, <1>4

\* A reader at the place the array was rewound to follows, with nothing to show.
LEMMA GoodRewound ==
    ASSUME TypeInv, NEW a \in Arrays, Counts(a)', rd'[a] = base'[a],
           base'[a] \in Nat, written'[a] \in Nat, wrAddr'[a] \in Nat,
           base'[a] <= written'[a], written'[a] - base'[a] <= RingUnits,
           NextOf(a)' = Begin[a], pv'[a] = <<>>
    PROVE  Good(a)'
<1>1. 0 = 0 * EntryUnits /\ 0 \in Nat
  BY EntryAssumption
<1>2. base'[a] - base'[a] = 0
  OBVIOUS
<1>3. Follows(a)'
  <2>1. Begin[a] <= End[a] /\ Begin[a] # End[a] /\ Begin[a] \in Nat
    BY ContentTypes
  <2>2. Behind(base'[a], written'[a], Begin[a], wrAddr'[a])
    <3> PICK b \in Nat : b = base'[a]
      OBVIOUS
    <3> PICK v \in Nat : v = written'[a]
      OBVIOUS
    <3> PICK p \in Nat : p = wrAddr'[a]
      OBVIOUS
    <3> PICK s \in Nat : s = Begin[a]
      BY <2>1
    <3>1. /\ s <= p /\ p <= s + RingUnits /\ b <= v /\ v - b <= RingUnits
          /\ v - b >= RingUnits + (p - s) \/ v - b = p - s
      BY ContentTypes DEF Counts
    <3>2. RingUnits \in Nat \ {0}
      BY ContentTypes
    <3>3. Behind(b, v, s, p)
      BY <3>1, <3>2 DEF Behind
    <3> QED BY <3>3
  <2>3. Entire(0) /\ Aligned(a, Begin[a])
    BY <1>1, AlignedBounds DEF Entire
  <2> QED BY <1>2, <2>1, <2>2, <2>3 DEF Follows, Behind
<1>4. Shows(a)'
  <2>1. Window(a, 0)' = <<>>
    BY SizeAssumption DEF Window, Span
  <2> QED BY <1>1, <1>2, <2>1 DEF Shows
<1> QED BY <1>3, <1>4 DEF Good

\* The firmware moves on before the reader, by no more than a ring unless it
\* overwrites what was not read.
LEMMA GoodBurst ==
    ASSUME OneWay, TypeInv, NEW a \in Arrays, Counts(a), Good(a), FwBurst(a)
    PROVE  Good(a)'
<1> SUFFICES ASSUME Current(a)' PROVE Follows(a)' /\ Shows(a)'
  BY DEF Good
<1> PICK w \in Nat, wr \in Nat : Burst(a, w, wr)
  BY BurstIs
<1>1. /\ UNCHANGED <<clear, pc, arr, from, snap, state, rd, base, pv, split>>
      /\ written' = [written EXCEPT ![a] = @ + BurstUnits]
      /\ lost' = [lost EXCEPT ![a] = @ \/ written'[a] - Needed(a) > RingUnits]
  BY DEF FwBurst, local, client
<1>2. written'[a] = written[a] + BurstUnits /\ wrAddr'[a] = wr
  BY <1>1 DEF Burst, TypeInv, TypeOK, RegistersOK, CountersOK
<1>3. ~lost[a] /\ ~(written'[a] - Needed(a) > RingUnits)
  <2>1. lost'[a] <=> (lost[a] \/ written'[a] - Needed(a) > RingUnits)
    BY <1>1, Zenon DEF TypeInv, TypeOK, CountersOK
  <2> QED BY <2>1 DEF Current
<1>4. Current(a)
  BY <1>1, <1>3 DEF Current
<1>5. Follows(a) /\ Shows(a)
  BY <1>4 DEF Good
<1>6. NextOf(a)' = NextOf(a)
  BY <1>1 DEF NextOf, InGet
<1>7. Shows(a)'
  <2>1. \A n \in Nat : Window(a, n)' = Window(a, n)
    BY <1>1 DEF Window
  <2> QED BY <1>1, <1>5, <2>1 DEF Shows
<1> PICK x \in Int : x = NextOf(a)
  BY ContentTypes DEF NextOf
<1> PICK s \in Nat : s = Begin[a]
  BY ContentTypes
<1> PICK R \in Nat : R = RingUnits
  BY ContentTypes
<1> PICK B \in Nat : B = BurstUnits /\ B > 0
  BY SizeAssumption
<1> PICK p \in Nat : p = wrAddr[a]
  BY ContentTypes
<1> PICK v \in Nat : v = written[a]
  BY ContentTypes
<1> PICK r \in Int : r = rd[a]
  BY ContentTypes
<1>8. /\ s <= x /\ x <= s + R /\ End[a] = s + R
      /\ r <= v
      /\ p - x = v - r \/ p - x = v - r - R
      /\ AtEnd = {"begin"} => x # s + R
  <2>1. /\ s <= x /\ x <= s + R /\ End[a] = s + R /\ r <= v
        /\ AtEnd = {"begin"} => x # s + R
    BY <1>5, ContentTypes DEF Follows, Behind
  <2>2. p - x = v - r \/ p - x = v - r - R
    BY <1>5 DEF Follows, Behind
  <2> QED BY <2>1, <2>2
<1>9. v + B - r <= R
  <2>1. Needed(a) <= r /\ Needed(a) \in Int
    BY ContentTypes DEF Needed
  <2> QED BY <1>2, <1>3, <2>1
<1>10. /\ w = IF p = s + R THEN s ELSE p
       /\ s <= w /\ w + B <= s + R
       /\ w + B # s + R => wr = w + B
       /\ w + B = s + R => wr \in EndShown(a) /\ wr \in {s, s + R}
  BY <1>8 DEF Burst
<1>11. wr = s /\ w + B = s + R => x # s + R /\ p # s + R
  <2> SUFFICES ASSUME wr = s, w + B = s + R PROVE AtEnd = {"begin"}
    BY <1>8 DEF Counts
  <2>1. s # s + R
    BY ContentTypes
  <2>2. wr \in EndShown(a) /\ End[a] = s + R
    BY <1>8, <1>10
  <2>3. AtEnd # {"end"}
    BY <2>1, <2>2 DEF EndShown
  <2> QED BY <2>3 DEF OneWay
<1>12. wr - x = v + B - r \/ wr - x = v + B - r - R
  <2>1. CASE wr = w + B
    <3>1. CASE p = s + R
      <4>1. wr - x = s + B - x /\ p - x = s + R - x
        BY <1>10, <2>1, <3>1
      <4>2. p - x = v - r
        <5> SUFFICES ASSUME p - x = v - r - R PROVE FALSE
          BY <1>8
        <5>1. s + R - x = v - r - R /\ v - r <= R - B
          BY <1>9, <4>1
        <5>2. s + R - x >= 0
          BY <1>8
        <5> QED BY <5>1, <5>2
      <4>3. wr - x = (p - x) - R + B
        BY <4>1
      <4> QED BY <4>2, <4>3
    <3>2. CASE p # s + R
      <4>1. wr - x = (p - x) + B
        BY <1>10, <2>1, <3>2
      <4> QED BY <1>8, <4>1
    <3> QED BY <3>1, <3>2
  <2>2. CASE wr = s /\ w + B = s + R
    <3>1. w = p /\ x # s + R
      BY <1>10, <1>11, <2>2
    <3>2. wr - x = (p - x) - R + B
      BY <2>2, <3>1
    <3>3. p - x = v - r => wr - x = v + B - r - R
      BY <3>2
    <3>4. p - x = v - r - R => v + B - r - R - R = wr - x /\ wr - x <= 0 - R
      BY <1>9, <3>2
    <3>5. wr - x > 0 - R
      <4>1. x < s + R
        BY <1>8, <3>1
      <4> QED BY <2>2, <4>1
    <3> QED BY <1>8, <3>3, <3>4, <3>5
  <2> QED BY <1>10, <2>1, <2>2
<1>13. Behind(r, v + B, x, wr)
  BY <1>8, <1>9, <1>12 DEF Behind
<1>14. Follows(a)'
  <2>1. Behind(rd'[a], written'[a], NextOf(a)', wrAddr'[a])
    BY <1>1, <1>2, <1>6, <1>13
  <2> QED BY <1>1, <1>5, <1>6, <2>1 DEF Follows, Behind
<1> QED BY <1>7, <1>14

\* What a step of another array's update leaves alone.
LEMMA GoodElsewhere ==
    ASSUME ReaderOK, NEW b \in Arrays, b # arr, b # arr', pc # "crashed",
           clear'[b] = clear[b], lost'[b] = lost[b], split'[b] = split[b],
           rd'[b] = rd[b], base'[b] = base[b],
           written'[b] = written[b], wrAddr'[b] = wrAddr[b], pv'[b] = pv[b],
           state'[b].next = state[b].next
    PROVE  Good(b)'
<1>1. Good(b)
  BY DEF ReaderOK, Good
<1>2. Current(b)' => Current(b)
  BY DEF Current
<1>3. NextOf(b)' = NextOf(b)
  BY DEF NextOf, InGet
<1> QED BY <1>1, <1>2, <1>3, GoodKept

\* What get() found stays true while neither it nor the array moves.
LEMMA SnappedKept ==
    ASSUME NEW a \in Arrays, Snapped(a), UNCHANGED <<snap, from, pc>>,
           rd'[a] = rd[a], base'[a] = base[a], written'[a] = written[a]
    PROVE  Snapped(a)'
BY DEF Snapped, Behind

\* A new acquisition is claimed nothing of before it is acknowledged.
LEMMA ReaderFwStart ==
    ASSUME TypeInv, ReaderOK, NEW a \in Arrays, FwStart(a)
    PROVE  ReaderOK'
<1>1. /\ UNCHANGED <<pc, arr, from, snap, state, pv, written, rd, lost, split>>
      /\ clear' = [clear EXCEPT ![a] = TRUE]
      /\ wrAddr' = [wrAddr EXCEPT ![a] = Begin[a]]
      /\ base' = [base EXCEPT ![a] = written[a]]
  BY DEF FwStart, Rewound, local, client, ghost
<1>2. clear'[a] /\ ~Current(a)'
  BY <1>1 DEF Current, TypeInv, TypeOK, RegistersOK
<1>3. ASSUME NEW b \in Arrays, b # a
      PROVE  /\ Current(b)' => Current(b)
             /\ wrAddr'[b] = wrAddr[b] /\ base'[b] = base[b] /\ NextOf(b)' = NextOf(b)
  BY <1>1, <1>3 DEF Current, NextOf, InGet, TypeInv, TypeOK, RegistersOK, CountersOK
<1>4. ASSUME NEW b \in Arrays PROVE Good(b)'
  <2>1. CASE b = a
    BY <1>2, <2>1 DEF Good
  <2>2. CASE b # a
    <3>1. Good(b)
      BY DEF ReaderOK, Good
    <3> QED BY <1>1, <1>3, <2>2, <3>1, GoodKept
  <2> QED BY <2>1, <2>2
<1>5. pc \in {"getFull", "fill"} /\ Current(arr)' => Snapped(arr)'
  <2> SUFFICES ASSUME pc \in {"getFull", "fill"}, Current(arr)' PROVE Snapped(arr)'
    OBVIOUS
  <2>1. arr \in Arrays /\ arr # a
    BY <1>1, <1>2, ContentTypes
  <2>2. Snapped(arr)
    BY <1>3, <1>1, <2>1 DEF ReaderOK, Current
  <2> PICK b \in Arrays : b = arr
    BY <2>1
  <2>3. Snapped(b)'
    BY <1>1, <1>3, <2>1, <2>2, SnappedKept
  <2> QED BY <1>1, <2>3
<1> QED BY <1>1, <1>4, <1>5 DEF ReaderOK, Good

\* A burst either leaves the reader behind, or is lost to it.
LEMMA ReaderFwBurst ==
    ASSUME OneWay, TypeInv, RingsOK, ReaderOK, NEW a \in Arrays, FwBurst(a)
    PROVE  ReaderOK'
<1>1. /\ UNCHANGED <<pc, arr, from, snap, state, pv, clear, base, rd, split>>
      /\ written' = [written EXCEPT ![a] = @ + BurstUnits]
      /\ lost' = [lost EXCEPT ![a] = @ \/ written'[a] - Needed(a) > RingUnits]
  BY DEF FwBurst, local, client
<1>2. ASSUME NEW b \in Arrays, b # a
      PROVE  /\ wrAddr'[b] = wrAddr[b] /\ written'[b] = written[b] /\ lost'[b] = lost[b]
             /\ Current(b)' => Current(b)
  <2>1. wrAddr'[b] = wrAddr[b]
    BY <1>2, BurstElsewhere
  <2>2. written'[b] = written[b]
    BY <1>1, <1>2 DEF TypeInv, TypeOK, CountersOK
  <2>3. lost'[b] = lost[b]
    BY <1>1, <1>2, Zenon DEF TypeInv, TypeOK, CountersOK
  <2> QED BY <1>1, <2>1, <2>2, <2>3 DEF Current
<1>3. ASSUME NEW b \in Arrays PROVE Good(b)'
  <2>1. Good(b) /\ Counts(b)
    BY DEF ReaderOK, Good, RingsOK
  <2>2. CASE b = a
    BY <2>1, <2>2, GoodBurst
  <2>3. CASE b # a
    <3>1. NextOf(b)' = NextOf(b)
      BY <1>1 DEF NextOf, InGet
    <3> QED BY <1>1, <1>2, <2>1, <2>3, <3>1, GoodKept
  <2> QED BY <2>2, <2>3
<1>4. pc \in {"getFull", "fill"} /\ Current(arr)' => Snapped(arr)'
  <2> SUFFICES ASSUME pc \in {"getFull", "fill"}, Current(arr)' PROVE Snapped(arr)'
    OBVIOUS
  <2> PICK b \in Arrays : b = arr
    BY ContentTypes
  <2>1. CASE b # a
    <3>1. Snapped(b)
      BY <1>1, <1>2, <2>1 DEF ReaderOK, Current
    <3>2. Snapped(b)'
      BY <1>1, <1>2, <2>1, <3>1, SnappedKept
    <3> QED BY <1>1, <3>2
  <2>2. CASE b = a
    <3>1. ~lost'[a]
      BY <1>1, <2>2 DEF Current
    <3>2. ~lost[a] /\ ~(written'[a] - Needed(a) > RingUnits)
      <4>1. lost'[a] <=> (lost[a] \/ written'[a] - Needed(a) > RingUnits)
        BY <1>1, Zenon DEF TypeInv, TypeOK, CountersOK
      <4> QED BY <3>1, <4>1
    <3>3. Snapped(a)
      <4>1. Current(arr)
        BY <1>1, <2>2, <3>2 DEF Current
      <4> QED BY <2>2, <4>1 DEF ReaderOK
    <3>4. written'[a] = written[a] + BurstUnits
      BY <1>1 DEF TypeInv, TypeOK, CountersOK
    <3>5. /\ written[a] \in Nat /\ snap.at \in Nat /\ rd[a] \in Int /\ RingUnits \in Nat
          /\ BurstUnits \in Nat \ {0}
      BY ContentTypes, SizeAssumption
    <3>6. snap.at # rd[a]
      <4> SUFFICES ASSUME snap.at = rd[a] PROVE FALSE
        OBVIOUS
      <4>1. snap.end = from /\ written[a] = rd[a]
        BY <3>3 DEF Snapped, Behind
      <4>2. Needed(a) = rd[a] - RingUnits
        BY <2>2, <4>1 DEF Needed
      <4> QED BY <3>2, <3>4, <3>5, <4>1, <4>2
    <3>7. snap.at <= written'[a]
      BY <3>3, <3>4, <3>5 DEF Snapped
    <3>8. Snapped(a)'
      BY <1>1, <3>3, <3>6, <3>7 DEF Snapped, Behind
    <3> QED BY <1>1, <2>2, <3>8
  <2> QED BY <2>1, <2>2
<1> QED BY <1>1, <1>3, <1>4 DEF ReaderOK, Good

\* So do all the firmware's steps.
LEMMA ReaderFirmware ==
    ASSUME OneWay, ~WildWrAddr, TypeInv, RingsOK, ReaderOK, Firmware
    PROVE  ReaderOK'
BY ReaderFwStart, ReaderFwBurst DEF Firmware, FwWild

\* The steps before the choice of from leave the reader where it is.
LEMMA ReaderScan ==
    ASSUME TypeInv, ReaderOK, RecordAssigned',
           PendingTs \/ PendingWr \/ Sleep \/ ReadTs \/ ReadWr \/ ReadClear
    PROVE  ReaderOK'
<1>1. UNCHANGED <<clear, lost, split, rd, base, written, wrAddr, pv, state>>
  BY DEF PendingTs, PendingWr, Sleep, ReadTs, ReadWr, ReadClear, fw, client, ghost
<1>2. pc \in {"idle", "pending", "scan", "readWr", "readClear"}
  BY DEF PendingTs, PendingWr, Sleep, ReadTs, ReadWr, ReadClear
<1>3. pc' \in {"idle", "pending", "scan", "readWr", "readClear", "ackClear", "getWr"}
  BY DEF PendingTs, PendingWr, Sleep, ReadTs, ReadWr, ReadClear, RecordAssigned
<1>4. ASSUME NEW b \in Arrays PROVE Good(b)'
  <2>1. Good(b)
    BY DEF ReaderOK, Good
  <2>2. Current(b)' => Current(b)
    BY <1>1, <1>2 DEF Current
  <2>3. NextOf(b) = state[b].next
    BY <1>2 DEF NextOf, InGet
  <2>4. arr' = b /\ pc' \in {"getWr", "getFull", "fill"} => from' = state[b].next
    BY <1>3, RecordAssigned' DEF PendingTs, PendingWr, Sleep, ReadTs, ReadWr, ReadClear
  <2>5. NextOf(b)' = NextOf(b)
    BY <1>1, <2>3, <2>4 DEF NextOf, InGet
  <2> QED BY <1>1, <2>1, <2>2, <2>5, GoodKept
<1> QED BY <1>3, <1>4 DEF ReaderOK, Good

\* An acknowledged acquisition is read from the beginning of its ring.
LEMMA ReaderAckClear ==
    ASSUME TypeInv, RingsOK', ReaderOK, AckClear
    PROVE  ReaderOK'
<1>1. /\ pc = "ackClear" /\ pc' = "getWr" /\ arr' = arr /\ from' = Begin[arr]
      /\ clear' = [clear EXCEPT ![arr] = FALSE]
      /\ pv' = [pv EXCEPT ![arr] = <<>>]
      /\ rd' = [rd EXCEPT ![arr] = base[arr]]
      /\ UNCHANGED <<base, written, wrAddr, state>>
  BY DEF AckClear, PvReset
<1>2. arr \in Arrays
  BY <1>1, ContentTypes
<1>3. lost' = [lost EXCEPT ![arr] = written[arr] - base[arr] > RingUnits]
  BY Zenon DEF AckClear
<1>4. ASSUME NEW b \in Arrays, b # arr PROVE Good(b)'
  <2>1. clear'[b] = clear[b] /\ pv'[b] = pv[b] /\ rd'[b] = rd[b]
    BY <1>1, <1>4 DEF TypeInv, TypeOK, RegistersOK, DataOK, CountersOK
  <2>2. lost'[b] = lost[b]
    BY <1>3, <1>4, Zenon DEF TypeInv, TypeOK, CountersOK
  <2>3. split'[b] = split[b]
    BY <1>4 DEF AckClear, TypeInv, TypeOK, CountersOK
  <2> QED BY <1>1, <1>4, <2>1, <2>2, <2>3, GoodElsewhere
<1>5. Good(arr)'
  <2> PICK b \in Arrays : b = arr
    BY <1>2
  <2>1. b = arr' /\ (Good(b)' => Good(arr)')
    BY <1>1
  <2> SUFFICES ASSUME ~lost'[b] PROVE Good(b)'
    BY <2>1 DEF Good, Current
  <2>2. lost'[b] <=> (written[b] - base[b] > RingUnits)
    BY <1>3, Zenon DEF TypeInv, TypeOK, CountersOK
  <2>3. written[b] - base[b] <= RingUnits
    BY <2>2, ContentTypes
  <2>4. rd'[b] = base'[b] /\ pv'[b] = <<>>
    BY <1>1 DEF TypeInv, TypeOK, CountersOK, DataOK
  <2>5. NextOf(b)' = Begin[b]
    BY <1>1, <2>1 DEF NextOf, InGet
  <2>6. Counts(b)'
    BY DEF RingsOK
  <2> QED BY <1>1, <2>3, <2>4, <2>5, <2>6, ContentTypes, GoodRewound
<1> QED BY <1>1, <1>4, <1>5 DEF ReaderOK, Good

\* What get() reads tells where it will go on.
LEMMA ReaderGetWr ==
    ASSUME TypeInv, RingsOK, ReaderOK, GetWr
    PROVE  ReaderOK'
<1>1. /\ pc = "getWr" /\ UNCHANGED <<clear, lost, split, rd, base, written, wrAddr, pv, state, arr, from>>
      /\ \/ /\ snap' = [end |-> wrAddr[arr], full |-> FALSE, at |-> written[arr]]
            /\ pc' = "getFull"
         \/ pc' = "abort"
  BY DEF GetWr, fw, client, ghost
<1>2. ASSUME NEW b \in Arrays PROVE Good(b)'
  <2>1. CASE b # arr
    BY <1>1, <2>1, GoodElsewhere
  <2>2. CASE b = arr
    <3>1. Good(b)
      BY DEF ReaderOK, Good
    <3>2. Current(b)' => Current(b)
      BY <1>1 DEF Current
    <3>3. Current(b)' => NextOf(b)' = NextOf(b)
      BY <1>1, <2>2 DEF NextOf, InGet, Current
    <3>4. CASE Current(b)'
      BY <1>1, <3>1, <3>2, <3>3, <3>4, GoodKept
    <3> QED BY <3>4 DEF Good
  <2> QED BY <2>1, <2>2
<1>3. ASSUME pc' = "getFull", Current(arr)' PROVE Snapped(arr)'
  <2> PICK b \in Arrays : b = arr
    BY <1>1, ContentTypes
  <2>1. Current(b)
    BY <1>1, <1>3 DEF Current
  <2>2. Follows(b) /\ Counts(b) /\ NextOf(b) = from
    BY <1>1, <2>1 DEF ReaderOK, RingsOK, NextOf, InGet
  <2>3. snap'.at = written[b] /\ snap'.end = wrAddr[b]
    BY <1>1, <1>3
  <2>4. /\ AtEnd = {"end"} /\ wrAddr[b] = Begin[b] => written[b] = base[b]
        /\ AtEnd = {"begin"} => wrAddr[b] # End[b]
    BY <2>2, ContentTypes DEF Counts
  <2>5. Behind(rd[b], written[b], from, wrAddr[b])
    BY <2>2 DEF Follows
  <2>6. Snapped(b)'
    BY <1>1, <1>3, <2>3, <2>4, <2>5, ContentTypes DEF Snapped, Behind
  <2> QED BY <1>1, <2>6
<1> QED BY <1>1, <1>2, <1>3 DEF ReaderOK, Good

\* A whole ring is fetched only when a whole ring was written.
LEMMA ReaderGetFull ==
    ASSUME TypeInv, RingsOK, ReaderOK, GetFull
    PROVE  ReaderOK'
<1>1. /\ pc = "getFull" /\ UNCHANGED <<clear, lost, split, rd, base, written, wrAddr, pv, state, arr, from>>
      /\ snap' = [snap EXCEPT !.full = full[arr]]
      /\ pc' \in {"fill", "abort"}
      /\ pc' = "fill" => ~(snap.end <= from /\ ~full[arr])
  BY DEF GetFull, fw, client, ghost
<1>2. ASSUME NEW b \in Arrays PROVE Good(b)'
  <2>1. CASE b # arr
    BY <1>1, <2>1, GoodElsewhere
  <2>2. CASE b = arr
    <3>1. Good(b)
      BY DEF ReaderOK, Good
    <3>2. Current(b)' => Current(b)
      BY <1>1 DEF Current
    <3>3. Current(b)' => NextOf(b)' = NextOf(b)
      BY <1>1, <2>2 DEF NextOf, InGet, Current
    <3>4. CASE Current(b)'
      BY <1>1, <3>1, <3>2, <3>3, <3>4, GoodKept
    <3> QED BY <3>4 DEF Good
  <2> QED BY <2>1, <2>2
<1>3. ASSUME pc' = "fill", Current(arr)' PROVE Snapped(arr)'
  <2> PICK b \in Arrays : b = arr
    BY <1>1, ContentTypes
  <2>1. Snapped(b)
    BY <1>1, <1>3 DEF ReaderOK, Current
  <2>2. snap'.at = snap.at /\ snap'.end = snap.end
    BY <1>1, Zenon DEF TypeInv, TypeOK, ThreadOK
  <2>3. snap.at = rd[b] => rd[b] - base[b] >= RingUnits
    <3> SUFFICES ASSUME snap.at = rd[b] PROVE rd[b] - base[b] >= RingUnits
      OBVIOUS
    <3>1. snap.end = from /\ written[b] = rd[b]
      BY <2>1 DEF Snapped, Behind
    <3>2. full[b]
      BY <1>1, <1>3, <3>1, ContentTypes
    <3>3. Counts(b)
      BY DEF RingsOK
    <3> QED BY <3>1, <3>2, <3>3, ContentTypes DEF Counts
  <2>4. Snapped(b)'
    BY <1>1, <2>1, <2>2, <2>3 DEF Snapped, Behind
  <2> QED BY <1>1, <2>4
<1> QED BY <1>1, <1>2, <1>3 DEF ReaderOK, Good

\* The reader that goes on where the fetch ended follows as well.
LEMMA FollowsOn ==
    ASSUME OneWay, TypeInv, NEW a \in Arrays, Counts(a), Follows(a), Snapped(a),
           NextOf(a) = from, snap.end <= End[a],
           NEW k \in Nat, NEW z \in Int, NEW q \in Int, Reads(a, k, z, q)
    PROVE  Behind(q, written[a], z, wrAddr[a])
<1> PICK R \in Nat : R = RingUnits /\ R > 0
  BY ContentTypes
<1> PICK s \in Nat : s = Begin[a]
  BY ContentTypes
<1> PICK x \in Int : x = from
  BY ContentTypes
<1> PICK y \in Nat : y = snap.end
  BY ContentTypes
<1> PICK p \in Nat : p = wrAddr[a]
  BY ContentTypes
<1> PICK v \in Nat : v = written[a]
  BY ContentTypes
<1> PICK r \in Int : r = rd[a]
  BY ContentTypes
<1> PICK t \in Nat : t = snap.at
  BY ContentTypes
<1> PICK b \in Nat : b = base[a]
  BY ContentTypes
<1>1. /\ r <= v /\ v - r <= R /\ r <= t /\ t <= v /\ b <= r
      /\ r = v => x = p
      /\ r = t => x = y
  BY DEF Follows, Snapped, Behind
<1>2. p - x = v - r \/ p - x = v - r - R
  BY DEF Follows, Behind
<1>3. /\ k \in Nat /\ z \in Int /\ q \in Int /\ q = t - (y - z) /\ s <= z /\ z <= y /\ q <= t
      /\ \/ t = r /\ y = x /\ z = x /\ q = r /\ k = R
         \/ t # r /\ y <= x /\ y - x = t - r - R /\ z = x - R + k /\ q = r + k
         \/ t # r /\ x < y /\ y - x = t - r /\ z = x + k /\ q = r + k
  BY DEF Reads
<1>4. End[a] = s + R /\ s <= p /\ p <= s + R /\ y <= s + R
  BY ContentTypes DEF Counts
<1>5. q <= v /\ v - q <= R
  BY <1>1, <1>3
<1>6. q = v => (t = v /\ z = y)
  <2>1. q = t - (y - z) /\ z <= y /\ t <= v
    BY <1>1, <1>3
  <2>2. q = v => t = v
    BY <2>1
  <2>3. q = v => z = y
    BY <2>1
  <2> QED BY <2>2, <2>3
<1>7. (y = s + R /\ p = s) => t # v
  <2> SUFFICES ASSUME y = s + R, p = s, t = v PROVE FALSE
    OBVIOUS
  <2>1. AtEnd = {"end"}
    BY <1>4 DEF OneWay, Snapped
  <2>2. v = b
    BY <2>1 DEF Counts
  <2>3. r = v /\ r = t
    BY <1>1, <2>2
  <2> QED BY <1>1, <2>3
<1>8. ~(y = s /\ p = s + R /\ t = v)
  <2> SUFFICES ASSUME y = s, p = s + R, t = v PROVE FALSE
    OBVIOUS
  <2>1. AtEnd = {"end"}
    BY <1>4 DEF OneWay, Counts
  <2>2. t = b
    BY <2>1 DEF Snapped
  <2>3. /\ full[a] => v - b >= R + (p - s)
        /\ ~full[a] => v - b = p - s
    BY DEF Counts
  <2> QED BY <2>2, <2>3
<1>9. CASE t = r
  <2>1. z = x /\ q = r
    BY <1>3, <1>9
  <2> QED BY <1>1, <1>2, <1>5, <2>1 DEF Behind
<1>10. CASE t # r /\ x < y
  <2>1. z = x + k /\ q = r + k
    BY <1>3, <1>10
  <2>2. p - z = v - q \/ p - z = v - q - R
    BY <1>2, <2>1
  <2>3. q = v => z = p
    <3> SUFFICES ASSUME q = v, z # p PROVE FALSE
      OBVIOUS
    <3>1. t = v /\ z = y /\ p - z = 0 - R
      BY <1>6, <2>2
    <3>2. y = s + R /\ p = s
      BY <1>4, <3>1
    <3> QED BY <1>7, <3>1, <3>2
  <2> QED BY <1>5, <2>2, <2>3 DEF Behind
<1>11. CASE t # r /\ y <= x
  <2>1. z = x - R + k /\ q = r + k
    BY <1>3, <1>11
  <2>2. CASE p - x = v - r - R
    <3>1. p - z = v - q
      BY <2>1, <2>2
    <3>2. q = v => z = p
      BY <3>1
    <3> QED BY <1>5, <3>1, <3>2 DEF Behind
  <2>3. CASE p - x = v - r
    <3>1. p - z = (v - q) + R
      BY <2>1, <2>3
    <3>2. v = q /\ p = s + R /\ z = s
      <4>1. q <= v /\ s <= z /\ p <= s + R
        BY <1>3, <1>4, <1>5
      <4> QED BY <3>1, <4>1, WholeRingBehind
    <3> QED BY <1>6, <1>8, <3>2
  <2> QED BY <1>2, <2>2, <2>3
<1> QED BY <1>3, <1>9, <1>10, <1>11

\* A waveform shows the last entries there are.
Showing(s, a, b, n) == \E c \in Nat : Kept(n, c) /\ LastOf(s, a, b, n, c)

\* Appending the last m entries to a waveform that shows those before them, or
\* as many as it keeps, leaves it showing the last.
LEMMA NewestShown ==
    ASSUME NEW a \in Nat, NEW b \in Nat, NEW n \in Nat, NEW m \in Nat, NEW l \in Nat,
           Reaches(m, n, l), NEW s, Showing(s, a, b, n), NEW t, LastOf(t, a, b, l, m),
           NEW u, Showing(u, a, b, l), NEW w, Joined(s, t, w)
    PROVE  Newest(w) = u
<1>1. PICK c \in Nat : Kept(n, c) /\ LastOf(s, a, b, n, c)
  BY DEF Showing
<1>2. PICK e \in Nat : Kept(l, e) /\ LastOf(u, a, b, l, e)
  BY DEF Showing
<1> QED BY <1>1, <1>2, NewestNumbered

\* A window shows the last entries.
LEMMA WindowShows ==
    ASSUME TypeInv, NEW a \in Arrays, NEW n \in Nat
    PROVE  Showing(Window(a, n), a, base[a], n)
<1>1. a \in Nat /\ base[a] \in Nat /\ PvDepth \in Nat \ {0}
  BY ContentTypes, SizeAssumption
<1> PICK c \in Nat : c = IF n < PvDepth THEN n ELSE PvDepth
  BY <1>1
<1> PICK g \in Nat : g = a
  BY <1>1
<1> PICK b \in Nat : b = base[a]
  BY <1>1
<1>2. n - c \in Nat /\ n - 1 \in Int /\ (n - 1) - (n - c) + 1 = c
  BY <1>1
<1>3. Numbered(Span(g, b, n - c, n - 1), g, b, n - c, c)
  BY <1>2, SpanIs
<1>4. Window(a, n) = Span(g, b, n - c, n - 1)
  BY DEF Window
<1> QED BY <1>3, <1>4 DEF Showing, LastOf, Kept

\* A span that ends with an entry holds the last ones before it.
LEMMA SpanLast ==
    ASSUME NEW a \in Nat, NEW b \in Nat, NEW l \in Nat, NEW m \in Nat, m <= l
    PROVE  LastOf(Span(a, b, l - m, l - 1), a, b, l, m)
<1>1. l - m \in Nat /\ l - 1 \in Int /\ (l - 1) - (l - m) + 1 = m
  OBVIOUS
<1>2. Numbered(Span(a, b, l - m, l - 1), a, b, l - m, m)
  BY <1>1, SpanIs
<1> QED BY <1>2 DEF LastOf

\* What a fetch takes is appended to what was shown: the newest entries.
LEMMA ShownNext ==
    ASSUME TypeInv, PvDepth <= RingEntries, NEW a \in Arrays, Shows(a),
           NEW m, NEW n, NEW l, Takes(a, m, n, l), NEW r, LastOf(r, a, base[a], l, m)
    PROVE  Newest(pv[a] \o r) = Window(a, l)
<1>1. /\ EntryUnits \in Nat \ {0} /\ a \in Nat /\ base[a] \in Nat
      /\ PvDepth \in Nat \ {0} /\ RingEntries \in Nat
  BY ContentTypes, SizeAssumption
<1>2. m \in Nat /\ n \in Nat /\ l \in Nat
  BY DEF Takes
<1>3. Showing(pv[a], a, base[a], n)
  <2>1. PICK k \in Nat : rd[a] - base[a] = k * EntryUnits /\ pv[a] = Window(a, k)
    BY DEF Shows
  <2>2. k = n
    BY <1>1, <2>1, TimesOrder DEF Takes
  <2>3. Showing(Window(a, n), a, base[a], n)
    BY <1>2, WindowShows
  <2> QED BY <2>1, <2>2, <2>3
<1>4. Showing(Window(a, l), a, base[a], l)
  BY <1>2, WindowShows
<1>5. Reaches(m, n, l)
  BY <1>1 DEF Reaches, Takes
<1>6. Joined(pv[a], r, pv[a] \o r)
  BY DEF Joined
<1> QED BY <1>1, <1>2, <1>3, <1>4, <1>5, <1>6, NewestShown

\* A fetch delivers what was written up to the place get() found, unless it finds
\* only a part of an entry.
LEMMA ReaderFill ==
    ASSUME OneWay, PvDepth <= RingEntries, TypeInv, Bounded, RingsOK, ReaderOK, Fill
    PROVE  ReaderOK'
<1> PICK f : f = Fetch(arr, from, snap.end)
  OBVIOUS
<1> DEFINE part == f.n = 0 /\ snap.end > from
           r == IF part THEN record ELSE EntriesAt(arr, from, f.n)
<1>1. /\ pc = "fill" /\ Back("scan") /\ UNCHANGED <<clear, lost, base, written, wrAddr>>
      /\ arr \in Arrays
  BY ContentTypes DEF Fill, fw
<1>2. /\ Deliver(r, f.next) /\ rd' = [rd EXCEPT ![arr] = snap.at - (snap.end - f.next)]
      /\ split' = [split EXCEPT ![arr] = @ \/ part]
  BY Zenon DEF Fill
<1>3. pc' = "scan" /\ arr' = NoArray
  BY <1>1 DEF Back
<1>4. pv' = [pv EXCEPT ![arr] = Newest(pv[arr] \o r)]
  BY <1>2 DEF Deliver
<1> HIDE DEF r
<1>5. /\ \A b \in Arrays : b # arr => pv'[b] = pv[b] /\ rd'[b] = rd[b]
      /\ pv'[arr] = Newest(pv[arr] \o r) /\ rd'[arr] = snap.at - (snap.end - f.next)
  BY <1>1, <1>2, <1>4 DEF TypeInv, TypeOK, DataOK, CountersOK
<1>6. /\ \A b \in Arrays : b # arr => state'[b].next = state[b].next
      /\ state'[arr].next = f.next
  BY <1>1, <1>2, DeliverStamps
<1>7. /\ \A b \in Arrays : b # arr => split'[b] = split[b]
      /\ split'[arr] <=> (split[arr] \/ part)
  <2> HIDE DEF part
  <2> QED BY <1>1, <1>2, Zenon DEF TypeInv, TypeOK, CountersOK
<1>8. ASSUME NEW b \in Arrays, b # arr PROVE Good(b)'
  <2>1. b # arr'
    BY <1>3, ContentTypes
  <2> QED BY <1>1, <1>5, <1>6, <1>7, <1>8, <2>1, GoodElsewhere
<1>9. ASSUME Current(arr), ~part, NEW a \in Arrays, a = arr PROVE Follows(a)' /\ Shows(a)'
  <2>1. /\ Follows(a) /\ Shows(a) /\ Snapped(a) /\ Counts(a) /\ NextOf(a) = from
    BY <1>1, <1>9 DEF ReaderOK, RingsOK, NextOf, InGet
  <2>2. f.n # 0 \/ snap.end <= from
    BY <1>9, ContentTypes
  <2>3. /\ f.n \in Nat /\ Aligned(a, f.next) /\ f.next \in Begin[a] .. End[a]
        /\ Reads(a, f.n * EntryUnits, f.next, snap.at - (snap.end - f.next))
    BY <1>1, <1>9, <2>2, FetchReads
  <2>4. \E n, l \in Nat :
           /\ Takes(a, f.n, n, l)
           /\ snap.at - (snap.end - f.next) - base[a] = l * EntryUnits
           /\ EntriesAt(a, from, f.n) = Span(a, base[a], l - f.n, l - 1)
    BY <1>1, <1>9, <2>2, FetchTakes
  <2> PICK n \in Nat, l \in Nat :
           /\ Takes(a, f.n, n, l)
           /\ snap.at - (snap.end - f.next) - base[a] = l * EntryUnits
           /\ EntriesAt(a, from, f.n) = Span(a, base[a], l - f.n, l - 1)
    BY <2>4
  <2> PICK m \in Nat : m = f.n
    BY <2>3
  <2> PICK z \in Int : z = f.next
    BY <2>3
  <2> PICK q \in Int : q = snap.at - (snap.end - z)
    BY ContentTypes
  <2>5. r = EntriesAt(a, from, m)
    BY <1>9 DEF r
  <2>6. rd'[a] = q /\ NextOf(a)' = z
    <3>1. NextOf(a)' = state'[a].next
      BY <1>3 DEF NextOf, InGet
    <3> QED BY <1>5, <1>6, <1>9, <3>1
  <2>7. PICK k \in Nat : Reads(a, k, z, q)
    BY <2>3 DEF Reads
  <2>8. Behind(q, written[a], z, wrAddr[a])
    <3>1. snap.end <= End[a]
      BY <1>1, <1>9, ContentTypes DEF Bounded
    <3> QED BY <2>1, <2>7, <3>1, FollowsOn
  <2>9. l * EntryUnits \in Nat /\ q - base[a] = l * EntryUnits
    BY EntryAssumption
  <2>10. base[a] <= q /\ Entire(q - base[a])
    BY <2>9, ContentTypes DEF Entire
  <2>11. Begin[a] <= z /\ z <= End[a] /\ Aligned(a, z) /\ z <= snap.end /\ snap.end <= End[a]
    BY <1>1, <1>9, <2>3, <2>7, ContentTypes DEF Reads, Bounded
  <2>12. AtEnd = {"begin"} => z # End[a]
    <3> PICK y \in Nat : y = snap.end
      BY ContentTypes
    <3> PICK e \in Nat : e = End[a]
      BY LayoutTyped
    <3>1. z <= y /\ y <= e /\ (AtEnd = {"begin"} => y # e)
      BY <2>1, <2>11 DEF Snapped
    <3> QED BY <3>1
  <2>13. Follows(a)'
    BY <1>1, <2>6, <2>8, <2>10, <2>11, <2>12 DEF Follows, Behind
  <2>14. pv'[a] = Window(a, l)
    <3>1. m <= l /\ a \in Nat /\ base[a] \in Nat
      BY ContentTypes DEF Takes
    <3>2. LastOf(Span(a, base[a], l - m, l - 1), a, base[a], l, m)
      BY <3>1, SpanLast
    <3>3. LastOf(r, a, base[a], l, m) /\ Takes(a, m, n, l)
      BY <2>5, <3>2
    <3>4. Newest(pv[a] \o r) = Window(a, l)
      BY <2>1, <3>3, ShownNext
    <3> QED BY <1>5, <1>9, <3>4
  <2>15. Shows(a)'
    <3>1. Window(a, l)' = Window(a, l)
      BY <1>1 DEF Window
    <3>2. rd'[a] - base'[a] = l * EntryUnits
      BY <1>1, <2>6, <2>9
    <3> QED BY <2>14, <3>1, <3>2 DEF Shows
  <2> QED BY <2>13, <2>15
<1>10. ASSUME NEW b \in Arrays, b = arr PROVE Good(b)'
  <2>1. Current(b)' => Current(arr) /\ ~part
    BY <1>1, <1>7, <1>10 DEF Current
  <2> QED BY <1>9, <1>10, <2>1 DEF Good
<1> QED BY <1>3, <1>8, <1>10 DEF ReaderOK, Good

\* An aborted array shows nothing, and is then read from its beginning.
LEMMA ReaderAbort ==
    ASSUME TypeInv, RingsOK', ReaderOK, AbortPv \/ AbortReset
    PROVE  ReaderOK'
<1>1. CASE AbortPv
  <2>1. /\ pc = "abort" /\ pc' = "reset" /\ arr' = arr /\ arr \in Arrays
        /\ pv' = [pv EXCEPT ![arr] = <<>>]
        /\ UNCHANGED <<clear, lost, split, rd, base, written, wrAddr, state>>
    BY <1>1, ContentTypes DEF AbortPv, PvReset, fw, ghost, local
  <2>2. ASSUME NEW b \in Arrays PROVE Good(b)'
    <3>1. CASE b # arr
      <4>1. pv'[b] = pv[b]
        BY <2>1, <3>1 DEF TypeInv, TypeOK, DataOK
      <4> QED BY <2>1, <3>1, <4>1, GoodElsewhere
    <3>2. CASE b = arr
      BY <2>1, <3>2 DEF Good, Current
    <3> QED BY <3>1, <3>2
  <2>3. pv'[arr] = <<>>
    BY <2>1 DEF TypeInv, TypeOK, DataOK
  <2> QED BY <2>1, <2>2, <2>3 DEF ReaderOK, Good
<1>2. CASE AbortReset
  <2>1. /\ pc = "reset" /\ Back("scan") /\ arr \in Arrays
        /\ wrAddr' = [wrAddr EXCEPT ![arr] = Begin[arr]]
        /\ base' = [base EXCEPT ![arr] = written[arr]]
        /\ state' = [state EXCEPT ![arr].next = Begin[arr]]
        /\ rd' = [rd EXCEPT ![arr] = written[arr]]
        /\ UNCHANGED <<clear, written, pv>>
    BY <1>2, ContentTypes DEF AbortReset, Rewound, client
  <2>2. lost' = [lost EXCEPT ![arr] = FALSE] /\ split' = [split EXCEPT ![arr] = FALSE]
    BY <1>2 DEF AbortReset
  <2>3. pc' = "scan" /\ arr' = NoArray
    BY <2>1 DEF Back
  <2>4. ASSUME NEW b \in Arrays, b # arr PROVE Good(b)'
    <3>1. /\ wrAddr'[b] = wrAddr[b] /\ base'[b] = base[b] /\ rd'[b] = rd[b]
          /\ state'[b].next = state[b].next
      BY <2>1, <2>4 DEF TypeInv, TypeOK, RegistersOK, CountersOK, DataOK
    <3>2. lost'[b] = lost[b] /\ split'[b] = split[b]
      BY <2>2, <2>4, Zenon DEF TypeInv, TypeOK, CountersOK
    <3>3. b # arr' /\ pc # "crashed"
      BY <2>1, <2>3, ContentTypes
    <3> QED BY <2>1, <2>4, <3>1, <3>2, <3>3, GoodElsewhere
  <2>5. ASSUME NEW b \in Arrays, b = arr PROVE Good(b)'
    <3>1. /\ rd'[b] = written[b] /\ base'[b] = written[b] /\ written'[b] = written[b]
          /\ wrAddr'[b] = Begin[b] /\ state'[b].next = Begin[b]
      BY <2>1, <2>5 DEF TypeInv, TypeOK, RegistersOK, CountersOK, DataOK
    <3>2. pv'[b] = <<>> /\ Counts(b)'
      BY <2>1, <2>5 DEF ReaderOK, RingsOK
    <3>3. NextOf(b)' = Begin[b]
      BY <2>3, <3>1 DEF NextOf, InGet
    <3>4. written[b] \in Nat /\ written[b] - written[b] = 0 /\ 0 <= RingUnits /\ Begin[b] \in Nat
      BY ContentTypes
    <3> QED BY <3>1, <3>2, <3>3, <3>4, GoodRewound
  <2> QED BY <2>3, <2>4, <2>5 DEF ReaderOK, Good
<1> QED BY <1>1, <1>2

\* An access that throws leads to abort(), or ends the client.
LEMMA ReaderIoError ==
    ASSUME TypeInv, ReaderOK, IoError
    PROVE  ReaderOK'
<1>1. UNCHANGED <<lost, split, rd, base, written, wrAddr, pv, state>>
  BY DEF IoError, client, ghost
<1>2. CASE /\ pc \in {"ackClear", "getWr", "getFull", "fill"} /\ pc' = "abort"
           /\ clear' \in IF pc = "ackClear" THEN {clear, [clear EXCEPT ![arr] = FALSE]} ELSE {clear}
           /\ UNCHANGED local
  <2>1. arr \in Arrays /\ arr' = arr
    BY <1>2, ContentTypes DEF local
  <2>2. clear' = clear \/ clear' = [clear EXCEPT ![arr] = FALSE]
    BY <1>2
  <2>3. ASSUME NEW b \in Arrays PROVE Good(b)'
    <3>1. CASE b # arr
      <4>1. clear'[b] = clear[b]
        BY <2>1, <2>2, <3>1 DEF TypeInv, TypeOK, RegistersOK
      <4> QED BY <1>1, <1>2, <2>1, <3>1, <4>1, GoodElsewhere
    <3>2. CASE b = arr
      BY <1>2, <2>1, <3>2 DEF Good, Current
    <3> QED BY <3>1, <3>2
  <2> QED BY <1>2, <2>3 DEF ReaderOK, Good
<1>3. CASE pc' = "crashed"
  BY <1>3 DEF ReaderOK, Current
<1> QED BY <1>2, <1>3, Zenon DEF IoError, Back

\* A restarted client has rewound every array and shows nothing.
LEMMA ReaderRestart ==
    ASSUME TypeInv, RingsOK', Restart
    PROVE  ReaderOK'
<1>1. /\ wrAddr' = Begin /\ base' = written /\ written' = written /\ rd' = written
      /\ state' = [a \in Arrays |-> [ts |-> 0, wr |-> 0, next |-> Begin[a], nacq |-> 0]]
      /\ pv' = [a \in Arrays |-> <<>>]
      /\ pc' = "idle"
  BY DEF Restart, Back
<1>2. ASSUME NEW b \in Arrays PROVE Good(b)'
  <2>1. state'[b].next = Begin[b] /\ pv'[b] = <<>> /\ Counts(b)'
    BY <1>1 DEF RingsOK
  <2>2. NextOf(b)' = Begin[b]
    BY <1>1, <2>1 DEF NextOf, InGet
  <2>3. written[b] \in Nat /\ written[b] - written[b] = 0 /\ 0 <= RingUnits /\ Begin[b] \in Nat
    BY ContentTypes
  <2> QED BY <1>1, <2>1, <2>2, <2>3, GoodRewound
<1> QED BY <1>1, <1>2 DEF ReaderOK, Good

\* Every step keeps the reader where it should be.
LEMMA ReaderNext ==
    ASSUME OneWay, ~WildWrAddr, PvDepth <= RingEntries, TypeInv, Bounded,
           RecordAssigned, RecordAssigned', RingsOK, RingsOK', ReaderOK, [Next]_vars
    PROVE  ReaderOK'
<1>1. CASE Firmware
  BY <1>1, ReaderFirmware
<1>2. CASE Thread
  <2>1. ~Unassigned
    BY DEF Unassigned, RecordAssigned
  <2> QED BY <1>2, <2>1, ReaderScan, ReaderAckClear, ReaderGetWr, ReaderGetFull, ReaderFill,
             ReaderAbort, ReaderRestart DEF Thread
<1>3. CASE IoError
  BY <1>3, ReaderIoError
<1>4. CASE UNCHANGED vars
  <2>1. \A a \in Arrays : Follows(a)' = Follows(a) /\ Shows(a)' = Shows(a) /\ Current(a)' = Current(a)
    BY <1>4 DEF vars, fw, client, local, ghost, Follows, Shows, Current, Behind, NextOf, InGet, Window
  <2>2. Snapped(arr)' = Snapped(arr) /\ Current(arr)' = Current(arr)
    BY <1>4 DEF vars, fw, client, local, ghost, Snapped, Current, Behind
  <2>3. pc' = pc /\ arr' = arr /\ pv' = pv
    BY <1>4 DEF vars, local, client
  <2> QED BY <2>1, <2>2, <2>3 DEF ReaderOK
<1> QED BY <1>1, <1>2, <1>3, <1>4 DEF Next

-----------------------------------------------------------------------------
(* What is not reported was delivered *)

\* A stamp that is still the hardware's came with all whole entries that were written.
Level ==
    /\ \A a \in Arrays :
          /\ state[a].ts <= pvTs[a] /\ pvTs[a] <= tstamp[a]
          /\ pc # "crashed" /\ ~InGet(a) /\ ~(arr = a /\ pc \in {"abort", "reset"}) =>
                (state[a].ts = tstamp[a] => rd[a] + EntryUnits > written[a])
    /\ arr \in Arrays => state[arr].ts <= cur.ts
    /\ pc \in {"getWr", "getFull", "fill"} => pvTs[arr] = cur.ts
    /\ pc \in {"getFull", "fill"} /\ cur.ts = tstamp[arr] => snap.at = written[arr]

\* The stamps and places the invariant relates.
LEMMA LevelTypes ==
    ASSUME TypeInv
    PROVE  /\ \A a \in Arrays :
                 /\ tstamp[a] \in Nat /\ state[a].ts \in Nat /\ pvTs[a] \in Nat
                 /\ rd[a] \in Int /\ written[a] \in Nat
           /\ EntryUnits \in Nat \ {0}
           /\ cur.ts \in Nat /\ snap.at \in Nat /\ NoArray \notin Arrays
           /\ pc \notin {"idle", "pending", "scan", "crashed"} => arr \in Arrays
           /\ pc \in {"idle", "pending", "scan", "crashed"} => arr \notin Arrays
BY LayoutTyped, EntryAssumption
   DEF TypeInv, TypeOK, RegistersOK, CountersOK, DataOK, ThreadOK

\* Nothing was written and nothing stamped at the start.
LEMMA LevelInit == Init => Level
BY LayoutTyped, EntryAssumption DEF Init, Level

\* Every write comes with a new stamp.
LEMMA LevelFirmware ==
    ASSUME IncrementalTs, TypeInv, Stamped, Level, Firmware
    PROVE  Level'
<1> PICK a \in Arrays : FwStart(a) \/ FwBurst(a) \/ FwWild(a)
  BY DEF Firmware
<1>1. /\ UNCHANGED <<state, pvTs, pc, arr, cur, snap, rd>>
      /\ tstamp' = [tstamp EXCEPT ![a] = @ + 1]
  BY DEF FwStart, FwBurst, FwWild, Touch, client, local, ghost
<1>2. written' = written \/ written' = [written EXCEPT ![a] = @ + BurstUnits]
  BY DEF FwStart, FwBurst, FwWild
<1>3. ASSUME NEW b \in Arrays
      PROVE  IF b = a THEN tstamp'[b] = tstamp[b] + 1
             ELSE tstamp'[b] = tstamp[b] /\ written'[b] = written[b]
  BY <1>1, <1>2 DEF TypeInv, TypeOK, RegistersOK, CountersOK
<1>4. ASSUME NEW b \in Arrays
      PROVE  /\ tstamp[b] <= tstamp'[b] /\ tstamp'[b] \in Nat
             /\ tstamp'[b] # tstamp[b] \/ written'[b] = written[b]
  BY <1>3, LevelTypes
<1>5. arr \in Arrays => cur.ts <= tstamp[arr]
  BY DEF Stamped
<1>6. ASSUME NEW b \in Arrays
      PROVE  /\ state[b].ts <= pvTs[b] /\ pvTs[b] <= tstamp'[b]
             /\ pc # "crashed" /\ ~InGet(b) /\ ~(arr = b /\ pc \in {"abort", "reset"}) =>
                   (state[b].ts = tstamp'[b] => rd[b] + EntryUnits > written'[b])
  <2>1. state[b].ts <= pvTs[b] /\ pvTs[b] <= tstamp[b]
    BY DEF Level
  <2>2. state[b].ts = tstamp'[b] => tstamp'[b] = tstamp[b] /\ state[b].ts = tstamp[b]
    BY <1>4, <2>1, LevelTypes
  <2> QED BY <1>4, <2>1, <2>2, LevelTypes DEF Level
<1>7. pc \in {"getFull", "fill"} /\ cur.ts = tstamp'[arr] => snap.at = written'[arr]
  <2> SUFFICES ASSUME pc \in {"getFull", "fill"}, cur.ts = tstamp'[arr]
               PROVE  snap.at = written'[arr]
    OBVIOUS
  <2>1. arr \in Arrays
    BY LevelTypes
  <2>2. cur.ts = tstamp[arr] /\ written'[arr] = written[arr]
    BY <1>4, <1>5, <2>1, LevelTypes
  <2> QED BY <2>2 DEF Level
<1> QED BY <1>1, <1>6, <1>7 DEF Level, InGet

\* The steps that touch neither stamps nor places.
LEMMA LevelRead ==
    ASSUME TypeInv, Stamped, Level,
           \/ PendingTs \/ PendingWr \/ Sleep \/ ReadTs \/ ReadWr \/ ReadClear
           \/ AckClear \/ GetWr \/ GetFull
    PROVE  Level'
<1>1. UNCHANGED <<tstamp, written, state>>
  BY DEF PendingTs, PendingWr, Sleep, ReadTs, ReadWr, ReadClear, AckClear, GetWr, GetFull, fw
<1>2. CASE PendingTs \/ PendingWr \/ Sleep
  <2>1. UNCHANGED <<pvTs, rd, arr>> /\ pc \in {"idle", "pending", "scan"}
        /\ pc' \in {"idle", "pending", "scan"}
    BY <1>2 DEF PendingTs, PendingWr, Sleep, client, ghost, local
  <2> QED BY <1>1, <2>1, LevelTypes DEF Level, InGet
<1>3. CASE ReadTs
  <2>1. PICK a \in todo : arr' = a /\ cur' = [NoCur EXCEPT !.ts = tstamp[a]]
    BY <1>3 DEF ReadTs
  <2>2. UNCHANGED <<pvTs, rd>> /\ pc = "scan" /\ pc' = "readWr" /\ cur'.ts = tstamp[a]
        /\ a \in Arrays
    BY <1>3, <2>1 DEF ReadTs, client, ghost, NoCur, TypeInv, TypeOK, ThreadOK
  <2> QED BY <1>1, <2>1, <2>2, LevelTypes DEF Level, InGet, Stamped
<1>4. CASE ReadWr
  <2>1. UNCHANGED <<pvTs, rd, arr>> /\ pc = "readWr" /\ pc' = "readClear" /\ cur'.ts = cur.ts
    BY <1>4 DEF ReadWr, client, ghost, TypeInv, TypeOK, ThreadOK
  <2> QED BY <1>1, <2>1 DEF Level, InGet
<1>5. CASE ReadClear
  <2>1. UNCHANGED <<rd, arr>> /\ pc = "readClear" /\ arr \in Arrays /\ cur'.ts = cur.ts
    BY <1>5, LevelTypes DEF ReadClear, ghost, TypeInv, TypeOK, ThreadOK
  <2>2. \/ pc' \in {"unassigned", "ackClear"} /\ pvTs' = pvTs
        \/ pc' = "getWr" /\ pvTs' = [pvTs EXCEPT ![arr] = cur.ts]
    BY <1>5 DEF ReadClear, client
  <2>3. CASE pc' \in {"unassigned", "ackClear"} /\ pvTs' = pvTs
    BY <1>1, <2>1, <2>3 DEF Level, InGet
  <2>4. CASE pc' = "getWr" /\ pvTs' = [pvTs EXCEPT ![arr] = cur.ts]
    <3>1. \A b \in Arrays : pvTs'[b] = IF b = arr THEN cur.ts ELSE pvTs[b]
      BY <2>4 DEF TypeInv, TypeOK, DataOK
    <3> QED BY <1>1, <2>1, <2>4, <3>1 DEF Level, InGet, Stamped
  <2> QED BY <2>2, <2>3, <2>4
<1>6. CASE AckClear
  <2>1. /\ pc = "ackClear" /\ pc' = "getWr" /\ arr' = arr /\ arr \in Arrays
        /\ cur' = [cur EXCEPT !.nacq = 0] /\ pvTs' = [pvTs EXCEPT ![arr] = cur.ts]
        /\ rd' = [rd EXCEPT ![arr] = base[arr]]
    BY <1>6, LevelTypes DEF AckClear, PvReset
  <2>2. cur'.ts = cur.ts
    BY <2>1 DEF TypeInv, TypeOK, ThreadOK
  <2>3. \A b \in Arrays : /\ pvTs'[b] = IF b = arr THEN cur.ts ELSE pvTs[b]
                          /\ b # arr => rd'[b] = rd[b]
    BY <2>1 DEF TypeInv, TypeOK, DataOK, CountersOK
  <2> QED BY <1>1, <2>1, <2>2, <2>3 DEF Level, InGet, Stamped
<1>7. CASE GetWr
  <2>1. /\ UNCHANGED <<pvTs, rd, arr, cur>> /\ pc = "getWr"
        /\ \/ snap'.at = written[arr] /\ pc' = "getFull"
           \/ pc' = "abort"
    BY <1>7 DEF GetWr, client, ghost
  <2> QED BY <1>1, <2>1 DEF Level, InGet
<1>8. CASE GetFull
  <2>1. /\ UNCHANGED <<pvTs, rd, arr, cur>> /\ pc = "getFull" /\ pc' \in {"fill", "abort"}
        /\ snap' = [snap EXCEPT !.full = full[arr]]
    BY <1>8 DEF GetFull, client, ghost
  <2>2. snap'.at = snap.at
    BY <2>1 DEF TypeInv, TypeOK, ThreadOK
  <2> QED BY <1>1, <2>1, <2>2 DEF Level, InGet
<1> QED BY <1>2, <1>3, <1>4, <1>5, <1>6, <1>7, <1>8

\* What is stored with a stamp that is still the hardware's was all there is.
LEMMA LevelFill ==
    ASSUME TypeInv, Bounded, Stamped, Level, Fill
    PROVE  Level'
<1> DEFINE f == Fetch(arr, from, snap.end)
           r == IF f.n = 0 /\ snap.end > from THEN record ELSE EntriesAt(arr, from, f.n)
<1>1. pc = "fill" /\ Back("scan") /\ UNCHANGED <<tstamp, written>> /\ arr \in Arrays
  BY LevelTypes DEF Fill, fw
<1>2. Deliver(r, f.next) /\ rd' = [rd EXCEPT ![arr] = snap.at - (snap.end - f.next)]
  BY Zenon DEF Fill
<1> HIDE DEF r
<1>3. snap.end - f.next >= 0 /\ snap.end - f.next < EntryUnits /\ f.next \in Int
  <2>1. from \in Begin[arr] .. End[arr] /\ snap.end \in Begin[arr] .. End[arr]
    BY <1>1 DEF Bounded
  <2>2. FetchSizes(f, arr, from, snap.end)
    BY <1>1, <2>1, FetchIs
  <2> HIDE DEF f
  <2> QED BY <2>2 DEF FetchSizes
<1> HIDE DEF f
<1> PICK g \in Int : g = snap.at - (snap.end - f.next)
  BY <1>3, ContentTypes
<1>4. \A b \in Arrays : rd'[b] = IF b = arr THEN g ELSE rd[b]
  BY <1>2 DEF TypeInv, TypeOK, CountersOK
<1>7. g + EntryUnits > snap.at
  BY <1>3, ContentTypes
<1>5. \A b \in Arrays : state'[b].ts = IF b = arr THEN cur.ts ELSE state[b].ts
  BY <1>1, <1>2, DeliverStamps
<1>6. pvTs' = pvTs /\ pc' = "scan" /\ arr' = NoArray
  BY <1>1, <1>2 DEF Deliver, Back
<1> QED BY <1>1, <1>4, <1>5, <1>6, <1>7, LevelTypes DEF Level, InGet, Stamped

\* A record of an earlier fetch is stored with the stamp that was there.
LEMMA LevelUnassigned ==
    ASSUME TypeInv, Stamped, Level, Unassigned
    PROVE  Level'
<1>1. pc = "unassigned" /\ arr \in Arrays /\ UNCHANGED <<tstamp, written, rd>>
  BY LevelTypes DEF Unassigned, fw, ghost
<1>2. arr' = NoArray /\ pc' \in {"scan", "crashed"} /\ pvTs' = pvTs
  BY DEF Unassigned, Back, Deliver, client
<1>3. \A b \in Arrays : state'[b].ts = state[b].ts
  <2>1. CASE state' = state
    BY <2>1
  <2>2. CASE Deliver(record, 0)
    BY <1>1, <2>2, DeliverStamps DEF Stamped
  <2> QED BY <2>1, <2>2 DEF Unassigned
<1> QED BY <1>1, <1>2, <1>3, LevelTypes DEF Level, InGet

\* An aborted array is level again, whatever it had delivered.
LEMMA LevelAbort ==
    ASSUME TypeInv, Stamped, Level, AbortPv \/ AbortReset \/ Restart \/ IoError
    PROVE  Level'
<1>1. UNCHANGED <<tstamp, written>>
  BY DEF AbortPv, AbortReset, Restart, IoError, fw
<1>2. CASE AbortPv
  <2>1. /\ pc = "abort" /\ pc' = "reset" /\ UNCHANGED <<arr, cur, state, rd>> /\ arr \in Arrays
        /\ pvTs' = [pvTs EXCEPT ![arr] = tstamp[arr]]
    BY <1>2, LevelTypes DEF AbortPv, PvReset, local, ghost
  <2>2. \A b \in Arrays : pvTs'[b] = IF b = arr THEN tstamp[b] ELSE pvTs[b]
    BY <2>1 DEF TypeInv, TypeOK, DataOK
  <2> QED BY <1>1, <2>1, <2>2, LevelTypes DEF Level, InGet, Stamped
<1>3. CASE AbortReset
  <2>1. /\ pc = "reset" /\ pc' = "scan" /\ arr' = NoArray /\ arr \in Arrays /\ pvTs' = pvTs
        /\ state' = [state EXCEPT ![arr].next = Begin[arr]]
        /\ rd' = [rd EXCEPT ![arr] = written[arr]]
    BY <1>3, LevelTypes DEF AbortReset, Back, client
  <2>2. \A b \in Arrays : /\ state'[b].ts = state[b].ts
                          /\ rd'[b] = IF b = arr THEN written[b] ELSE rd[b]
    BY <2>1 DEF TypeInv, TypeOK, DataOK, CountersOK
  <2> QED BY <1>1, <2>1, <2>2, LevelTypes DEF Level, InGet
<1>4. CASE Restart
  <2>1. /\ pc' = "idle" /\ arr' = NoArray /\ rd' = written
        /\ state' = [a \in Arrays |-> [ts |-> 0, wr |-> 0, next |-> Begin[a], nacq |-> 0]]
        /\ pvTs' = [a \in Arrays |-> 0]
    BY <1>4 DEF Restart, Back
  <2>2. \A b \in Arrays : state'[b].ts = 0 /\ pvTs'[b] = 0 /\ rd'[b] = written'[b]
    BY <1>1, <2>1
  <2> QED BY <1>1, <2>1, <2>2, LevelTypes DEF Level, InGet
<1>5. CASE IoError
  <2>1. UNCHANGED <<state, pvTs, rd>>
    BY <1>5 DEF IoError, client, ghost
  <2>2. \/ /\ pc' = "abort" /\ arr' = arr /\ cur' = cur
           /\ pc \in {"ackClear", "getWr", "getFull", "fill"}
        \/ pc' = "crashed" /\ arr' = NoArray
    BY <1>5 DEF IoError, local, Back
  <2> QED BY <1>1, <2>1, <2>2, LevelTypes DEF Level, InGet
<1> QED BY <1>2, <1>3, <1>4, <1>5

\* Every step keeps what was delivered level with the stamps.
LEMMA LevelNext ==
    ASSUME IncrementalTs, TypeInv, Bounded, Stamped, Level, [Next]_vars
    PROVE  Level'
<1>1. ASSUME UNCHANGED vars PROVE Level'
  BY <1>1 DEF vars, fw, client, local, ghost, Level, InGet
<1> QED BY <1>1, LevelFirmware, LevelRead, LevelFill, LevelUnassigned, LevelAbort DEF Next, Thread

-----------------------------------------------------------------------------
(* The two theorems *)

\* While WrAddr shows the end of a ring in one way only, the firmware is
\* disciplined, and the waveforms keep no more than a ring, what the client shows
\* of an array between two updates are exactly the newest entries of its
\* acquisition before the place the next fetch begins, whole and in order:
\* wherever in an entry the bursts end, and whatever bursts, acquisitions, aborts,
\* failed accesses and restarts came between the register reads of its updates;
\* until a fetch finds only a part of an entry.
THEOREM ShowsTheNewest ==
    Disciplined /\ OneWay /\ PvDepth <= RingEntries => (Spec => []PvIsNewest)
<1> DEFINE Inv == /\ TypeInv /\ Stamped /\ Assigned /\ Bounded
                  /\ RingsOK /\ ReaderOK
<1> SUFFICES ASSUME Disciplined, OneWay, PvDepth <= RingEntries
             PROVE  Spec => []PvIsNewest
  OBVIOUS
<1>1. Init => Inv
  <2>1. Init => Bounded
    BY DEF Init, Bounded
  <2> QED BY <2>1, TypeInit, StampedInit, AssignedInit, RingsInit, ReaderInit
<1>2. Inv /\ [Next]_vars => Inv'
  <2> SUFFICES ASSUME Inv, [Next]_vars PROVE Inv'
    OBVIOUS
  <2>1. TypeInv' /\ Stamped' /\ Assigned' /\ Bounded'
    BY TypeNext, StampedNext, AssignedNext, BoundedNext
  <2>2. RingsOK'
    BY RingsNext DEF Disciplined
  <2>3. ReaderOK'
    BY <2>1, <2>2, ReaderNext DEF Disciplined, Assigned
  <2> QED BY <2>1, <2>2, <2>3
<1>3. Inv => PvIsNewest
  <2> SUFFICES ASSUME Inv, NEW a \in Arrays, AtRest(a), ~clear[a], ~lost[a], ~split[a]
               PROVE  pv[a] = Window(a, (rd[a] - base[a]) \div EntryUnits)
    BY DEF PvIsNewest, Window
  <2>1. Current(a)
    BY DEF Current, AtRest
  <2>2. PICK n \in Nat : rd[a] - base[a] = n * EntryUnits /\ pv[a] = Window(a, n)
    BY <2>1 DEF ReaderOK, Shows
  <2>3. (rd[a] - base[a]) \div EntryUnits = n
    BY <2>2, ExactDivision, EntryAssumption
  <2> QED BY <2>2, <2>3
<1> HIDE DEF Inv
<1> QED BY <1>1, <1>2, <1>3, PTL DEF Spec

\* While the firmware stamps every burst, an array that pending() has nothing to
\* report of has been read to its last whole entry, waits for no acknowledgement,
\* and its waveforms carry the hardware's stamp: no write is missed because it
\* came between the reads of its stamp and of its address.
THEOREM NothingLeftUnreported == IncrementalTs => (Spec => []SettledMeansDelivered)
<1> DEFINE Inv == TypeInv /\ Stamped /\ Bounded /\ Level
<1> SUFFICES ASSUME IncrementalTs PROVE Spec => []SettledMeansDelivered
  OBVIOUS
<1>1. Init => Inv
  <2>1. Init => Bounded
    BY DEF Init, Bounded
  <2> QED BY <2>1, TypeInit, StampedInit, LevelInit
<1>2. Inv /\ [Next]_vars => Inv'
  BY TypeNext, StampedNext, BoundedNext, LevelNext
<1>3. Inv => SettledMeansDelivered
  <2> SUFFICES ASSUME Inv, NEW a \in Arrays, AtRest(a), ~Differs(tstamp[a], wrAddr[a], a)
               PROVE  /\ rd[a] + EntryUnits > written[a] /\ ~clear[a]
                      /\ pvTs[a] = tstamp[a]
    BY DEF SettledMeansDelivered
  <2>1. tstamp[a] = state[a].ts /\ arr # a /\ pc # "crashed"
    BY DEF Differs, AtRest
  <2>2. rd[a] + EntryUnits > written[a] /\ pvTs[a] = tstamp[a]
    BY <2>1, LevelTypes DEF Level, InGet
  <2>3. ~clear[a]
    BY <2>1, LevelTypes DEF Stamped
  <2> QED BY <2>2, <2>3
<1> HIDE DEF Inv
<1> QED BY <1>1, <1>2, <1>3, PTL DEF Spec
=============================================================================
