------------------------------ MODULE AcqControl ------------------------------
(***************************************************************************)
(* Acquisitions on the carrier's timing pattern generator: clients call    *)
(* AmcCarrier::start, which clears the array's completion bit and writes   *)
(* two registers, and then AmcCarrier::poll with a callback (MyCallback in *)
(* bsa_tst.cc) that ends the loop when its own array's bit is set.  The    *)
(* bits of all arrays share one register that clears what is written as 1. *)
(***************************************************************************)
EXTENDS Integers, FiniteSets

CONSTANTS
    Clients,   \* processes that start and poll
    ArrayOf,   \* the array of each
    MaxStarts  \* bound: acquisitions started

ASSUME AcqConstants == DOMAIN ArrayOf = Clients /\ MaxStarts \in Nat

AcqArrays == {ArrayOf[c] : c \in Clients}

VARIABLES
    cmpl,      \* BsaComplete: the arrays whose bit is set
    running,   \* the acquisition under way in each array, 0 if none
    ended,     \* ghost: the last acquisition of each array that ended
    starts,    \* ghost: acquisitions started so far
    cpc,       \* where each client is
    cval,      \* cmpl as the client has read it
    mine,      \* ghost: the acquisition the client started last
    stale,     \* ghost: another one of its array ended while it wrote the registers
    robbed     \* ghost: another client cleared the client's bit

hwVars == <<cmpl, running, ended>>
acqVars == <<hwVars, starts, cpc, cval, mine, stale, robbed>>

AcqInit ==
    /\ cmpl = {} /\ starts = 0
    /\ running = [a \in AcqArrays |-> 0] /\ ended = [a \in AcqArrays |-> 0]
    /\ cpc = [c \in Clients |-> "idle"] /\ cval = [c \in Clients |-> {}]
    /\ mine = [c \in Clients |-> 0]
    /\ stale = [c \in Clients |-> FALSE] /\ robbed = [c \in Clients |-> FALSE]

\* The bits of B are written as 1 by client c.
ClearBits(c, B) ==
    /\ cmpl' = cmpl \ B
    /\ robbed' = [d \in Clients |->
                     IF d = c THEN robbed[d] /\ cpc[c] # "idle"
                     ELSE robbed[d] \/ ArrayOf[d] \in cmpl \cap B]

\* Variant: the bit of an earlier acquisition is left.
ClearedNone(c) == {}

\* start(): the completion bit the last acquisition of the array left.
Cleared(c) == {ArrayOf[c]}

StartClear(c) ==
    /\ cpc[c] = "idle" /\ starts + Cardinality({d \in Clients : cpc[d] \in {"eventSel", "statSel"}}) < MaxStarts
    /\ ClearBits(c, Cleared(c))
    /\ cpc' = [cpc EXCEPT ![c] = "eventSel"]
    /\ stale' = [stale EXCEPT ![c] = FALSE]
    /\ UNCHANGED <<running, ended, starts, cval, mine>>

\* BsaEventSel: what to acquire; nothing starts.
StartEventSel(c) ==
    /\ cpc[c] = "eventSel"
    /\ cpc' = [cpc EXCEPT ![c] = "statSel"]
    /\ UNCHANGED <<hwVars, starts, cval, mine, stale, robbed>>

\* BsaStatSel: how many; the hardware starts, in place of what is running.
StartStatSel(c) ==
    /\ cpc[c] = "statSel"
    /\ starts' = starts + 1
    /\ running' = [running EXCEPT ![ArrayOf[c]] = starts']
    /\ mine' = [mine EXCEPT ![c] = starts']
    /\ cpc' = [cpc EXCEPT ![c] = "read"]
    /\ UNCHANGED <<cmpl, ended, cval, stale, robbed>>

Complete(a) ==
    /\ running[a] # 0
    /\ cmpl' = cmpl \cup {a}
    /\ ended' = [ended EXCEPT ![a] = running[a]]
    /\ running' = [running EXCEPT ![a] = 0]
    /\ stale' = [c \in Clients |-> \/ stale[c]
                                   \/ ArrayOf[c] = a /\ cpc[c] \in {"eventSel", "statSel"}]
    /\ UNCHANGED <<starts, cpc, cval, mine, robbed>>

PollRead(c) ==
    /\ cpc[c] = "read"
    /\ cval' = [cval EXCEPT ![c] = cmpl]
    /\ cpc' = [cpc EXCEPT ![c] = "clear"]
    /\ UNCHANGED <<hwVars, starts, mine, stale, robbed>>

\* Variant: whatever is set by now.
PolledAll(c) == AcqArrays

\* poll() clears what it has read, also the bits of other arrays.
Polled(c) == cval[c]

\* The callback has run; the loop ends when its array was complete.
PollClear(c) ==
    /\ cpc[c] = "clear"
    /\ ClearBits(c, Polled(c))
    /\ cpc' = [cpc EXCEPT ![c] = IF ArrayOf[c] \in cval[c] THEN "idle" ELSE "read"]
    /\ cval' = [cval EXCEPT ![c] = {}]
    /\ UNCHANGED <<running, ended, starts, mine, stale>>

\* The client is killed where it stands; what it wrote stays.
Kill(c) ==
    /\ cpc[c] # "idle"
    /\ cpc' = [cpc EXCEPT ![c] = "idle"] /\ cval' = [cval EXCEPT ![c] = {}]
    /\ UNCHANGED <<hwVars, starts, mine, stale, robbed>>

Poll(c) == PollRead(c) \/ PollClear(c)

AcqNext ==
    \/ \E c \in Clients : StartClear(c) \/ StartEventSel(c) \/ StartStatSel(c) \/ Poll(c) \/ Kill(c)
    \/ \E a \in AcqArrays : Complete(a)

AcqSpec == AcqInit /\ [][AcqNext]_acqVars

-----------------------------------------------------------------------------

\* A client that leaves poll() has had its acquisition complete, unless another
\* one of the same array ended while start() was between its writes, or was
\* started by another client in place of its own.
LeavesWhenDone ==
    \A c \in Clients :
        cpc[c] = "clear" /\ ArrayOf[c] \in cval[c] =>
            ended[ArrayOf[c]] >= mine[c] \/ stale[c]

\* The completion a client waits for is never lost to it but by another
\* client's poll() or start(): its own poll() clears what it has seen only.
CompletionNotLost ==
    \A c \in Clients :
        cpc[c] = "read" /\ ended[ArrayOf[c]] = mine[c] /\ running[ArrayOf[c]] = 0 =>
            ArrayOf[c] \in cmpl \/ robbed[c]

\* A client that polls leaves in the end, unless it was robbed.
PollEnds == \A c \in Clients : cpc[c] = "read" ~> cpc[c] = "idle" \/ robbed[c]
=============================================================================
