-------------------------------- MODULE MCParts --------------------------------
(* The smaller components for TLC: acquisition control, services, sender, the    *)
(* waveforms of the client and the stream monitor.  They share no state and call *)
(* nothing of each other, so that one of them runs at a time, chosen at the      *)
(* start.                                                                        *)
EXTENDS AcqControl, ServiceControl, SocketSender, ClientBuffer, TprStream

CONSTANTS c1, c2, h1, h2

MCArrayOf == [c \in Clients |-> IF c = c1 THEN 0 ELSE 1]

VARIABLE part

mcVars == <<acqVars, serviceVars, senderVars, clientVars, streamVars, part>>

MCInit ==
    /\ part \in {"acquisition", "service", "sender", "client", "stream"}
    /\ AcqInit /\ ServiceInit /\ SenderInit /\ ClientInit /\ StreamInit
    /\ part = "service" \/ kind = "bld"
    /\ part = "sender" \/ owner = [fd \in Fds |-> "free"]
    /\ part = "client" \/ ~fault
    /\ part = "stream" \/ (~remote /\ buff = 0)

\* The poll loop of a client goes on, and acquisitions end by themselves.
Acquisition(A) ==
    part = "acquisition" /\ A /\ UNCHANGED <<serviceVars, senderVars, clientVars, streamVars, part>>

MCNext ==
    \/ Acquisition(AcqNext)
    \/ /\ part = "service" /\ ServiceNext
       /\ UNCHANGED <<acqVars, senderVars, clientVars, streamVars, part>>
    \/ /\ part = "sender" /\ SenderNext
       /\ UNCHANGED <<acqVars, serviceVars, clientVars, streamVars, part>>
    \/ /\ part = "client" /\ ClientNext
       /\ UNCHANGED <<acqVars, serviceVars, senderVars, streamVars, part>>
    \/ /\ part = "stream" /\ StreamNext
       /\ UNCHANGED <<acqVars, serviceVars, senderVars, clientVars, part>>

MCFairness ==
    /\ \A c \in Clients : WF_mcVars(Acquisition(Poll(c)))
    /\ \A a \in AcqArrays : WF_mcVars(Acquisition(Complete(a)))

MCSpec == MCInit /\ [][MCNext]_mcVars /\ MCFairness
=============================================================================
