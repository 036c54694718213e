----------------------------- MODULE SocketSender -----------------------------
(***************************************************************************)
(* The C interface to a UDP sender, socketAPI.cc: handles made by          *)
(* socketAPIInit..., used by socketAPISendRawData and freed by             *)
(* socketAPIRelease, in a process whose other code opens and closes        *)
(* descriptors of its own.  _init makes system calls one after the other,  *)
(* each of which may fail; its result is dropped.                          *)
(***************************************************************************)
EXTENDS Integers, FiniteSetsExt

CONSTANTS
    Handles,   \* the senders of the process, each initialized and released
    MaxFd,     \* descriptors 0 .. MaxFd
    Steps,     \* the calls of _init after socket()
    MaxInits   \* bound: initializations

ASSUME SenderConstants ==
    {MaxFd, Steps, MaxInits} \subseteq Nat /\ Handles \cap {"free", "other"} = {}

Fds == 0 .. MaxFd

VARIABLES
    owner,     \* who opened the descriptor: "free", "other" or a handle
    sock,      \* _iSocket of each live object
    live,      \* the handles that may be used
    step,      \* calls _init has made; Steps + 1 when it has returned
    failed,    \* the handles whose _init failed
    inits,
    lastSend,  \* ghost: the last datagram: its handle and the descriptor's owner
    wrong      \* ghost: a descriptor was closed that was not the closer's

senderVars == <<owner, sock, live, step, failed, inits, lastSend, wrong>>

NoSend == <<"none", "none">>

\* Variant: the member starts at 0.
NoSocketZero == 0

\* _iSocket when there is none.
NoSocket == -1

SenderInit ==
    /\ owner \in [Fds -> {"free", "other"}]
    /\ sock = [h \in Handles |-> NoSocket] /\ live = {} /\ failed = {} /\ inits = 0
    /\ step = [h \in Handles |-> 0] /\ lastSend = NoSend /\ wrong = FALSE

Free == {fd \in Fds : owner[fd] = "free"}

\* Other code of the process, which closes only what it has opened.
OtherOpen ==
    /\ Free # {} /\ owner' = [owner EXCEPT ![Min(Free)] = "other"]
    /\ UNCHANGED <<sock, live, step, failed, inits, lastSend, wrong>>

OtherClose(fd) ==
    /\ owner[fd] = "other" /\ owner' = [owner EXCEPT ![fd] = "free"]
    /\ UNCHANGED <<sock, live, step, failed, inits, lastSend, wrong>>

\* The object is constructed and socket() takes the lowest free descriptor,
\* or fails.
Open(h) ==
    /\ h \notin live /\ step[h] = 0 /\ inits < MaxInits
    /\ inits' = inits + 1
    /\ \/ /\ Free # {}
          /\ owner' = [owner EXCEPT ![Min(Free)] = h]
          /\ sock' = [sock EXCEPT ![h] = Min(Free)]
          /\ step' = [step EXCEPT ![h] = 1]
          /\ failed' = failed \ {h} /\ UNCHANGED live
       \/ /\ sock' = [sock EXCEPT ![h] = NoSocket]
          /\ step' = [step EXCEPT ![h] = Steps + 1]
          /\ live' = live \cup {h} /\ failed' = failed \cup {h} /\ UNCHANGED owner
    /\ UNCHANGED <<lastSend, wrong>>

\* Buffer size, bind, name, TTL, interface: the first that fails ends _init.
\* Either way the caller gets the handle and 0.
Configure(h) ==
    /\ step[h] \in 1 .. Steps
    /\ \/ step' = [step EXCEPT ![h] = @ + 1] /\ UNCHANGED failed
       \/ step' = [step EXCEPT ![h] = Steps + 1] /\ failed' = failed \cup {h}
    /\ live' = IF step'[h] = Steps + 1 THEN live \cup {h} ELSE live
    /\ UNCHANGED <<owner, sock, inits, lastSend, wrong>>

\* sendmsg on _iSocket, whatever that is; 1 is returned when it fails.
Send(h) ==
    /\ h \in live
    /\ lastSend' = IF sock[h] \in Fds THEN <<h, owner[sock[h]]>> ELSE NoSend
    /\ UNCHANGED <<owner, sock, live, step, failed, inits, wrong>>

\* The destructor's test.
Closes(h) == sock[h] # 0

\* The object is deleted.
Release(h) ==
    LET closed == IF Closes(h) THEN {sock[h]} \cap Fds ELSE {} IN
    /\ h \in live /\ live' = live \ {h}
    /\ step' = [step EXCEPT ![h] = 0] /\ sock' = [sock EXCEPT ![h] = NoSocket]
    /\ owner' = [fd \in Fds |-> IF fd \in closed THEN "free" ELSE owner[fd]]
    /\ wrong' = (wrong \/ \E fd \in closed : owner[fd] # h)
    /\ UNCHANGED <<failed, inits, lastSend>>

SenderNext ==
    \/ OtherOpen \/ \E fd \in Fds : OtherClose(fd)
    \/ \E h \in Handles : Open(h) \/ Configure(h) \/ Send(h) \/ Release(h)

SenderSpec == SenderInit /\ [][SenderNext]_senderVars

-----------------------------------------------------------------------------

\* Descriptors are used again as soon as they are closed.  Still every datagram
\* of a sender goes out on the socket that sender opened, also when its
\* initialization failed; no sender closes another's descriptor; and a released
\* one leaves a descriptor open only when that is 0, because the destructor takes
\* 0, not -1, for "no socket".
OwnDescriptor ==
    /\ lastSend[1] = lastSend[2] /\ ~wrong
    /\ \A fd \in Fds \ {0} :
          owner[fd] \in Handles => owner[fd] \in live \/ step[owner[fd]] # 0
=============================================================================
