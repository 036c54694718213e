------------------------------ MODULE TprStream ------------------------------
(***************************************************************************)
(* The timing stream monitor tpr_stream.cc: main() reads UDP datagrams,    *)
(* counts them and reports pulse ids that do not follow each other, while  *)
(* a thread prints the counters once a second.  The network loses, repeats *)
(* and reorders datagrams.  An id is a pulse number modulo Cycle, which is *)
(* PID_MAX + 1; sizes are counted in datagrams.                            *)
(***************************************************************************)
EXTENDS Integers

CONSTANTS
    Cycle,     \* pulse ids are 0 .. Cycle - 1
    MaxPulse,  \* bound: pulses
    MaxRead,   \* bound: datagrams read
    MaxPrints  \* bound: lines the thread prints

ASSUME StreamConstants == Cycle \in Nat \ {0, 1} /\ {MaxPulse, MaxRead, MaxPrints} \subseteq Nat

VARIABLES
    mpc,     \* where main() is
    count,   \* datagrams read
    bytes,   \* ... and their bytes
    opid,    \* the id of the last datagram
    buff,    \* the id in the buffer
    cpcs,    \* where the thread is
    ncount,  \* count as the thread has read it
    shown,   \* the line printed last
    prints,  \* lines printed
    remote,  \* ClientRemoteIp is set: the carrier sends
    pulse,   \* ghost: the pulse of the last datagram, -1 before the first
    skipped  \* ghost: pulses left out by the last datagram that was not reported

streamVars == <<mpc, count, bytes, opid, buff, cpcs, ncount, shown, prints, remote, pulse, skipped>>

NoLine == [n |-> 0, bytes |-> 0]

StreamInit ==
    /\ mpc = "setup" /\ count = 0 /\ bytes = 0 /\ opid = 0
    /\ buff \in 0 .. Cycle - 1   \* the buffer is not initialized
    /\ cpcs = "none" /\ ncount = 0 /\ shown = NoLine /\ prints = 0
    /\ remote \in BOOLEAN   \* the statements that would set it are commented out
    /\ pulse = -1 /\ skipped = 0

\* Options, files, socket and thread: any of them may fail, and main() returns.
Setup ==
    /\ mpc = "setup"
    /\ \/ mpc' = "read" /\ cpcs' = "count"
       \/ mpc' = "ended" /\ UNCHANGED cpcs
    /\ UNCHANGED <<count, bytes, opid, buff, ncount, shown, prints, remote, pulse, skipped>>

\* read() returns a datagram of any pulse so far or to come, or one too short
\* to reach the id; or it fails, and main() waits for the thread, which goes on.
Read ==
    /\ mpc = "read" /\ count < MaxRead
    /\ \/ /\ remote
          /\ \E p \in 0 .. MaxPulse :
                /\ buff' = p % Cycle /\ pulse' = p
                /\ skipped' = IF pulse = -1 THEN 0 ELSE p - pulse - 1
          /\ mpc' = "size" /\ count' = count + 1
       \/ /\ remote /\ skipped' = IF pulse = -1 THEN 0 ELSE -1
          /\ mpc' = "size" /\ count' = count + 1 /\ UNCHANGED <<buff, pulse>>
       \/ mpc' = "join" /\ UNCHANGED <<count, buff, pulse, skipped>>
    /\ UNCHANGED <<bytes, opid, cpcs, ncount, shown, prints, remote>>

\* bytes is counted after count.
CountBytes ==
    /\ mpc = "size"
    /\ bytes' = bytes + 1 /\ mpc' = "check"
    /\ UNCHANGED <<count, opid, buff, cpcs, ncount, shown, prints, remote, pulse, skipped>>

\* Variant: the highest id is not looked at.
JumpsUnchecked == opid < Cycle - 1 /\ buff # opid + 1

Jumps ==
    \/ opid < Cycle - 1 /\ buff # opid + 1
    \/ opid = Cycle - 1 /\ buff # 0

\* A jump is printed; the ids go on from there.
Check ==
    /\ mpc = "check"
    /\ opid' = buff /\ mpc' = "read"
    /\ skipped' = IF Jumps THEN 0 ELSE skipped
    /\ UNCHANGED <<count, bytes, buff, cpcs, ncount, shown, prints, remote, pulse>>

\* Variant: the bytes are read first.
ThreadReadsBytesFirst ==
    \/ /\ cpcs = "count" /\ prints < MaxPrints
       /\ ncount' = bytes /\ cpcs' = "bytes" /\ UNCHANGED <<shown, prints>>
    \/ /\ cpcs = "bytes"
       /\ shown' = [n |-> count, bytes |-> ncount]
       /\ cpcs' = "count" /\ prints' = prints + 1 /\ UNCHANGED ncount

\* countThread: count and bytes, one after the other, and the line with both.
ThreadReads ==
    \/ /\ cpcs = "count" /\ prints < MaxPrints
       /\ ncount' = count /\ cpcs' = "bytes" /\ UNCHANGED <<shown, prints>>
    \/ /\ cpcs = "bytes"
       /\ shown' = [n |-> ncount, bytes |-> bytes]
       /\ cpcs' = "count" /\ prints' = prints + 1 /\ UNCHANGED ncount

Thread ==
    /\ mpc # "ended" /\ ThreadReads
    /\ UNCHANGED <<mpc, count, bytes, opid, buff, remote, pulse, skipped>>

\* A signal on either thread: ClientRemoteIp is cleared and the process ends.
\* When the write throws, abort() raises a signal that is handled in the same
\* way; when that throws too, the process ends with the stream as it was.
Signalled ==
    /\ mpc \notin {"setup", "ended"}
    /\ mpc' = "ended" /\ remote' \in {FALSE, remote}
    /\ UNCHANGED <<count, bytes, opid, buff, cpcs, ncount, shown, prints, pulse, skipped>>

StreamNext == Setup \/ Read \/ CountBytes \/ Check \/ Thread \/ Signalled

StreamSpec == StreamInit /\ [][StreamNext]_streamVars

-----------------------------------------------------------------------------

\* Silence means contiguous: a datagram that is taken without a report, the
\* first apart, follows
\* the one before, but for whole cycles of ids: none lost, repeated or out of
\* order, at the wrap of the ids too, and none too short to have an id.
SilenceMeansContiguous == mpc = "read" => skipped % Cycle = 0

\* The two counters are read while main() moves them: the bytes of a line are at
\* least those of all of its packets but the one that is being counted.
BytesNotBehind == shown.bytes + 1 >= shown.n
=============================================================================
