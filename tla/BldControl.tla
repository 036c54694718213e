----------------------------- MODULE BldControl -----------------------------
(***************************************************************************)
(* The BLD packet receiver, bld_control.cc: main() sets the stream up,     *)
(* enables it and unpacks the datagrams; countThread() reports the         *)
(* counters; sigHandler() turns the stream off and ends the process, on    *)
(* whichever thread the signal interrupts.  The environment is the stream  *)
(* of the firmware, the kernel's delivery of signals and the user's        *)
(* interrupts.  Lengths are in 32-bit words.  No step is fair: the handler *)
(* allocates, prints and accesses registers on the thread it interrupts,   *)
(* and may wait there for ever for a lock that this thread holds.          *)
(***************************************************************************)
EXTENDS Integers, Sequences

CONSTANTS
    Channels,    \* how many channels the mask of a datagram may have
    BuffWords,   \* buffsize: a longer datagram is cut off
    DumpPackets, \* values of option -d
    InOrder,     \* the build reads the shared counters in the order of the source
    MaxEvents,   \* bound: events the firmware sends
    MaxInts,     \* bound: interrupts by the user
    MaxErrs      \* bound: register accesses that throw

ASSUME BldConstants ==
    /\ Channels \subseteq Nat /\ DumpPackets \subseteq Nat
    /\ BuffWords \in Nat /\ \A c \in Channels : 7 + c <= BuffWords   \* 2048 words, 32 channels
    /\ InOrder \in BOOLEAN /\ {MaxEvents, MaxInts, MaxErrs} \subseteq Nat

Signals == {"INT", "ABRT"}
Threads == {"main", "count"}
Counters == {"count", "event", "bytes"}

VARIABLES
    enable,      \* the register BldAxiStream/Enable
    sock, sent,  \* datagrams in the socket; the last event the firmware sent
    disp,        \* disposition of each signal
    blocked,     \* sa_mask, never initialized
    frames,      \* per thread the handlers that interrupt it, and where they are
    ended,       \* how the process ended
    main, ndump, disable,
    dgram, at, got,       \* the datagram, _next of its iterator, the events seen
    count, event, bytes,  \* the counters main() and countThread() share
    rep, seen, shown,     \* countThread(): the counters left to read, the read ones, the last report
    ints, errs,
    early        \* ghost: the report thread took an interrupt before main() enabled

stream   == <<sock, sent>>
signal   == <<disp, blocked, frames>>
options  == <<ndump, disable>>
packet   == <<dgram, at, got>>
counters == <<count, event, bytes>>
report   == <<rep, seen, shown>>
bounds   == <<ints, early, errs>>
vars == <<enable, stream, signal, ended, main, options, packet, counters, report, bounds>>

NoDgram == [first |-> 0, n |-> 0, ch |-> 0, len |-> 0]
NoCounts == [count |-> 0, event |-> 0, bytes |-> 0]

-----------------------------------------------------------------------------
(* The datagrams, as the firmware packs n events of c channels from event e *)
(* on: the first with its time stamp, pulse id and mask, the others as       *)
(* differences to it.                                                        *)

FirstWords(c) == 7 + c
NextWords(c) == 3 + c
Length(c, n) == FirstWords(c) + (n - 1) * NextWords(c)

FirstField(c, i) ==
    CASE i < 2 -> "time" [] i \in 2 .. 3 -> "pulse" [] i = 4 -> "mask" [] i = 5 -> "beam"
      [] i \in 6 .. 5 + c -> "channel" [] OTHER -> "valid"
NextField(c, i) ==
    CASE i = 0 -> "delta" [] i = 1 -> "beam"
      [] i \in 2 .. 1 + c -> "channel" [] OTHER -> "valid"

Word(d, i) ==
    LET j == i - FirstWords(d.ch)
    IN  IF j < 0 THEN [event |-> d.first, field |-> FirstField(d.ch, i)]
        ELSE [event |-> d.first + 1 + (j \div NextWords(d.ch)),
              field |-> NextField(d.ch, (j % NextWords(d.ch)))]

\* The stream sends while it is enabled; UDP may lose a datagram.
Send ==
    /\ enable /\ ended = "no" /\ Len(sock) < 2
    /\ \E n \in 1 .. MaxEvents - sent, c \in Channels :
          /\ sent' = sent + n
          /\ LET len == IF Length(c, n) < BuffWords THEN Length(c, n) ELSE BuffWords
             IN  sock' \in {sock, Append(sock, [first |-> sent + 1, n |-> n, ch |-> c, len |-> len])}
    /\ UNCHANGED <<enable, signal, ended, main, options, packet, counters, report, bounds>>

-----------------------------------------------------------------------------
(* Signals *)

Running(t) == ended = "no" /\ frames[t] = <<>>
Exists(t) == t = "main" \/ rep # {}

\* A thread cannot take a signal whose handler, or one that masks it, it runs.
Blocks(t, s) ==
    \E i \in 1 .. Len(frames[t]) : frames[t][i].sig = s \/ s \in blocked

\* Variant: the handler stays installed.
DeliverAgain(t, s) ==
    IF disp[s] = "handler"
    THEN /\ frames' = [frames EXCEPT ![t] = Append(@, [sig |-> s, at |-> "disable"])]
         /\ UNCHANGED <<disp, blocked, ended>>
    ELSE ended' = "killed" /\ UNCHANGED signal

\* Signal s on thread t: the handler, once (SA_RESETHAND), or the end.
Deliver(t, s) ==
    IF disp[s] = "handler"
    THEN /\ frames' = [frames EXCEPT ![t] = Append(@, [sig |-> s, at |-> "disable"])]
         /\ disp' = [disp EXCEPT ![s] = "default"]
         /\ UNCHANGED <<blocked, ended>>
    ELSE ended' = "killed" /\ UNCHANGED signal

\* The user interrupts the program; the kernel picks the thread.
Interrupt ==
    /\ ended = "no" /\ ints < MaxInts
    /\ ints' = ints + 1
    /\ \E t \in Threads :
          /\ Exists(t) /\ ~Blocks(t, "INT")
          /\ early' = (early \/ (t = "count" /\ main \in {"setup", "enable"}))
          /\ Deliver(t, "INT")
    /\ UNCHANGED <<enable, stream, main, options, packet, counters, report, errs>>

Top(t) == frames[t][Len(frames[t])].at
MoveTop(t, to) == frames' = [frames EXCEPT ![t][Len(frames[t])].at = to]

\* Variant: an access that throws is caught, and the process ends all the same.
HandlerDisableCatches(t) ==
    /\ ended = "no" /\ frames[t] # <<>> /\ Top(t) = "disable"
    /\ MoveTop(t, "exit")
    /\ \/ enable' = FALSE /\ UNCHANGED errs
       \/ errs < MaxErrs /\ errs' = errs + 1 /\ UNCHANGED enable
    /\ UNCHANGED <<ended, stream, disp, blocked, main, options, packet, counters, report, ints, early>>

\* sigHandler() writes Enable.  An exception leaves no catch block to go to:
\* terminate() aborts, which is a signal on the same thread.
HandlerDisable(t) ==
    /\ ended = "no" /\ frames[t] # <<>> /\ Top(t) = "disable"
    /\ \/ enable' = FALSE /\ MoveTop(t, "exit") /\ UNCHANGED <<ended, disp, blocked, errs>>
       \/ /\ errs < MaxErrs /\ errs' = errs + 1
          /\ enable' \in {enable, FALSE}
          /\ Deliver(t, "ABRT")
    /\ UNCHANGED <<stream, main, options, packet, counters, report, ints, early>>

\* sigHandler() has said "BLD disabled" and is in exit(); the other thread
\* runs until the process is gone.
HandlerExit(t) ==
    /\ ended = "no" /\ frames[t] # <<>> /\ Top(t) = "exit"
    /\ ended' = "exited"
    /\ UNCHANGED <<enable, stream, signal, main, options, packet, counters, report, bounds>>

-----------------------------------------------------------------------------
(* main() *)

MainAt(from) == Running("main") /\ main = from

\* A register access throws out of main(): terminate() aborts.
MainThrows ==
    /\ errs < MaxErrs /\ errs' = errs + 1
    /\ main' = "abort"

\* The handlers are installed one after the other; then option -D aborts.
Install ==
    /\ MainAt("install")
    /\ IF disp["INT"] = "default"
       THEN disp' = [disp EXCEPT !["INT"] = "handler"] /\ UNCHANGED main
       ELSE /\ disp' = [disp EXCEPT !["ABRT"] = "handler"]
            /\ main' = IF disable THEN "abort" ELSE "open"
    /\ UNCHANGED <<enable, stream, blocked, frames, ended, options, packet, counters,
                   report, bounds>>

\* The socket and the report thread; main() returns when either fails.
Open ==
    /\ MainAt("open")
    /\ \/ main' = "setup" /\ rep' = Counters /\ UNCHANGED ended
       \/ ended' = "returned" /\ UNCHANGED <<main, rep>>
    /\ UNCHANGED <<enable, stream, signal, options, packet, counters, seen, shown, bounds>>

\* Mask, severities and packet size.
Setup ==
    /\ MainAt("setup")
    /\ \/ main' = "enable" /\ UNCHANGED errs
       \/ MainThrows
    /\ UNCHANGED <<enable, stream, signal, ended, options, packet, counters, report, ints, early>>

Enable ==
    /\ MainAt("enable")
    /\ \/ enable' = TRUE /\ main' = "read" /\ UNCHANGED errs
       \/ enable' \in {enable, TRUE} /\ MainThrows
    /\ UNCHANGED <<stream, signal, ended, options, packet, counters, report, ints, early>>

\* read(): the next datagram, printed or counted; an error, or the last
\* datagram asked for, aborts.
Read ==
    /\ MainAt("read")
    /\ \/ /\ sock # <<>>
          /\ sock' = Tail(sock)
          /\ dgram' = Head(sock) /\ at' = 0 /\ got' = <<>>
          /\ main' = IF ndump = 0 THEN "abort" ELSE IF ndump > 0 THEN "read" ELSE "bytes"
          /\ ndump' = IF ndump > 0 THEN ndump - 1 ELSE ndump
          /\ count' = IF ndump = -1 THEN count + 1 ELSE count
       \/ main' = "abort" /\ UNCHANGED <<sock, dgram, at, got, ndump, count>>
    /\ UNCHANGED <<enable, sent, signal, ended, disable, event, bytes, report, bounds>>

\* Variant: the datagram is not checked to hold whole events.
BytesUnchecked ==
    /\ MainAt("bytes")
    /\ bytes' = bytes + dgram.len
    /\ main' = "event"
    /\ UNCHANGED <<enable, stream, signal, ended, options, packet, count, event, report, bounds>>

\* The iterator is made; it aborts unless the datagram holds whole events.
Bytes ==
    /\ MainAt("bytes")
    /\ bytes' = bytes + dgram.len
    /\ main' = IF ((dgram.len - FirstWords(dgram.ch)) % NextWords(dgram.ch)) = 0 THEN "event" ELSE "abort"
    /\ UNCHANGED <<enable, stream, signal, ended, options, packet, count, event, report, bounds>>

\* BldEventIterator: the words the event at _next is made of, by the mask the
\* datagram carries; the values of the channels apart, which line 102 puts one
\* place too far (the last one past the end) and main() does not look at.
Unpack ==
    LET w(i) == Word(dgram, i)
        c == dgram.ch
    IN  IF at = 0
        THEN [base |-> <<w(0), w(1), w(2), w(3)>>, own |-> <<>>,
              beam |-> w(5), valid |-> w(6 + c), next |-> 7 + c]
        ELSE [base |-> <<w(0), w(1), w(2), w(3)>>, own |-> <<w(at)>>,
              beam |-> w(at + 1), valid |-> w(at + 2 + c), next |-> at + 3 + c]

\* One event of the loop; next() says whether there is another.
Event ==
    /\ MainAt("event")
    /\ got' = Append(got, Unpack)
    /\ event' = event + 1
    /\ at' = Unpack.next
    /\ main' = IF Unpack.next >= dgram.len THEN "read" ELSE "event"
    /\ UNCHANGED <<enable, stream, signal, ended, options, dgram, count, bytes, report, bounds>>

\* abort() unblocks SIGABRT and raises it.
Abort ==
    /\ MainAt("abort")
    /\ Deliver("main", "ABRT")
    /\ UNCHANGED <<enable, stream, main, options, packet, counters, report, bounds>>

-----------------------------------------------------------------------------
(* countThread() *)

\* Variant: the events are read before the datagrams.
ReadOrderEventsFirst == <<"event", "count", "bytes">>

ReadOrder == <<"count", "event", "bytes">>

\* Every second: read the three counters, one at a time, and print.  Nothing
\* orders the reads but the source: without InOrder any order may be compiled.
Report ==
    /\ Running("count")
    /\ \E i \in 1 .. Len(ReadOrder) :
          LET c == ReadOrder[i]
              read == [seen EXCEPT ![c] = [count |-> count, event |-> event, bytes |-> bytes][c]]
          IN  /\ c \in rep
              /\ InOrder => \A j \in 1 .. i - 1 : ReadOrder[j] \notin rep
              /\ seen' = read
              /\ IF rep = {c} THEN rep' = Counters /\ shown' = read
                 ELSE rep' = rep \ {c} /\ UNCHANGED shown
    /\ UNCHANGED <<enable, stream, signal, ended, main, options, packet, counters, bounds>>

-----------------------------------------------------------------------------

\* The register is as the last process left it.
Init ==
    /\ enable \in BOOLEAN /\ sock = <<>> /\ sent = 0
    /\ disp = [s \in Signals |-> "default"] /\ blocked \in SUBSET Signals
    /\ frames = [t \in Threads |-> <<>>] /\ ended = "no"
    /\ main = "install" /\ ndump \in {-1} \cup DumpPackets /\ disable \in BOOLEAN
    /\ dgram = NoDgram /\ at = 0 /\ got = <<>>
    /\ count = 0 /\ event = 0 /\ bytes = 0
    /\ rep = {} /\ seen = NoCounts /\ shown = NoCounts
    /\ ints = 0 /\ errs = 0 /\ early = FALSE

Main == Install \/ Open \/ Setup \/ Enable \/ Read \/ Bytes \/ Event \/ Abort
Handler(t) == HandlerDisable(t) \/ HandlerExit(t)

Next == Send \/ Interrupt \/ Main \/ Report \/ \E t \in Threads : Handler(t)

Spec == Init /\ [][Next]_vars

-----------------------------------------------------------------------------

\* Every variable has its type.
TypeOK ==
    /\ enable \in BOOLEAN /\ sent \in 0 .. MaxEvents
    /\ \A d \in {sock[i] : i \in 1 .. Len(sock)} \cup {dgram} :
          d.first \in 0 .. MaxEvents /\ d.n \in 0 .. MaxEvents /\ d.ch \in Channels \cup {0} /\ d.len \in 0 .. BuffWords
    /\ disp \in [Signals -> {"default", "handler"}] /\ blocked \subseteq Signals
    /\ \A t \in Threads : Len(frames[t]) <= 2
    /\ ended \in {"no", "exited", "killed", "returned"}
    /\ main \in {"install", "open", "setup", "enable", "read", "bytes", "event", "abort"}
    /\ ndump \in {-1} \cup Nat /\ disable \in BOOLEAN /\ early \in BOOLEAN /\ at \in 0 .. BuffWords
    /\ {count, event, bytes, ints, errs} \subseteq Nat
    /\ rep \subseteq Counters
    /\ {seen, shown} \subseteq [count : Nat, event : Nat, bytes : Nat]

\* Once the handlers are installed the process leaves the stream disabled, also
\* when one register access fails and when it aborts itself: an exception out of
\* sigHandler() raises the signal whose handler tries again.  The stream stays on
\* only when the report thread took the interrupt before main() had enabled the
\* stream, which main() then does (after "BLD disabled", bld_control.cc:135),
\* or when the process is killed: by a second interrupt, a second failure,
\* or one failure once SIGABRT's handler is used up by main()'s own abort().
EndsDisabled ==
    ~early =>
       /\ ended = "exited" => ~enable
       /\ ended = "killed" /\ enable =>
             ints > 1 \/ errs > 1 \/ main = "install" \/ (errs = 1 /\ main = "abort")

\* Event j of a datagram as the firmware packed it.
Packed(d, j) ==
    LET x(e, f) == [event |-> e, field |-> f]
    IN  [base |-> <<x(d.first, "time"), x(d.first, "time"), x(d.first, "pulse"), x(d.first, "pulse")>>,
         own |-> IF j = 1 THEN <<>> ELSE <<x(d.first + j - 1, "delta")>>,
         beam |-> x(d.first + j - 1, "beam"), valid |-> x(d.first + j - 1, "valid"),
         next |-> Length(d.ch, j)]

\* The iterator unpacks time stamp, pulse id, beam and valid words of the
\* events the firmware packed, in order, reads no word beyond the datagram and,
\* unless the datagram is refused, leaves no word out that arrived.  A datagram
\* longer than the buffer (option -p over 2048) is cut off: inside an event it
\* is refused (bld_control.cc:83), between two the rest is lost unnoticed.
EventsExact ==
    /\ got = [j \in 1 .. Len(got) |-> Packed(dgram, j)]
    /\ got # <<>> => at <= dgram.len
    /\ main = "read" /\ got # <<>> => at = dgram.len

\* A report never shows more datagrams than it shows events, nor more than its
\* bytes have room for, but for the one datagram main() was unpacking
\* (bld_control.cc:155-157), if the reads are compiled in order.  It may show
\* events and bytes of datagrams that came after the ones it counts.
ReportConsistent ==
    shown.count <= shown.event + 1 /\ (shown.count - 1) * 7 <= shown.bytes
=============================================================================
