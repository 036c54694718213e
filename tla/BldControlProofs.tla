--------------------------- MODULE BldControlProofs ---------------------------
(***************************************************************************)
(* Proofs about the BLD packet receiver, for all numbers of channels,      *)
(* datagrams, interrupts and failing accesses: how the process leaves the  *)
(* stream, that the iterator unpacks what the firmware packed, and that a  *)
(* line of the report shows no datagram without its events and bytes.      *)
(***************************************************************************)
EXTENDS BldControl, SequenceTheorems, TLAPS

Frames == [sig : Signals, at : {"disable", "exit"}]
Sent == {d \in [first : 1 .. MaxEvents, n : 1 .. MaxEvents, ch : Channels, len : Nat] :
            FirstWords(d.ch) <= d.len /\ d.len <= BuffWords}

Places == {"install", "open", "setup", "enable", "read", "bytes", "event", "abort"}

\* The types of the variables.
Typed ==
    /\ enable \in BOOLEAN /\ sent \in 0 .. MaxEvents /\ sock \in Seq(Sent)
    /\ dgram \in Sent \cup {NoDgram}
    /\ disp \in [Signals -> {"default", "handler"}] /\ blocked \subseteq Signals
    /\ frames \in [Threads -> Seq(Frames)]
    /\ ended \in {"no", "exited", "killed", "returned"} /\ main \in Places
    /\ ndump \in {-1} \cup Nat /\ disable \in BOOLEAN
    /\ count \in Nat /\ event \in Nat /\ bytes \in Nat /\ ints \in Nat /\ errs \in Nat /\ early \in BOOLEAN
    /\ rep \in SUBSET Counters
    /\ seen \in [count : Nat, event : Nat, bytes : Nat]
    /\ shown \in [count : Nat, event : Nat, bytes : Nat]

-----------------------------------------------------------------------------
(* Lengths *)

\* Multiplication keeps the order of naturals.
LEMMA TimesMonotone ==
    ASSUME NEW x \in Nat, NEW y \in Nat, NEW c \in Nat, x <= y
    PROVE  x * c \in Nat /\ y * c \in Nat /\ x * c <= y * c
<1>1. PICK d \in Nat : y = x + d
  <2>1. y - x \in Nat /\ y = x + (y - x)
    OBVIOUS
  <2> QED BY <2>1
<1>2. y * c = x * c + d * c
  BY <1>1
<1>3. d * c \in Nat /\ x * c \in Nat
  OBVIOUS
<1> QED BY <1>2, <1>3

\* The lengths of datagrams.
LEMMA Lengths ==
    ASSUME NEW c \in Channels
    PROVE  /\ c \in Nat /\ FirstWords(c) \in Nat \ {0} /\ NextWords(c) \in Nat \ {0}
           /\ FirstWords(c) = 7 + c /\ NextWords(c) = 3 + c /\ FirstWords(c) <= BuffWords
           /\ \A n \in Nat \ {0} : Length(c, n) \in Nat /\ FirstWords(c) <= Length(c, n)
           /\ \A n \in Nat \ {0} : Length(c, n + 1) = Length(c, n) + NextWords(c)
<1> USE BldConstants
<1>1. /\ FirstWords(c) \in Nat \ {0} /\ NextWords(c) \in Nat \ {0} /\ c \in Nat
      /\ FirstWords(c) = 7 + c /\ NextWords(c) = 3 + c /\ FirstWords(c) <= BuffWords
  BY DEF FirstWords, NextWords
<1>2. ASSUME NEW n \in Nat \ {0}
      PROVE  /\ Length(c, n) \in Nat /\ FirstWords(c) <= Length(c, n)
             /\ Length(c, n + 1) = Length(c, n) + NextWords(c)
  <2>1. PICK w \in Nat, f \in Nat : w = NextWords(c) /\ f = FirstWords(c)
    BY <1>1
  <2>2. n - 1 \in Nat /\ (n - 1) * w \in Nat /\ ((n + 1) - 1) * w = (n - 1) * w + w
    OBVIOUS
  <2> QED BY <2>1, <2>2 DEF Length
<1> QED BY <1>1, <1>2

-----------------------------------------------------------------------------
(* Handlers *)

\* What a signal does to the threads' handlers.
LEMMA DeliverEffect ==
    ASSUME Typed, NEW t \in Threads, NEW s \in Signals, Deliver(t, s)
    PROVE  \/ /\ disp[s] = "handler" /\ disp' = [disp EXCEPT ![s] = "default"]
              /\ frames' \in [Threads -> Seq(Frames)]
              /\ Len(frames'[t]) = Len(frames[t]) + 1 /\ Top(t)' = "disable"
              /\ \A u \in Threads \ {t} : frames'[u] = frames[u]
              /\ UNCHANGED <<blocked, ended>>
           \/ disp[s] = "default" /\ ended' = "killed" /\ UNCHANGED <<disp, blocked, frames>>
<1>1. CASE disp[s] = "handler"
  <2>1. /\ frames' = [frames EXCEPT ![t] = Append(frames[t], [sig |-> s, at |-> "disable"])]
        /\ disp' = [disp EXCEPT ![s] = "default"] /\ UNCHANGED <<blocked, ended>>
    BY <1>1 DEF Deliver
  <2>2. PICK q \in Seq(Frames) : q = frames[t]
    BY DEF Typed
  <2>3. PICK f \in Frames : f = [sig |-> s, at |-> "disable"]
    BY DEF Frames
  <2>4. /\ Append(q, f) \in Seq(Frames) /\ Len(Append(q, f)) = Len(q) + 1
        /\ Append(q, f)[Len(q) + 1] = f
    OBVIOUS
  <2>5. frames' = [frames EXCEPT ![t] = Append(q, f)]
    BY <2>1, <2>2, <2>3
  <2>6. /\ frames' \in [Threads -> Seq(Frames)] /\ frames'[t] = Append(q, f)
        /\ \A u \in Threads \ {t} : frames'[u] = frames[u]
    BY <2>4, <2>5 DEF Typed
  <2>7. Top(t)' = f.at
    BY <2>4, <2>6 DEF Top
  <2>8. f.at = "disable"
    BY <2>3
  <2> QED BY <1>1, <2>1, <2>2, <2>4, <2>6, <2>7, <2>8
<1>2. CASE disp[s] # "handler"
  BY <1>2 DEF Typed, Deliver, signal
<1> QED BY <1>1, <1>2

\* A handler moves on.
LEMMA MoveTopEffect ==
    ASSUME Typed, NEW t \in Threads, NEW to \in {"disable", "exit"}, frames[t] # <<>>, MoveTop(t, to)
    PROVE  /\ frames' \in [Threads -> Seq(Frames)]
           /\ Len(frames'[t]) = Len(frames[t]) /\ Top(t)' = to
           /\ \A u \in Threads \ {t} : frames'[u] = frames[u]
<1>1. PICK q \in Seq(Frames) : q = frames[t]
  BY DEF Typed
<1>2. PICK n \in 1 .. Len(q) : n = Len(q)
  <2>1. Len(q) \in 1 .. Len(q)
    BY <1>1, EmptySeq
  <2> QED BY <2>1
<1>3. PICK f \in Frames : f = [q[n] EXCEPT !.at = to]
  <2>1. q[n] \in Frames
    BY <1>2
  <2>2. [q[n] EXCEPT !.at = to] \in Frames
    BY <2>1 DEF Frames
  <2> QED BY <2>2
<1>4. PICK r \in Seq(Frames) : r = [q EXCEPT ![n] = f]
  BY <1>2, ExceptSeq
<1>5. Len(r) = n /\ r[n] = f
  BY <1>2, <1>4, ExceptSeq
<1>6. frames' = [frames EXCEPT ![t] = r]
  BY <1>1, <1>2, <1>3, <1>4 DEF MoveTop
<1>7. /\ frames' \in [Threads -> Seq(Frames)] /\ frames'[t] = r
      /\ \A u \in Threads \ {t} : frames'[u] = frames[u]
  BY <1>6 DEF Typed
<1>8. Top(t)' = f.at /\ f.at = to
  BY <1>2, <1>3, <1>5, <1>7 DEF Top, Frames
<1> QED BY <1>1, <1>2, <1>5, <1>7, <1>8

\* Handlers run and those still installed; before option parsing is over only
\* main() can be interrupted, and by SIGINT only.
Armed(s) == IF disp[s] = "handler" THEN 1 ELSE 0

Handlers ==
    /\ Len(frames["main"]) + Len(frames["count"]) + Armed("INT") + Armed("ABRT") <= 2
    /\ main = "install" =>
          Len(frames["main"]) + Armed("INT") <= 1 /\ frames["count"] = <<>> /\ disp["ABRT"] = "default"
    /\ rep = {} => frames["count"] = <<>>
    /\ main \in {"install", "open"} => rep = {}

\* Nothing but main() turns the stream on, and while it may still do so the report
\* thread has taken no interrupt; so where a handler is about to exit, the stream
\* is off.  Once installed, a handler is gone for one of few reasons.
Off ==
    /\ ~early =>
          /\ main \in {"setup", "enable"} => frames["count"] = <<>>
          /\ ended = "no" => \A t \in Threads : frames[t] # <<>> /\ Top(t) = "exit" => ~enable
    /\ main # "install" /\ disp["INT"] = "default" => ints >= 1
    /\ main # "install" /\ disp["ABRT"] = "default" =>
          errs >= 1 \/ (main = "abort" /\ frames["main"] # <<>>)
    /\ EndsDisabled

-----------------------------------------------------------------------------
(* Types *)

\* The types hold at the start.
LEMMA InitTyped == Init => Typed
<1> SUFFICES ASSUME Init PROVE Typed
  OBVIOUS
<1>1. sock \in Seq(Sent) /\ frames \in [Threads -> Seq(Frames)]
  BY EmptySeq DEF Init
<1>2. ndump \in {-1} \cup Nat /\ sent \in 0 .. MaxEvents
  BY BldConstants DEF Init
<1> QED BY <1>1, <1>2 DEF Init, Typed, Places, NoCounts, Counters, Signals

\* Every step keeps them.
LEMMA TypedNext == Typed /\ [Next]_vars => Typed'
<1> USE BldConstants
<1> SUFFICES ASSUME Typed, [Next]_vars PROVE Typed'
  OBVIOUS
<1>0. "main" \in Threads /\ "count" \in Threads /\ "INT" \in Signals /\ "ABRT" \in Signals
  BY DEF Threads, Signals
<1>1. CASE Send
  <2>1. PICK n \in 1 .. MaxEvents - sent, c \in Channels :
           /\ sent' = sent + n
           /\ LET len == IF Length(c, n) < BuffWords THEN Length(c, n) ELSE BuffWords
              IN  sock' \in {sock, Append(sock, [first |-> sent + 1, n |-> n, ch |-> c, len |-> len])}
    BY <1>1 DEF Send
  <2>2. PICK len \in Nat :
           /\ len = IF Length(c, n) < BuffWords THEN Length(c, n) ELSE BuffWords
           /\ FirstWords(c) <= len /\ len <= BuffWords
    <3>1. n \in Nat \ {0}
      BY DEF Typed
    <3>2. Length(c, n) \in Nat /\ FirstWords(c) <= Length(c, n) /\ FirstWords(c) \in Nat /\ FirstWords(c) <= BuffWords
      BY <3>1, Lengths
    <3> QED BY <3>2
  <2>3. PICK d \in Sent : d = [first |-> sent + 1, n |-> n, ch |-> c, len |-> len]
    <3>1. [first |-> sent + 1, n |-> n, ch |-> c, len |-> len] \in Sent
      BY <2>2 DEF Typed, Sent
    <3> QED BY <3>1
  <2>4. sock' \in {sock, Append(sock, d)}
    BY <2>1, <2>2, <2>3
  <2>5. sock' \in Seq(Sent)
    <3>1. sock \in Seq(Sent)
      BY DEF Typed
    <3>2. Append(sock, d) \in Seq(Sent)
      BY <3>1
    <3> QED BY <2>4, <3>1, <3>2
  <2>6. sent' \in 0 .. MaxEvents
    BY <2>1 DEF Typed
  <2> QED BY <1>1, <2>5, <2>6 DEF Send, signal, options, packet, counters, report, bounds, Typed
<1>2. CASE Interrupt
  <2>1. PICK t \in Threads : Deliver(t, "INT")
    BY <1>2 DEF Interrupt
  <2>2. /\ disp' \in [Signals -> {"default", "handler"}] /\ blocked' \subseteq Signals
        /\ frames' \in [Threads -> Seq(Frames)]
        /\ ended' \in {"no", "exited", "killed", "returned"}
    BY <1>0, <2>1, DeliverEffect DEF Typed
  <2> QED BY <1>2, <2>2 DEF Interrupt, stream, options, packet, counters, report, Typed
<1>3. CASE Install
  BY <1>3 DEF Install, stream, options, packet, counters, report, bounds, Typed, Places
<1>4. CASE Open
  BY <1>4 DEF Open, stream, signal, options, packet, counters, bounds, Typed, Places
<1>5. CASE Setup
  BY <1>5 DEF Setup, MainThrows, stream, signal, options, packet, counters, report, Typed, Places
<1>6. CASE Enable
  <2>1. enable' \in BOOLEAN /\ main' \in Places /\ errs' \in Nat
    <3>1. CASE enable' = TRUE /\ main' = "read" /\ UNCHANGED errs
      BY <3>1 DEF Typed, Places
    <3>2. CASE enable' \in {enable, TRUE} /\ MainThrows
      <4>1. enable \in BOOLEAN
        BY DEF Typed
      <4>2. enable' \in BOOLEAN
        BY <3>2, <4>1, Zenon
      <4> QED BY <3>2, <4>2 DEF Typed, Places, MainThrows
    <3> QED BY <1>6, <3>1, <3>2 DEF Enable
  <2> QED BY <1>6, <2>1 DEF Enable, stream, signal, options, packet, counters, report, Typed
<1>7. CASE Read
  <2>1. /\ sock' \in Seq(Sent) /\ dgram' \in Sent \cup {NoDgram}
    <3>1. CASE sock # <<>> /\ sock' = Tail(sock) /\ dgram' = Head(sock)
      BY <3>1, HeadTailProperties DEF Typed
    <3>2. CASE UNCHANGED <<sock, dgram>>
      BY <3>2 DEF Typed
    <3> QED BY <1>7, <3>1, <3>2 DEF Read
  <2>2. main' \in Places /\ ndump' \in {-1} \cup Nat /\ count' \in Nat
    <3>1. ndump \in {-1} \cup Nat /\ count \in Nat /\ main \in Places
      BY DEF Typed
    <3>2. main' \in Places
      BY <1>7 DEF Read, Places
    <3>3. ndump' \in {ndump, IF ndump > 0 THEN ndump - 1 ELSE ndump}
      BY <1>7 DEF Read
    <3>4. count' \in {count, count + 1}
      BY <1>7 DEF Read
    <3> QED BY <3>1, <3>2, <3>3, <3>4
  <2> QED BY <1>7, <2>1, <2>2 DEF Read, signal, report, bounds, Typed
<1>8. CASE Bytes
  <2>1. dgram.len \in Nat
    <3>1. CASE dgram \in Sent
      BY <3>1 DEF Sent
    <3>2. CASE dgram = NoDgram
      BY <3>2 DEF NoDgram
    <3> QED BY <3>1, <3>2 DEF Typed
  <2>2. bytes' \in Nat
    BY <1>8, <2>1 DEF Bytes, Typed
  <2> QED BY <1>8, <2>2 DEF Bytes, stream, signal, options, packet, report, bounds, Typed, Places
<1>9. CASE Event
  BY <1>9 DEF Event, stream, signal, options, report, bounds, Typed, Places
<1>10. CASE Abort
  <2>1. /\ disp' \in [Signals -> {"default", "handler"}] /\ blocked' \subseteq Signals
        /\ frames' \in [Threads -> Seq(Frames)]
        /\ ended' \in {"no", "exited", "killed", "returned"}
    BY <1>0, <1>10, DeliverEffect DEF Abort, Typed
  <2> QED BY <1>10, <2>1 DEF Abort, stream, options, packet, counters, report, bounds, Typed
<1>11. CASE Report
  <2>1. PICK i, r :
           /\ i \in 1 .. Len(ReadOrder)
           /\ r = [seen EXCEPT ![ReadOrder[i]] =
                      [count |-> count, event |-> event, bytes |-> bytes][ReadOrder[i]]]
           /\ seen' = r
           /\ IF rep = {ReadOrder[i]} THEN rep' = Counters /\ shown' = r
              ELSE rep' = rep \ {ReadOrder[i]} /\ UNCHANGED shown
    BY <1>11 DEF Report
  <2>2. r \in [count : Nat, event : Nat, bytes : Nat]
    <3>1. i = 1 \/ i = 2 \/ i = 3
      BY <2>1 DEF ReadOrder
    <3>2. ReadOrder[i] \in {"count", "event", "bytes"}
      BY <3>1 DEF ReadOrder
    <3>3. [count |-> count, event |-> event, bytes |-> bytes][ReadOrder[i]] \in Nat
      BY <3>2 DEF Typed
    <3> QED BY <2>1, <3>2, <3>3 DEF Typed
  <2>3. rep' \in SUBSET Counters
    BY <2>1 DEF Typed
  <2> QED BY <1>11, <2>1, <2>2, <2>3 DEF Report, stream, signal, options, packet, counters, bounds, Typed
<1>12. ASSUME NEW t \in Threads, HandlerDisable(t) PROVE Typed'
  <2>1. /\ disp' \in [Signals -> {"default", "handler"}] /\ blocked' \subseteq Signals
        /\ frames' \in [Threads -> Seq(Frames)]
        /\ ended' \in {"no", "exited", "killed", "returned"}
        /\ enable' \in BOOLEAN /\ errs' \in Nat
    <3>1. CASE enable' = FALSE /\ MoveTop(t, "exit") /\ UNCHANGED <<ended, disp, blocked, errs>>
      BY <1>12, <3>1, MoveTopEffect DEF HandlerDisable, Typed
    <3>2. CASE errs' = errs + 1 /\ enable' \in {enable, FALSE} /\ Deliver(t, "ABRT")
      <4>1. enable' \in BOOLEAN /\ errs' \in Nat
        <5>1. enable \in BOOLEAN /\ errs \in Nat
          BY DEF Typed
        <5>2. enable' \in BOOLEAN
          BY <3>2, <5>1, Zenon
        <5> QED BY <3>2, <5>1, <5>2
      <4>2. /\ disp' \in [Signals -> {"default", "handler"}] /\ blocked' \subseteq Signals
            /\ frames' \in [Threads -> Seq(Frames)]
            /\ ended' \in {"no", "exited", "killed", "returned"}
        BY <1>0, <3>2, DeliverEffect DEF Typed
      <4> QED BY <4>1, <4>2
    <3> QED BY <1>12, <3>1, <3>2 DEF HandlerDisable
  <2> QED BY <1>12, <2>1 DEF HandlerDisable, stream, options, packet, counters, report, Typed
<1>13. ASSUME NEW t \in Threads, HandlerExit(t) PROVE Typed'
  BY <1>13 DEF HandlerExit, stream, signal, options, packet, counters, report, bounds, Typed
<1>14. CASE UNCHANGED vars
  BY <1>14 DEF vars, stream, signal, options, packet, counters, report, bounds, Typed
<1> QED BY <1>1, <1>2, <1>3, <1>4, <1>5, <1>6, <1>7, <1>8, <1>9, <1>10, <1>11, <1>12, <1>13, <1>14
        DEF Next, Main, Handler

-----------------------------------------------------------------------------
(* The handlers, and what they leave of the stream *)

\* There are no more handlers than signals, from the start on.
LEMMA InitHandlers == Init => Handlers
BY BldConstants, EmptySeq DEF Init, Handlers, Armed, Signals, Threads

\* A signal that is delivered takes its handler out of use.
LEMMA DeliverCounts ==
    ASSUME Typed, NEW t \in Threads, NEW s \in Signals, Deliver(t, s)
    PROVE  /\ Len(frames["main"])' + Len(frames["count"])' + Armed("INT")' + Armed("ABRT")'
                 = Len(frames["main"]) + Len(frames["count"]) + Armed("INT") + Armed("ABRT")
           /\ t = "main" => frames["count"]' = frames["count"]
           /\ s = "INT" => disp["ABRT"]' = disp["ABRT"]
           /\ s = "INT" /\ t = "main" =>
                 Len(frames["main"])' + Armed("INT")' = Len(frames["main"]) + Armed("INT")
<1>1. PICK m \in Seq(Frames), c \in Seq(Frames) : m = frames["main"] /\ c = frames["count"]
  BY DEF Typed, Threads
<1>2. Len(m) \in Nat /\ Len(c) \in Nat
  OBVIOUS
<1>3. CASE disp[s] = "default" /\ ended' = "killed" /\ UNCHANGED <<disp, blocked, frames>>
  BY <1>3 DEF Armed
<1>4. CASE /\ disp[s] = "handler" /\ disp' = [disp EXCEPT ![s] = "default"]
           /\ frames' \in [Threads -> Seq(Frames)]
           /\ Len(frames'[t]) = Len(frames[t]) + 1 /\ Top(t)' = "disable"
           /\ \A u \in Threads \ {t} : frames'[u] = frames[u]
  <2>1. PICK n \in Seq(Frames), d \in Seq(Frames) : n = frames'["main"] /\ d = frames'["count"]
    BY <1>4 DEF Threads
  <2>2. Len(n) \in Nat /\ Len(d) \in Nat
    OBVIOUS
  <2>3. \/ t = "main" /\ Len(n) = Len(m) + 1 /\ d = c
        \/ t = "count" /\ Len(d) = Len(c) + 1 /\ n = m
    BY <1>1, <1>4, <2>1 DEF Threads
  <2>4. \/ s = "INT" /\ Armed("INT") = 1 /\ Armed("INT")' = 0 /\ disp'["ABRT"] = disp["ABRT"]
              /\ Armed("ABRT")' = Armed("ABRT")
        \/ s = "ABRT" /\ Armed("ABRT") = 1 /\ Armed("ABRT")' = 0 /\ Armed("INT")' = Armed("INT")
    BY <1>4 DEF Typed, Armed, Signals
  <2>5. PICK i \in Nat, a \in Nat : i = Armed("INT") /\ a = Armed("ABRT")
    BY DEF Armed
  <2>6. PICK j \in Nat, b \in Nat : j = Armed("INT")' /\ b = Armed("ABRT")'
    BY DEF Armed
  <2>7. \/ s = "INT" /\ i = 1 /\ j = 0 /\ disp'["ABRT"] = disp["ABRT"] /\ b = a
        \/ s = "ABRT" /\ a = 1 /\ b = 0 /\ j = i
    BY <2>4, <2>5, <2>6
  <2>8. PICK lm \in Nat, lc \in Nat, ln \in Nat, ld \in Nat :
           lm = Len(m) /\ lc = Len(c) /\ ln = Len(n) /\ ld = Len(d)
    BY <1>2, <2>2
  <2>9. /\ ln + ld + j + b = lm + lc + i + a
        /\ s = "INT" /\ t = "main" => ln + j = lm + i
    <3>1. s = "INT" \/ s = "ABRT"
      BY DEF Signals
    <3>2. (j + b) + 1 = i + a
      BY <2>7
    <3>3. ln + ld = (lm + lc) + 1
      BY <2>3, <2>8
    <3> QED BY <2>3, <2>7, <2>8, <3>1, <3>2, <3>3
  <2>10. t = "main" => d = c
    BY <2>3
  <2>11. s = "INT" => disp'["ABRT"] = disp["ABRT"]
    BY <2>7
  <2> QED BY <1>1, <2>1, <2>5, <2>6, <2>8, <2>9, <2>10, <2>11
<1> QED BY <1>3, <1>4, DeliverEffect

\* Every step keeps the number of handlers.
LEMMA HandlersNext == Typed /\ Handlers /\ [Next]_vars => Handlers'
<1> SUFFICES ASSUME Typed, Handlers, [Next]_vars PROVE Handlers'
  OBVIOUS
<1>0. "main" \in Threads /\ "count" \in Threads /\ "INT" \in Signals /\ "ABRT" \in Signals
  BY DEF Threads, Signals
<1>a. PICK m \in Seq(Frames), c \in Seq(Frames) : m = frames["main"] /\ c = frames["count"]
  BY DEF Typed, Threads
<1>b. Len(m) \in Nat /\ Len(c) \in Nat /\ (c = <<>> => Len(c) = 0) /\ (Len(c) = 0 => c = <<>>)
  BY EmptySeq
<1>c. Armed("INT") \in {0, 1} /\ Armed("ABRT") \in {0, 1}
  BY DEF Armed
<1>1. ASSUME UNCHANGED <<disp, frames, rep>>, main' \in {main, "setup", "enable", "read", "bytes", "event", "abort"},
             main = "install" => main' = "install"
      PROVE  Handlers'
  BY <1>1 DEF Handlers, Armed
<1>2. CASE Send
  BY <1>2, <1>1 DEF Send, signal, report
<1>3. CASE Interrupt
  <2>1. PICK t \in Threads : Exists(t) /\ Deliver(t, "INT")
    BY <1>3 DEF Interrupt
  <2>2. UNCHANGED <<main, rep>>
    BY <1>3 DEF Interrupt, report
  <2>3. t = "main" \/ (rep # {} /\ main \notin {"install", "open"})
    BY <2>1 DEF Exists, Handlers
  <2>4. PICK n \in Seq(Frames), d \in Seq(Frames) : n = frames'["main"] /\ d = frames'["count"]
    BY <1>0, <2>1, DeliverEffect DEF Typed
  <2>5. Len(n) \in Nat /\ Len(d) \in Nat
    OBVIOUS
  <2>6. Armed("INT")' \in {0, 1} /\ Armed("ABRT")' \in {0, 1}
    BY DEF Armed
  <2>7. /\ Len(n) + Len(d) + Armed("INT")' + Armed("ABRT")' = Len(m) + Len(c) + Armed("INT") + Armed("ABRT")
        /\ t = "main" => d = c /\ Len(n) + Armed("INT")' = Len(m) + Armed("INT")
        /\ disp'["ABRT"] = disp["ABRT"]
    BY <1>0, <1>a, <2>1, <2>4, DeliverCounts
  <2> QED BY <1>a, <1>b, <1>c, <2>2, <2>3, <2>4, <2>5, <2>6, <2>7 DEF Handlers
<1>4. CASE Install
  <2>1. UNCHANGED <<frames, rep>> /\ main = "install"
    BY <1>4 DEF Install, report, MainAt
  <2>2. CASE disp["INT"] = "default" /\ disp' = [disp EXCEPT !["INT"] = "handler"] /\ main' = main
    <3>1. /\ frames["main"] = <<>> /\ frames["count"] = <<>> /\ disp'["ABRT"] = "default"
          /\ disp'["INT"] = "handler"
      BY <1>0, <1>4, <2>2 DEF Install, MainAt, Running, Handlers, Typed
    <3> QED BY <2>1, <2>2, <3>1, EmptySeq DEF Handlers, Armed
  <2>3. CASE disp["INT"] # "default" /\ disp' = [disp EXCEPT !["ABRT"] = "handler"]
             /\ main' = IF disable THEN "abort" ELSE "open"
    <3>1. frames["main"] = <<>> /\ frames["count"] = <<>>
      BY <1>4, <2>3 DEF Install, MainAt, Running, Handlers
    <3>2. rep = {}
      BY <2>1 DEF Handlers
    <3> QED BY <2>1, <2>3, <3>1, <3>2, EmptySeq DEF Handlers, Armed
  <2> QED BY <1>4, <2>2, <2>3 DEF Install
<1>5. CASE Open
  <2>1. UNCHANGED <<disp, frames>> /\ main = "open" /\ rep = {}
    BY <1>5 DEF Open, signal, MainAt, Handlers
  <2>2. (main' = "setup" /\ rep' = Counters) \/ UNCHANGED <<main, rep>>
    BY <1>5 DEF Open
  <2> QED BY <2>1, <2>2 DEF Handlers, Armed
<1>6. CASE Setup
  BY <1>6, <1>1 DEF Setup, MainThrows, MainAt, signal, report
<1>7. CASE Enable
  BY <1>7, <1>1 DEF Enable, MainThrows, MainAt, signal, report
<1>8. CASE Read
  BY <1>8, <1>1 DEF Read, MainAt, signal, report
<1>9. CASE Bytes
  BY <1>9, <1>1 DEF Bytes, MainAt, signal, report
<1>10. CASE Event
  BY <1>10, <1>1 DEF Event, MainAt, signal, report
<1>11. CASE Abort
  <2>1. Deliver("main", "ABRT") /\ UNCHANGED <<main, rep>> /\ main = "abort"
    BY <1>11 DEF Abort, report, MainAt
  <2>4. PICK n \in Seq(Frames), d \in Seq(Frames) : n = frames'["main"] /\ d = frames'["count"]
    BY <1>0, <2>1, DeliverEffect DEF Typed
  <2>7. /\ Len(n) + Len(d) + Armed("INT")' + Armed("ABRT")' = Len(m) + Len(c) + Armed("INT") + Armed("ABRT")
        /\ d = c
    BY <1>0, <1>a, <2>1, <2>4, DeliverCounts
  <2> QED BY <1>a, <2>1, <2>4, <2>7 DEF Handlers
<1>12. CASE Report
  <2>1. PICK k : k \in rep /\ (rep' = Counters \/ (rep # {k} /\ rep' = rep \ {k}))
    BY <1>12 DEF Report
  <2>2. rep # {} /\ rep' # {}
    BY <2>1 DEF Counters
  <2>3. UNCHANGED <<disp, frames, main>>
    BY <1>12 DEF Report, signal
  <2> QED BY <2>2, <2>3 DEF Handlers, Armed
<1>13. ASSUME NEW t \in Threads, HandlerDisable(t) PROVE Handlers'
  <2>1. UNCHANGED <<main, rep>> /\ frames[t] # <<>>
    BY <1>13 DEF HandlerDisable, report
  <2>2. t = "main" \/ c # <<>>
    BY <1>a, <2>1 DEF Threads
  <2>3. CASE MoveTop(t, "exit") /\ UNCHANGED disp
    <3>1. /\ frames' \in [Threads -> Seq(Frames)] /\ Len(frames'[t]) = Len(frames[t])
          /\ \A u \in Threads \ {t} : frames'[u] = frames[u]
      BY <2>1, <2>3, MoveTopEffect
    <3>2. PICK n \in Seq(Frames), d \in Seq(Frames) : n = frames'["main"] /\ d = frames'["count"]
      BY <3>1 DEF Threads
    <3>3. Len(n) = Len(m) /\ Len(d) = Len(c)
      BY <1>a, <3>1, <3>2 DEF Threads
    <3>4. c = <<>> => d = <<>>
      BY <1>b, <3>3, EmptySeq
    <3> QED BY <1>a, <2>1, <2>3, <3>2, <3>3, <3>4 DEF Handlers, Armed
  <2>4. CASE Deliver(t, "ABRT")
    <3>1. PICK n \in Seq(Frames), d \in Seq(Frames) : n = frames'["main"] /\ d = frames'["count"]
      BY <1>0, <2>4, DeliverEffect DEF Typed
    <3>2. /\ Len(n) + Len(d) + Armed("INT")' + Armed("ABRT")' = Len(m) + Len(c) + Armed("INT") + Armed("ABRT")
          /\ t = "main" => d = c
      BY <1>0, <1>a, <2>4, <3>1, DeliverCounts
    <3>3. main = "install" => disp["ABRT"] = "default" /\ c = <<>>
      BY <1>a DEF Handlers
    <3>4. main = "install" => UNCHANGED <<disp, frames>>
      BY <1>0, <2>4, <3>3, DeliverEffect
    <3>5. CASE main = "install"
      BY <2>1, <3>4, <3>5 DEF Handlers, Armed
    <3>6. CASE main # "install"
      <4>1. rep = {} => c = <<>>
        BY <1>a DEF Handlers
      <4>2. rep = {} => d = <<>>
        BY <2>2, <3>2, <4>1
      <4> QED BY <1>a, <2>1, <3>1, <3>2, <3>6, <4>2 DEF Handlers
    <3> QED BY <3>5, <3>6
  <2> QED BY <1>13, <2>3, <2>4 DEF HandlerDisable
<1>14. ASSUME NEW t \in Threads, HandlerExit(t) PROVE Handlers'
  BY <1>1, <1>14 DEF HandlerExit, signal, report
<1>15. CASE UNCHANGED vars
  BY <1>1, <1>15 DEF vars, signal, report
<1> QED BY <1>2, <1>3, <1>4, <1>5, <1>6, <1>7, <1>8, <1>9, <1>10, <1>11, <1>12, <1>13, <1>14, <1>15
        DEF Next, Main, Handler

-----------------------------------------------------------------------------

\* Every step keeps what a handler that is about to exit has done, and why
\* another is no longer installed.
LEMMA OffNext == Typed /\ Handlers /\ Off /\ [Next]_vars => Off'
<1> SUFFICES ASSUME Typed, Handlers, Off, [Next]_vars PROVE Off'
  OBVIOUS
<1>0. "main" \in Threads /\ "count" \in Threads /\ "INT" \in Signals /\ "ABRT" \in Signals
  BY DEF Threads, Signals
<1>1. ASSUME ended = "no", ended' \in {"no", "returned"}, errs' \in {errs, errs + 1},
             UNCHANGED <<frames, disp, early, ints, enable>>,
             main = "install" => main' = "install",
             main' \in {"setup", "enable"} => main \in {"setup", "enable"},
             main = "abort" => main' = "abort"
      PROVE  Off'
  <2>1. errs >= 1 => errs' >= 1
    BY <1>1 DEF Typed
  <2> QED BY <1>1, <2>1 DEF Off, EndsDisabled, Top
<1>2. ASSUME NEW t \in Threads, ended = "no", UNCHANGED <<ended, main>>,
             frames' \in [Threads -> Seq(Frames)], Len(frames'[t]) = Len(frames[t]) + 1,
             Top(t)' = "disable", \A u \in Threads \ {t} : frames'[u] = frames[u],
             enable' \in {enable, FALSE}, ~early' => ~early,
             ~early' /\ main \in {"setup", "enable"} => t = "main" \/ frames["count"] # <<>>
      PROVE  /\ ~early' =>
                   /\ main' \in {"setup", "enable"} => frames'["count"] = <<>>
                   /\ ended' = "no" => \A u \in Threads : frames'[u] # <<>> /\ Top(u)' = "exit" => ~enable'
             /\ EndsDisabled'
             /\ frames["main"] # <<>> \/ t = "main" => frames'["main"] # <<>>
  <2>1. PICK q \in Seq(Frames), r \in Seq(Frames) : q = frames[t] /\ r = frames'[t]
    BY <1>2 DEF Typed
  <2>2. r # <<>>
    BY <1>2, <2>1, EmptySeq
  <2>3. frames["main"] # <<>> \/ t = "main" => frames'["main"] # <<>>
    BY <1>0, <1>2, <2>1, <2>2
  <2>4. ASSUME ~early', main' \in {"setup", "enable"} PROVE frames'["count"] = <<>>
    BY <1>0, <1>2, <2>4 DEF Off, Threads
  <2>5. ASSUME NEW u \in Threads, ~early', frames'[u] # <<>>, Top(u)' = "exit" PROVE ~enable'
    <3>1. u # t
      BY <1>2, <2>5
    <3>2. frames[u] # <<>> /\ Top(u) = "exit"
      BY <1>2, <2>5, <3>1 DEF Top
    <3>3. ~enable
      BY <1>2, <2>5, <3>2 DEF Off
    <3> QED BY <1>2, <3>3
  <2> QED BY <1>2, <2>3, <2>4, <2>5 DEF EndsDisabled
<1>3. ASSUME ended' = "killed", UNCHANGED <<disp, frames, main>>, ~early' => ~early,
             ints >= 1 => ints' >= 1, errs >= 1 => errs' >= 1,
             ~early' => ints' > 1 \/ errs' > 1 \/ main = "install" \/ (errs' = 1 /\ main = "abort")
      PROVE  Off'
  BY <1>3 DEF Off, EndsDisabled
<1>4. CASE Send
  BY <1>1, <1>4 DEF Send, signal, bounds
<1>5. CASE Interrupt
  <2>1. PICK t \in Threads :
           /\ Deliver(t, "INT")
           /\ early' = (early \/ (t = "count" /\ main \in {"setup", "enable"}))
    BY <1>5 DEF Interrupt
  <2>2. ended = "no" /\ ints' = ints + 1 /\ UNCHANGED <<enable, main, errs>> /\ ints \in Nat
    BY <1>5 DEF Interrupt, Typed
  <2>3. ~early' => ~early /\ (t = "count" => main \notin {"setup", "enable"})
    BY <2>1
  <2>4. CASE disp["INT"] = "default" /\ ended' = "killed" /\ UNCHANGED <<disp, blocked, frames>>
    <3>1. main = "install" \/ ints >= 1
      BY <2>4 DEF Off
    <3> QED BY <1>3, <2>2, <2>3, <2>4, <3>1
  <2>5. CASE /\ disp["INT"] = "handler" /\ disp' = [disp EXCEPT !["INT"] = "default"]
             /\ frames' \in [Threads -> Seq(Frames)]
             /\ Len(frames'[t]) = Len(frames[t]) + 1 /\ Top(t)' = "disable"
             /\ \A u \in Threads \ {t} : frames'[u] = frames[u]
             /\ UNCHANGED <<blocked, ended>>
    <3>1. t = "main" \/ t = "count"
      BY DEF Threads
    <3>2. /\ ~early' =>
                /\ main' \in {"setup", "enable"} => frames'["count"] = <<>>
                /\ ended' = "no" => \A u \in Threads : frames'[u] # <<>> /\ Top(u)' = "exit" => ~enable'
          /\ EndsDisabled'
          /\ frames["main"] # <<>> => frames'["main"] # <<>>
      BY <1>2, <2>2, <2>3, <2>5, <3>1
    <3>3. disp'["ABRT"] = disp["ABRT"] /\ ints' >= 1
      BY <1>0, <2>2, <2>5 DEF Typed
    <3>4. main # "install" /\ disp["ABRT"] = "default" =>
             errs >= 1 \/ (main = "abort" /\ frames["main"] # <<>>)
      BY DEF Off
    <3> QED BY <2>2, <3>2, <3>3, <3>4 DEF Off
  <2> QED BY <1>0, <2>1, <2>4, <2>5, DeliverEffect
<1>6. CASE Install
  <2>1. /\ main = "install" /\ ended = "no" /\ frames["main"] = <<>>
        /\ UNCHANGED <<frames, ended, enable, early, ints, errs>>
    BY <1>6 DEF Install, MainAt, Running, bounds
  <2>2. CASE disp["INT"] = "default" /\ main' = main
    BY <2>1, <2>2 DEF Off, EndsDisabled, Top
  <2>3. CASE disp["INT"] # "default" /\ disp' = [disp EXCEPT !["ABRT"] = "handler"]
             /\ main' \in {"abort", "open"}
    <3>1. disp'["INT"] # "default" /\ disp'["ABRT"] # "default"
      BY <1>0, <2>3 DEF Typed
    <3> QED BY <2>1, <2>3, <3>1 DEF Off, EndsDisabled, Top
  <2> QED BY <1>6, <2>2, <2>3 DEF Install
<1>7. CASE Open
  <2>1. /\ main = "open" /\ ended = "no" /\ frames["count"] = <<>>
        /\ UNCHANGED <<frames, disp, enable, early, ints, errs>>
    BY <1>7 DEF Open, MainAt, Running, bounds, signal, Handlers
  <2>2. CASE main' = "setup" /\ UNCHANGED ended
    BY <2>1, <2>2 DEF Off, EndsDisabled, Top
  <2>3. CASE ended' = "returned" /\ UNCHANGED main
    BY <1>1, <2>1, <2>3
  <2> QED BY <1>7, <2>2, <2>3 DEF Open
<1>8. CASE Setup
  BY <1>1, <1>8 DEF Setup, MainThrows, MainAt, Running, signal
<1>9. CASE Enable
  <2>1. /\ main = "enable" /\ frames["main"] = <<>> /\ ended = "no"
        /\ UNCHANGED <<frames, ended, disp, early, ints>> /\ main' \in {"read", "abort"}
        /\ errs' \in {errs, errs + 1}
    BY <1>9 DEF Enable, MainThrows, signal, MainAt, Running
  <2>2. ~early => \A t \in Threads : frames[t] = <<>>
    BY <2>1 DEF Off, Threads
  <2>3. errs >= 1 => errs' >= 1
    BY <2>1 DEF Typed
  <2> QED BY <2>1, <2>2, <2>3 DEF Off, EndsDisabled
<1>10. CASE Read
  BY <1>1, <1>10 DEF Read, MainAt, Running, signal, bounds
<1>11. CASE Bytes
  BY <1>1, <1>11 DEF Bytes, MainAt, Running, signal, bounds
<1>12. CASE Event
  BY <1>1, <1>12 DEF Event, MainAt, Running, signal, bounds
<1>13. CASE Abort
  <2>1. /\ main = "abort" /\ frames["main"] = <<>> /\ ended = "no" /\ Deliver("main", "ABRT")
        /\ UNCHANGED <<enable, main, ints, early, errs>> /\ errs \in Nat
    BY <1>13 DEF Abort, MainAt, Running, bounds, Typed
  <2>2. CASE disp["ABRT"] = "default" /\ ended' = "killed" /\ UNCHANGED <<disp, blocked, frames>>
    <3>1. errs >= 1
      BY <2>1, <2>2 DEF Off
    <3>2. errs' > 1 \/ errs' = 1
      BY <2>1, <3>1
    <3> QED BY <1>3, <2>1, <2>2, <3>2
  <2>3. CASE /\ disp["ABRT"] = "handler" /\ disp' = [disp EXCEPT !["ABRT"] = "default"]
             /\ frames' \in [Threads -> Seq(Frames)]
             /\ Len(frames'["main"]) = Len(frames["main"]) + 1 /\ Top("main")' = "disable"
             /\ \A u \in Threads \ {"main"} : frames'[u] = frames[u]
             /\ UNCHANGED <<blocked, ended>>
    <3>1. /\ ~early' =>
                /\ main' \in {"setup", "enable"} => frames'["count"] = <<>>
                /\ ended' = "no" => \A u \in Threads : frames'[u] # <<>> /\ Top(u)' = "exit" => ~enable'
          /\ EndsDisabled'
          /\ frames'["main"] # <<>>
      BY <1>0, <1>2, <2>1, <2>3
    <3>2. disp'["INT"] = disp["INT"]
      BY <1>0, <2>3 DEF Typed
    <3> QED BY <2>1, <3>1, <3>2 DEF Off
  <2> QED BY <1>0, <2>1, <2>2, <2>3, DeliverEffect
<1>14. CASE Report
  BY <1>1, <1>14 DEF Report, Running, signal, bounds
<1>15. ASSUME NEW t \in Threads, HandlerDisable(t) PROVE Off'
  <2>1. ended = "no" /\ frames[t] # <<>> /\ UNCHANGED <<main, ints, early>> /\ errs \in Nat
    BY <1>15 DEF HandlerDisable, Typed
  <2>2. CASE enable' = FALSE /\ MoveTop(t, "exit") /\ UNCHANGED <<ended, disp, blocked, errs>>
    <3>1. /\ frames' \in [Threads -> Seq(Frames)] /\ Len(frames'[t]) = Len(frames[t])
          /\ \A u \in Threads \ {t} : frames'[u] = frames[u]
      BY <2>1, <2>2, MoveTopEffect
    <3>2. PICK q \in Seq(Frames), r \in Seq(Frames) : q = frames[t] /\ r = frames'[t]
      BY <3>1 DEF Typed
    <3>3. r # <<>>
      BY <2>1, <3>1, <3>2, EmptySeq
    <3>4. /\ frames["main"] # <<>> => frames'["main"] # <<>>
          /\ frames["count"] = <<>> => frames'["count"] = <<>>
      BY <1>0, <2>1, <3>1, <3>2, <3>3
    <3> QED BY <2>1, <2>2, <3>4 DEF Off, EndsDisabled
  <2>3. CASE errs' = errs + 1 /\ enable' \in {enable, FALSE} /\ Deliver(t, "ABRT")
    <3>1. errs' >= 1
      BY <2>1, <2>3
    <3>2. CASE disp["ABRT"] = "default" /\ ended' = "killed" /\ UNCHANGED <<disp, blocked, frames>>
      <4>1. main = "install" \/ errs >= 1 \/ main = "abort"
        BY <3>2 DEF Off
      <4>2. main = "install" \/ errs' > 1 \/ (errs' = 1 /\ main = "abort")
        BY <2>1, <2>3, <4>1
      <4> QED BY <1>3, <2>1, <3>1, <3>2, <4>2
    <3>3. CASE /\ disp["ABRT"] = "handler" /\ disp' = [disp EXCEPT !["ABRT"] = "default"]
               /\ frames' \in [Threads -> Seq(Frames)]
               /\ Len(frames'[t]) = Len(frames[t]) + 1 /\ Top(t)' = "disable"
               /\ \A u \in Threads \ {t} : frames'[u] = frames[u]
               /\ UNCHANGED <<blocked, ended>>
      <4>1. t = "main" \/ frames["count"] # <<>>
        BY <2>1 DEF Threads
      <4>2. /\ ~early' =>
                  /\ main' \in {"setup", "enable"} => frames'["count"] = <<>>
                  /\ ended' = "no" => \A u \in Threads : frames'[u] # <<>> /\ Top(u)' = "exit" => ~enable'
            /\ EndsDisabled'
        BY <1>2, <2>1, <2>3, <3>3, <4>1
      <4>3. disp'["INT"] = disp["INT"]
        BY <1>0, <3>3 DEF Typed
      <4> QED BY <2>1, <3>1, <4>2, <4>3 DEF Off
    <3> QED BY <1>0, <2>3, <3>2, <3>3, DeliverEffect
  <2> QED BY <1>15, <2>2, <2>3 DEF HandlerDisable
<1>16. ASSUME NEW t \in Threads, HandlerExit(t) PROVE Off'
  <2>1. /\ ended = "no" /\ frames[t] # <<>> /\ Top(t) = "exit" /\ ended' = "exited"
        /\ UNCHANGED <<enable, frames, disp, main, early, ints, errs>>
    BY <1>16 DEF HandlerExit, signal, bounds
  <2>2. ~early => ~enable
    BY <2>1 DEF Off
  <2> QED BY <2>1, <2>2 DEF Off, EndsDisabled
<1>17. CASE UNCHANGED vars
  BY <1>17 DEF vars, signal, bounds, Off, EndsDisabled, Top
<1> QED BY <1>4, <1>5, <1>6, <1>7, <1>8, <1>9, <1>10, <1>11, <1>12, <1>13, <1>14, <1>15, <1>16, <1>17
        DEF Next, Main, Handler

\* Once the handlers are installed the process leaves the stream disabled, on
\* whichever thread the interrupts are taken, but for an interrupt the report
\* thread takes before main() has enabled the stream, a second interrupt, a
\* second access that throws, or one after main() has aborted itself.
THEOREM LeavesDisabled == Spec => []EndsDisabled
<1>1. Init => Off
  BY DEF Init, Off, EndsDisabled, Threads
<1>2. Off => EndsDisabled
  BY DEF Off
<1> QED BY <1>1, <1>2, InitTyped, TypedNext, InitHandlers, HandlersNext, OffNext, PTL DEF Spec

-----------------------------------------------------------------------------
(* The iterator of events *)

\* Quotient and remainder of m whole parts of c words and r words more.
LEMMA PartsAndRest ==
    ASSUME NEW m \in Nat, NEW c \in Nat \ {0}, NEW r \in Nat, r < c
    PROVE  m * c \in Nat /\ (m * c + r) \div c = m /\ (m * c + r) % c = r
<1> DEFINE q == (m * c + r) \div c
<1>1. m * c \in Nat
  OBVIOUS
<1>2. q \in Nat /\ q * c <= m * c + r /\ m * c + r < q * c + c /\ (m * c + r) % c = (m * c + r) - q * c
  BY <1>1
<1> HIDE DEF q
<1>3. ~(q + 1 <= m)
  <2>1. ASSUME q + 1 <= m PROVE FALSE
    <3>1. (q + 1) * c <= m * c
      BY <1>2, <2>1, TimesMonotone
    <3>2. (q + 1) * c = q * c + c /\ q * c \in Nat
      BY <1>2
    <3> QED BY <1>1, <1>2, <3>1, <3>2
  <2> QED BY <2>1
<1>4. ~(m + 1 <= q)
  <2>1. ASSUME m + 1 <= q PROVE FALSE
    <3>1. (m + 1) * c <= q * c
      BY <1>2, <2>1, TimesMonotone
    <3>2. (m + 1) * c = m * c + c /\ q * c \in Nat
      BY <1>2
    <3> QED BY <1>1, <1>2, <3>1, <3>2
  <2> QED BY <2>1
<1>5. q = m
  BY <1>2, <1>3, <1>4
<1> QED BY <1>1, <1>2, <1>5 DEF q

\* The word of an event after the first, counted from where the event begins.
LEMMA WordOfNext ==
    ASSUME NEW d \in Sent, NEW k \in Nat \ {0}, NEW r \in Nat, r < NextWords(d.ch)
    PROVE  Word(d, Length(d.ch, k) + r) = [event |-> d.first + k, field |-> NextField(d.ch, r)]
<1>0. d.ch \in Channels
  BY DEF Sent
<1>1. PICK w \in Nat \ {0}, f \in Nat : w = NextWords(d.ch) /\ f = FirstWords(d.ch)
  BY <1>0, Lengths
<1>2. k - 1 \in Nat
  OBVIOUS
<1>3. (k - 1) * w \in Nat /\ ((k - 1) * w + r) \div w = k - 1 /\ ((k - 1) * w + r) % w = r
  BY <1>1, <1>2, PartsAndRest
<1>4. PICK x \in Nat : x = (k - 1) * w
  BY <1>3
<1>5. Length(d.ch, k) + r = f + x + r /\ (f + x + r) - f = x + r /\ ~(x + r < 0)
  BY <1>1, <1>4 DEF Length
<1>6. d.first \in Nat
  BY BldConstants DEF Sent
<1>7. /\ ((f + x + r) - f) \div w = k - 1 /\ ((f + x + r) - f) % w = r
  BY <1>3, <1>4, <1>5
<1>8. d.first + 1 + (k - 1) = d.first + k
  BY <1>6
<1> QED BY <1>1, <1>5, <1>7, <1>8 DEF Word

\* The words an event is unpacked from are the words it was packed in: the
\* first one's at the start, another's where the events before it end.
LEMMA UnpackIsPacked ==
    ASSUME dgram \in Sent, NEW k \in Nat, at = IF k = 0 THEN 0 ELSE Length(dgram.ch, k)
    PROVE  Unpack = Packed(dgram, k + 1) /\ Unpack.next = Length(dgram.ch, k + 1)
<1> DEFINE w(i) == Word(dgram, i)
           b == [event |-> dgram.first, field |-> "time"]
           p == [event |-> dgram.first, field |-> "pulse"]
<1>0. PICK c \in Channels : c = dgram.ch /\ c \in Nat /\ dgram.first \in Nat
  <2>1. dgram.ch \in Channels /\ dgram.first \in Nat
    BY DEF Sent
  <2> QED BY <2>1, BldConstants
<1>1. w(0) = b /\ w(1) = b /\ w(2) = p /\ w(3) = p
  BY <1>0 DEF Word, FirstWords, FirstField
<1>2. CASE k = 0
  <2>1. w(5) = [event |-> dgram.first, field |-> "beam"]
    BY <1>0 DEF Word, FirstWords, FirstField
  <2>2. w(6 + c) = [event |-> dgram.first, field |-> "valid"]
    BY <1>0 DEF Word, FirstWords, FirstField
  <2>3. Length(c, 1) = 7 + c
    BY <1>0, Lengths DEF Length
  <2>4. dgram.first + 1 - 1 = dgram.first
    BY <1>0
  <2>5. Unpack = [base |-> <<b, b, p, p>>, own |-> <<>>,
                  beam |-> w(5), valid |-> w(6 + c), next |-> 7 + c]
    BY <1>0, <1>1, <1>2 DEF Unpack
  <2>6. Packed(dgram, 1) = [base |-> <<b, b, p, p>>, own |-> <<>>,
                            beam |-> w(5), valid |-> w(6 + c), next |-> 7 + c]
    BY <1>0, <2>1, <2>2, <2>3, <2>4 DEF Packed
  <2> HIDE DEF w, b, p
  <2>7. Unpack.next = 7 + c
    BY <2>5
  <2>8. Unpack = Packed(dgram, 1)
    BY <2>5, <2>6
  <2> QED BY <1>0, <1>2, <2>3, <2>7, <2>8
<1>3. CASE k # 0
  <2>1. at = Length(c, k) /\ at # 0 /\ Length(c, k) \in Nat
    <3>1. Length(c, k) \in Nat /\ FirstWords(c) <= Length(c, k) /\ FirstWords(c) \in Nat \ {0}
      BY <1>3, Lengths
    <3> QED BY <1>0, <1>3, <3>1
  <2>2. NextWords(c) = 3 + c
    BY Lengths
  <2>3. w(at) = [event |-> dgram.first + k, field |-> "delta"]
    <3>1. w(Length(c, k) + 0) = [event |-> dgram.first + k, field |-> NextField(c, 0)]
      BY <1>0, <1>3, <2>2, WordOfNext
    <3>2. NextField(c, 0) = "delta" /\ Length(c, k) + 0 = at
      BY <2>1 DEF NextField
    <3> QED BY <3>1, <3>2
  <2>4. w(at + 1) = [event |-> dgram.first + k, field |-> "beam"]
    <3>1. w(Length(c, k) + 1) = [event |-> dgram.first + k, field |-> NextField(c, 1)]
      BY <1>0, <1>3, <2>2, WordOfNext
    <3>2. NextField(c, 1) = "beam"
      BY DEF NextField
    <3> QED BY <2>1, <3>1, <3>2
  <2>5. w(at + 2 + c) = [event |-> dgram.first + k, field |-> "valid"]
    <3>1. w(Length(c, k) + (2 + c)) = [event |-> dgram.first + k, field |-> NextField(c, 2 + c)]
      BY <1>0, <1>3, <2>2, WordOfNext
    <3>2. NextField(c, 2 + c) = "valid"
      BY <1>0 DEF NextField
    <3>3. Length(c, k) + (2 + c) = at + 2 + c
      BY <1>0, <2>1
    <3> QED BY <3>1, <3>2, <3>3
  <2>6. at + 3 + c = Length(c, k + 1)
    <3>1. Length(c, k + 1) = Length(c, k) + NextWords(c)
      BY <1>3, Lengths
    <3> QED BY <1>0, <2>1, <2>2, <3>1
  <2>7. dgram.first + (k + 1) - 1 = dgram.first + k
    BY <1>0
  <2>8. Unpack = [base |-> <<b, b, p, p>>, own |-> <<w(at)>>,
                  beam |-> w(at + 1), valid |-> w(at + 2 + c), next |-> at + 3 + c]
    BY <1>0, <1>1, <2>1 DEF Unpack
  <2>a. k + 1 # 1 /\ Length(dgram.ch, k + 1) = at + 3 + c
    BY <1>0, <1>3, <2>6
  <2>9. Packed(dgram, k + 1) =
           [base |-> <<b, b, p, p>>, own |-> <<w(at)>>,
            beam |-> w(at + 1), valid |-> w(at + 2 + c), next |-> at + 3 + c]
    BY <2>3, <2>4, <2>5, <2>7, <2>a DEF Packed
  <2> HIDE DEF w, b, p
  <2>10. Unpack.next = at + 3 + c
    BY <2>8
  <2>11. Unpack = Packed(dgram, k + 1)
    BY <2>8, <2>9
  <2> QED BY <2>10, <2>11, <2>a
<1> QED BY <1>2, <1>3

\* The events of a datagram that were packed first.
Leading(d, k) == [j \in 1 .. k |-> Packed(d, j)]

\* They are k events, and the next one follows them.
LEMMA LeadingGrows ==
    ASSUME NEW d, NEW k \in Nat
    PROVE  /\ Leading(d, k) \in Seq({Packed(d, j) : j \in 1 .. k})
           /\ Len(Leading(d, k)) = k
           /\ Append(Leading(d, k), Packed(d, k + 1)) = Leading(d, k + 1)
<1> DEFINE S == {Packed(d, j) : j \in 1 .. k + 1}
<1>1. PICK f : f = [j \in 1 .. k + 1 |-> Packed(d, j)]
  OBVIOUS
<1>2. \A j \in 1 .. k + 1 : f[j] = Packed(d, j)
  BY <1>1
<1>3. PICK g : g = [j \in 1 .. k |-> f[j]]
  OBVIOUS
<1>4. g = Leading(d, k) /\ f = Leading(d, k + 1) /\ f[k + 1] = Packed(d, k + 1)
  BY <1>1, <1>2, <1>3 DEF Leading
<1>5. PICK T : T = {Packed(d, j) : j \in 1 .. k}
  OBVIOUS
<1>6. g \in Seq(T) /\ Len(g) = k
  <2>1. g \in [1 .. k -> T]
    BY <1>2, <1>3, <1>5
  <2> QED BY <2>1
<1>7. f \in [1 .. k + 1 -> S]
  BY <1>1
<1> HIDE DEF S
<1>8. f \in Seq(S) /\ Len(f) = k + 1
  BY <1>7
<1>9. g \in [1 .. k -> S] /\ f[k + 1] \in S
  BY <1>3, <1>7
<1>10. g \in Seq(S) /\ Len(g) = k
  BY <1>9
<1>11. PICK h : h = Append(g, f[k + 1])
  OBVIOUS
<1>12. h \in Seq(S) /\ Len(h) = k + 1 /\ \A j \in 1 .. k + 1 : h[j] = f[j]
  BY <1>3, <1>9, <1>10, <1>11
<1>13. h = f
  BY <1>8, <1>12, SeqEqual
<1> QED BY <1>4, <1>5, <1>6, <1>11, <1>13

\* The first k events are unpacked.
Unpacked(k) == got = Leading(dgram, k) /\ at = IF k = 0 THEN 0 ELSE Length(dgram.ch, k)

\* The iterator is between two events of the datagram, and past the last one
\* when main() goes back to read(); it goes on only in a datagram of whole events.
Unpacking ==
    \E k \in Nat :
       /\ Unpacked(k)
       /\ k # 0 => dgram \in Sent /\ at <= dgram.len
       /\ main \in {"install", "open", "setup", "enable"} => k = 0
       /\ main = "bytes" => dgram \in Sent /\ k = 0
       /\ main = "event" =>
             dgram \in Sent /\ ((dgram.len - FirstWords(dgram.ch)) % NextWords(dgram.ch)) = 0 /\ at < dgram.len
       /\ main = "read" /\ k # 0 => at = dgram.len

\* No event is unpacked before the first.
LEMMA NothingUnpacked == \A d : Leading(d, 0) = <<>>
BY DEF Leading

\* In a datagram of whole events the next event ends within the datagram.
LEMMA NextEnds ==
    ASSUME NEW c \in Channels, NEW len \in Nat, NEW k \in Nat, FirstWords(c) <= len,
           ((len - FirstWords(c)) % NextWords(c)) = 0, k # 0 => Length(c, k) < len
    PROVE  Length(c, k + 1) \in Nat /\ Length(c, k + 1) <= len
<1>1. PICK w \in Nat \ {0}, f \in Nat : w = NextWords(c) /\ f = FirstWords(c)
  BY Lengths
<1>2. PICK x \in Nat : x = len - f
  BY <1>1
<1>3. PICK m \in Nat : x = m * w
  <2>1. x % w = 0
    BY <1>1, <1>2
  <2>2. x \div w \in Nat /\ x = (x \div w) * w
    BY <2>1
  <2> QED BY <2>2
<1>4. Length(c, k + 1) = f + k * w /\ k * w \in Nat
  <2>1. (k + 1) - 1 = k
    OBVIOUS
  <2> QED BY <1>1, <2>1 DEF Length
<1>5. k <= m
  <2>1. CASE k = 0
    BY <2>1
  <2>2. CASE k # 0
    <3>1. k - 1 \in Nat /\ (k - 1) * w \in Nat /\ Length(c, k) = f + (k - 1) * w
      BY <1>1, <2>2 DEF Length
    <3>2. (k - 1) * w < x
      <4>1. PICK y \in Nat : y = (k - 1) * w
        BY <3>1
      <4>2. f + y < len
        BY <2>2, <3>1, <4>1
      <4> QED BY <1>2, <4>1, <4>2
    <3>3. ~(m <= k - 1)
      <4>1. ASSUME m <= k - 1 PROVE FALSE
        <5>1. m * w <= (k - 1) * w
          BY <3>1, <4>1, TimesMonotone
        <5> QED BY <1>3, <3>1, <3>2, <5>1
      <4> QED BY <4>1
    <3> QED BY <3>3
  <2> QED BY <2>1, <2>2
<1>6. k * w <= m * w
  BY <1>5, TimesMonotone
<1>7. PICK y \in Nat : y = k * w
  BY <1>4
<1>8. y <= x /\ f + x = len
  BY <1>1, <1>2, <1>3, <1>6, <1>7
<1> QED BY <1>4, <1>7, <1>8

\* The iterator has not begun when there is no datagram.
LEMMA InitUnpacking == Init => Unpacking
BY NothingUnpacked DEF Init, Unpacking, Unpacked

\* Every step leaves the iterator between two events.
LEMMA UnpackingNext == Typed /\ Unpacking /\ [Next]_vars => Unpacking'
<1> SUFFICES ASSUME Typed, Unpacking, [Next]_vars PROVE Unpacking'
  OBVIOUS
<1>0. PICK k \in Nat :
         /\ Unpacked(k)
         /\ k # 0 => dgram \in Sent /\ at <= dgram.len
         /\ main \in {"install", "open", "setup", "enable"} => k = 0
         /\ main = "bytes" => dgram \in Sent /\ k = 0
         /\ main = "event" =>
               dgram \in Sent /\ ((dgram.len - FirstWords(dgram.ch)) % NextWords(dgram.ch)) = 0 /\ at < dgram.len
         /\ main = "read" /\ k # 0 => at = dgram.len
  BY DEF Unpacking
<1>1. ASSUME UNCHANGED packet, main' \in {main, "abort"}
      PROVE  Unpacking'
  BY <1>0, <1>1 DEF Unpacking, Unpacked, packet
<1>16. ASSUME UNCHANGED packet, main \in {"install", "open", "setup"},
              main' \in {"install", "open", "setup", "enable", "abort"}
       PROVE  Unpacking'
  <2>1. k = 0
    BY <1>0, <1>16
  <2> QED BY <1>0, <1>16, <2>1 DEF Unpacking, Unpacked, packet
<1>2. CASE Send
  BY <1>1, <1>2 DEF Send
<1>3. CASE Interrupt
  BY <1>1, <1>3 DEF Interrupt
<1>4. CASE Install
  BY <1>16, <1>4 DEF Install, MainAt
<1>5. CASE Open
  BY <1>16, <1>5 DEF Open, MainAt
<1>6. CASE Setup
  BY <1>16, <1>6 DEF Setup, MainThrows, MainAt
<1>7. CASE Enable
  <2>1. CASE main' = "read" /\ UNCHANGED packet
    <3>1. main = "enable"
      BY <1>7 DEF Enable, MainAt
    <3>2. k = 0
      BY <1>0, <3>1
    <3> QED BY <1>0, <2>1, <3>2 DEF Unpacking, Unpacked, packet
  <2> QED BY <1>1, <1>7, <2>1 DEF Enable, MainThrows
<1>8. CASE Read
  <2>1. CASE /\ sock # <<>> /\ dgram' = Head(sock) /\ at' = 0 /\ got' = <<>>
             /\ main' = IF ndump = 0 THEN "abort" ELSE IF ndump > 0 THEN "read" ELSE "bytes"
    <3>1. dgram' \in Sent
      BY <2>1, HeadTailProperties DEF Typed
    <3>2. Unpacked(0)'
      BY <2>1, NothingUnpacked DEF Unpacked
    <3>3. main' # "event"
      BY <2>1
    <3> QED BY <3>1, <3>2, <3>3 DEF Unpacking
  <2>2. CASE main' = "abort" /\ UNCHANGED <<sock, dgram, at, got, ndump, count>>
    BY <1>1, <2>2 DEF packet
  <2> QED BY <1>8, <2>1, <2>2 DEF Read
<1>9. CASE Bytes
  <2>1. /\ k = 0 /\ dgram \in Sent /\ UNCHANGED packet
        /\ main' = IF ((dgram.len - FirstWords(dgram.ch)) % NextWords(dgram.ch)) = 0 THEN "event" ELSE "abort"
    BY <1>0, <1>9 DEF Bytes, MainAt
  <2>2. at = 0 /\ at < dgram.len
    BY <1>0, <2>1, Lengths DEF Unpacked, Sent
  <2> QED BY <1>0, <2>1, <2>2 DEF Unpacking, Unpacked, packet
<1>10. CASE Event
  <2>1. /\ got' = Append(got, Unpack) /\ at' = Unpack.next /\ dgram' = dgram
        /\ main' = IF Unpack.next >= dgram.len THEN "read" ELSE "event"
        /\ dgram \in Sent /\ ((dgram.len - FirstWords(dgram.ch)) % NextWords(dgram.ch)) = 0 /\ at < dgram.len
    BY <1>0, <1>10 DEF Event, MainAt
  <2>0. PICK c \in Channels : c = dgram.ch
    BY <2>1 DEF Sent
  <2>2. Unpack = Packed(dgram, k + 1) /\ Unpack.next = Length(c, k + 1)
    BY <1>0, <2>0, <2>1, UnpackIsPacked DEF Unpacked
  <2>3. PICK n \in Nat : n = dgram.len /\ FirstWords(c) <= n /\ ((n - FirstWords(c)) % NextWords(c)) = 0
    BY <2>0, <2>1 DEF Sent
  <2>a. k # 0 => Length(c, k) < n
    BY <1>0, <2>0, <2>1, <2>3 DEF Unpacked
  <2>4. Length(c, k + 1) \in Nat /\ Length(c, k + 1) <= n
    BY <2>3, <2>a, NextEnds
  <2>5. got' = Leading(dgram, k + 1)
    BY <1>0, <2>1, <2>2, LeadingGrows DEF Unpacked
  <2>6. k + 1 \in Nat /\ k + 1 # 0
    OBVIOUS
  <2>7. Unpacked(k + 1)'
    BY <2>0, <2>1, <2>2, <2>5, <2>6 DEF Unpacked
  <2>8. /\ at' <= dgram'.len
        /\ main' = "event" => at' < dgram'.len
        /\ main' = "read" => at' = dgram'.len
        /\ main' \in {"read", "event"}
    BY <2>1, <2>2, <2>3, <2>4
  <2>9. dgram' \in Sent /\ ((dgram'.len - FirstWords(dgram'.ch)) % NextWords(dgram'.ch)) = 0
    BY <2>1
  <2> QED BY <2>6, <2>7, <2>8, <2>9 DEF Unpacking
<1>11. CASE Abort
  BY <1>1, <1>11 DEF Abort
<1>12. CASE Report
  BY <1>1, <1>12 DEF Report
<1>13. ASSUME NEW t \in Threads, HandlerDisable(t) PROVE Unpacking'
  BY <1>1, <1>13 DEF HandlerDisable
<1>14. ASSUME NEW t \in Threads, HandlerExit(t) PROVE Unpacking'
  BY <1>1, <1>14 DEF HandlerExit
<1>15. CASE UNCHANGED vars
  BY <1>1, <1>15 DEF vars
<1> QED BY <1>2, <1>3, <1>4, <1>5, <1>6, <1>7, <1>8, <1>9, <1>10, <1>11, <1>12, <1>13, <1>14, <1>15
        DEF Next, Main, Handler

\* bld_control.cc:83: for every number of channels, and wherever a datagram is
\* cut off, the iterator unpacks the events as they were packed, in order,
\* reads nothing beyond the datagram and leaves none of it out.
THEOREM UnpacksEvents == Spec => []EventsExact
<1>1. Unpacking => EventsExact
  <2> SUFFICES ASSUME Unpacking PROVE EventsExact
    OBVIOUS
  <2>1. PICK k \in Nat :
           /\ Unpacked(k)
           /\ k # 0 => dgram \in Sent /\ at <= dgram.len
           /\ main = "read" /\ k # 0 => at = dgram.len
    BY DEF Unpacking
  <2>2. got = Leading(dgram, k) /\ Len(got) = k
    BY <2>1, LeadingGrows DEF Unpacked
  <2>3. got # <<>> => k # 0
    <3>1. Leading(dgram, 0) = <<>>
      BY DEF Leading
    <3> QED BY <2>2, <3>1
  <2>4. got = [j \in 1 .. Len(got) |-> Packed(dgram, j)]
    BY <2>2 DEF Leading
  <2> QED BY <2>1, <2>3, <2>4 DEF EventsExact
<1> QED BY <1>1, InitTyped, TypedNext, InitUnpacking, UnpackingNext, PTL DEF Spec

\* Every variable has its type: handlers never nest deeper than the signals,
\* and the iterator stays within the buffer.
THEOREM BldTypes == Spec => []TypeOK
<1>1. Typed /\ Handlers /\ Unpacking => TypeOK
  <2> SUFFICES ASSUME Typed, Handlers, Unpacking PROVE TypeOK
    OBVIOUS
  <2>0. BuffWords \in Nat /\ MaxEvents \in Nat
    BY BldConstants
  <2>1. ASSUME NEW d \in Sent \cup {NoDgram}
        PROVE  d.first \in 0 .. MaxEvents /\ d.n \in 0 .. MaxEvents /\ d.ch \in Channels \cup {0} /\ d.len \in 0 .. BuffWords
    <3>1. CASE d \in Sent
      BY <2>0, <3>1, Lengths DEF Sent
    <3>2. CASE d = NoDgram
      BY <2>0, <3>2 DEF NoDgram
    <3> QED BY <2>1, <3>1, <3>2
  <2>2. \A i \in 1 .. Len(sock) : sock[i] \in Sent
    BY DEF Typed
  <2>3. \A d \in {sock[i] : i \in 1 .. Len(sock)} \cup {dgram} :
           d.first \in 0 .. MaxEvents /\ d.n \in 0 .. MaxEvents /\ d.ch \in Channels \cup {0} /\ d.len \in 0 .. BuffWords
    BY <2>1, <2>2 DEF Typed
  <2>4. \A t \in Threads : Len(frames[t]) <= 2
    <3>1. PICK m \in Nat, c \in Nat : m = Len(frames["main"]) /\ c = Len(frames["count"])
      BY DEF Typed, Threads
    <3>2. PICK i \in Nat, a \in Nat : i = Armed("INT") /\ a = Armed("ABRT")
      BY DEF Armed
    <3>3. m + c + i + a <= 2
      BY <3>1, <3>2 DEF Handlers
    <3>4. m <= 2 /\ c <= 2
      BY <3>3
    <3> QED BY <3>1, <3>4 DEF Threads
  <2>5. at \in 0 .. BuffWords
    <3>1. PICK k \in Nat : Unpacked(k) /\ (k # 0 => dgram \in Sent /\ at <= dgram.len)
      BY DEF Unpacking
    <3>2. CASE k = 0
      BY <2>0, <3>1, <3>2 DEF Unpacked
    <3>3. CASE k # 0
      <4>1. at = Length(dgram.ch, k) /\ Length(dgram.ch, k) \in Nat
        BY <3>1, <3>3, Lengths DEF Unpacked, Sent
      <4>2. dgram.len \in 0 .. BuffWords /\ at <= dgram.len
        BY <2>1, <3>1, <3>3
      <4> QED BY <2>0, <4>1, <4>2
    <3> QED BY <3>2, <3>3
  <2>6. /\ enable \in BOOLEAN /\ sent \in 0 .. MaxEvents
        /\ disp \in [Signals -> {"default", "handler"}] /\ blocked \subseteq Signals
        /\ ended \in {"no", "exited", "killed", "returned"} /\ main \in Places
        /\ ndump \in {-1} \cup Nat /\ disable \in BOOLEAN /\ early \in BOOLEAN
        /\ {count, event, bytes, ints, errs} \subseteq Nat
        /\ rep \subseteq Counters
        /\ {seen, shown} \subseteq [count : Nat, event : Nat, bytes : Nat]
    BY DEF Typed
  <2> QED BY <2>3, <2>4, <2>5, <2>6 DEF TypeOK, Places
<1> QED BY <1>1, InitTyped, TypedNext, InitHandlers, HandlersNext, InitUnpacking, UnpackingNext, PTL
        DEF Spec

-----------------------------------------------------------------------------
(* The report *)

\* The least number of words of n datagrams.
Weight(n) == n * 7

\* One datagram more has seven more.
LEMMA WeightGrows == \A n \in Nat : Weight(n) \in Nat /\ Weight(n + 1) = Weight(n) + 7
BY DEF Weight

\* A number of datagrams of which all but the last have e events and b words at least.
AllButOne(c, e, b) == c <= e + 1 /\ Weight(c) <= b + 7

\* main() counts a datagram, then its words, then its events: between two
\* datagrams all is counted, and within one all but the last.  What countThread()
\* has read of the datagrams is covered by what it has yet to read.
Counted ==
    /\ AllButOne(count, event, bytes)
    /\ main \notin {"bytes", "abort"} => Weight(count) <= bytes
    /\ main \notin {"bytes", "event", "abort"} => count <= event
    /\ rep \in {{}, Counters, {"event", "bytes"}, {"bytes"}}
    /\ rep = {"event", "bytes"} => AllButOne(seen.count, event, bytes)
    /\ rep = {"bytes"} => AllButOne(seen.count, seen.event, bytes)
    /\ AllButOne(shown.count, shown.event, shown.bytes)

\* Nothing is counted at the start.
LEMMA InitCounted == Init => Counted
<1>1. Weight(0) = 0
  BY Lengths DEF Weight
<1> QED BY <1>1, WeightGrows DEF Init, Counted, AllButOne, NoCounts, Counters

\* Every step keeps the counters in step.
LEMMA CountedNext == InOrder /\ Typed /\ Unpacking /\ Counted /\ [Next]_vars => Counted'
<1> SUFFICES ASSUME InOrder, Typed, Unpacking, Counted, [Next]_vars PROVE Counted'
  OBVIOUS
<1>b. /\ count \in Nat /\ event \in Nat /\ bytes \in Nat
      /\ seen.count \in Nat /\ seen.event \in Nat /\ seen.bytes \in Nat
      /\ Weight(count) \in Nat /\ Weight(seen.count) \in Nat
      /\ Weight(count + 1) = Weight(count) + 7
  BY WeightGrows DEF Typed
<1>1. ASSUME UNCHANGED <<counters, report>>,
             main' \in {main, "abort"} \/ main' \in {"open", "setup", "enable", "read"},
             main \notin {"bytes", "event", "abort"} \/ main' \in {main, "abort"}
      PROVE  Counted'
  <2>1. main' \notin {"bytes", "abort"} => main \notin {"bytes", "abort"}
    BY <1>1
  <2>2. main' \notin {"bytes", "event", "abort"} => main \notin {"bytes", "event", "abort"}
    BY <1>1
  <2> QED BY <1>1, <2>1, <2>2 DEF Counted, AllButOne, counters, report, Weight
<1>2. CASE Send
  BY <1>1, <1>2 DEF Send
<1>3. CASE Interrupt
  BY <1>1, <1>3 DEF Interrupt
<1>4. CASE Install
  BY <1>1, <1>4 DEF Install, MainAt
<1>5. CASE Open
  <2>1. CASE main' = "setup" /\ rep' = Counters
    <3>1. main = "open" /\ UNCHANGED <<counters, seen, shown>>
      BY <1>5 DEF Open, MainAt
    <3>2. Weight(count) <= bytes /\ count <= event
      BY <3>1 DEF Counted
    <3>3. rep' # {"event", "bytes"} /\ rep' # {"bytes"}
      BY <2>1 DEF Counters
    <3> QED BY <2>1, <3>1, <3>2, <3>3 DEF Counted, AllButOne, counters, Weight
  <2>2. CASE UNCHANGED <<main, rep>>
    BY <1>1, <1>5, <2>2 DEF Open, report
  <2> QED BY <1>5, <2>1, <2>2 DEF Open
<1>6. CASE Setup
  BY <1>1, <1>6 DEF Setup, MainThrows, MainAt
<1>7. CASE Enable
  BY <1>1, <1>7 DEF Enable, MainThrows, MainAt
<1>8. CASE Read
  <2>1. main = "read" /\ UNCHANGED <<event, bytes, rep, seen, shown>>
    BY <1>8 DEF Read, MainAt, report
  <2>2. Weight(count) <= bytes /\ count <= event
    BY <2>1 DEF Counted
  <2>3. \/ UNCHANGED count /\ main' \in {"read", "abort"}
        \/ UNCHANGED count /\ main' = "bytes"
        \/ count' = count + 1 /\ main' = "bytes"
    BY <1>8 DEF Read, Typed
  <2>4. CASE UNCHANGED count /\ main' \in {"read", "abort"}
    BY <2>1, <2>2, <2>4 DEF Counted, AllButOne, Weight
  <2>5. CASE UNCHANGED count /\ main' = "bytes"
    BY <2>1, <2>2, <2>5 DEF Counted, AllButOne, Weight
  <2>6. CASE count' = count + 1 /\ main' = "bytes"
    <3>1. PICK n \in Nat, x \in Nat : n = count + 1 /\ x = Weight(count)
      BY <1>b
    <3>2. Weight(n) = x + 7 /\ n <= event + 1
      BY <1>b, <2>2, <3>1
    <3>3. AllButOne(n, event, bytes)
      BY <1>b, <2>2, <3>1, <3>2 DEF AllButOne
    <3>4. AllButOne(count, event, bytes)' = AllButOne(n, event, bytes)
      BY <2>1, <2>6, <3>1 DEF AllButOne, Weight
    <3> QED BY <2>1, <2>6, <3>3, <3>4 DEF Counted, AllButOne, Weight
  <2> QED BY <2>3, <2>4, <2>5, <2>6
<1>9. CASE Bytes
  <2>1. /\ main = "bytes" /\ bytes' = bytes + dgram.len /\ main' \in {"event", "abort"}
        /\ UNCHANGED <<count, event, rep, seen, shown>>
    BY <1>9 DEF Bytes, MainAt, report
  <2>2. dgram \in Sent
    BY <2>1 DEF Unpacking
  <2>3. PICK l \in Nat, b \in Nat : l = dgram.len /\ 7 <= l /\ b = bytes + l
    BY <1>b, <2>2, Lengths DEF Sent
  <2>4. bytes' = b
    BY <2>1, <2>3
  <2>5. /\ AllButOne(count, event, b) /\ Weight(count) <= b
        /\ rep = {"event", "bytes"} => AllButOne(seen.count, event, b)
        /\ rep = {"bytes"} => AllButOne(seen.count, seen.event, b)
    BY <1>b, <2>3 DEF Counted, AllButOne
  <2> QED BY <2>1, <2>4, <2>5 DEF Counted, AllButOne, Weight
<1>10. CASE Event
  <2>1. /\ main = "event" /\ event' = event + 1 /\ main' \in {"event", "read"}
        /\ UNCHANGED <<count, bytes, rep, seen, shown>>
    BY <1>10 DEF Event, MainAt, report
  <2>2. PICK e \in Nat : e = event + 1
    BY <1>b
  <2>3. event' = e
    BY <2>1, <2>2
  <2>4. /\ AllButOne(count, e, bytes) /\ Weight(count) <= bytes /\ count <= e
        /\ rep = {"event", "bytes"} => AllButOne(seen.count, e, bytes)
        /\ rep = {"bytes"} => AllButOne(seen.count, seen.event, bytes)
    BY <1>b, <2>1, <2>2 DEF Counted, AllButOne
  <2> QED BY <2>1, <2>3, <2>4 DEF Counted, AllButOne, Weight
<1>11. CASE Abort
  BY <1>1, <1>11 DEF Abort
<1>12. CASE Report
  <2>1. UNCHANGED <<main, counters>>
    BY <1>12 DEF Report
  <2>2. PICK i \in 1 .. 3 :
           LET c == ReadOrder[i]
               read == [seen EXCEPT ![c] = [count |-> count, event |-> event, bytes |-> bytes][c]]
           IN  /\ c \in rep
               /\ \A j \in 1 .. i - 1 : ReadOrder[j] \notin rep
               /\ seen' = read
               /\ IF rep = {c} THEN rep' = Counters /\ shown' = read
                  ELSE rep' = rep \ {c} /\ UNCHANGED shown
    BY <1>12 DEF Report, ReadOrder
  <2>3. \/ rep = Counters /\ ReadOrder[i] = "count"
        \/ rep = {"event", "bytes"} /\ ReadOrder[i] = "event"
        \/ rep = {"bytes"} /\ ReadOrder[i] = "bytes"
    <3>1. CASE i = 1
      BY <2>2, <3>1 DEF ReadOrder, Counted, Counters
    <3>2. CASE i = 2
      <4>1. "event" \in rep /\ "count" \notin rep
        <5>1. 1 \in 1 .. i - 1
          BY <3>2
        <5> QED BY <2>2, <3>2, <5>1 DEF ReadOrder
      <4> QED BY <3>2, <4>1 DEF ReadOrder, Counted, Counters
    <3>3. CASE i = 3
      <4>1. "event" \notin rep /\ "count" \notin rep /\ "bytes" \in rep
        <5>1. 1 \in 1 .. i - 1 /\ 2 \in 1 .. i - 1
          BY <3>3
        <5> QED BY <2>2, <3>3, <5>1 DEF ReadOrder
      <4> QED BY <3>3, <4>1 DEF ReadOrder, Counted, Counters
    <3> QED BY <3>1, <3>2, <3>3
  <2>4. CASE rep = Counters /\ ReadOrder[i] = "count"
    <3>0. /\ seen' = [seen EXCEPT !["count"] = [count |-> count, event |-> event, bytes |-> bytes]["count"]]
          /\ IF rep = {"count"} THEN rep' = Counters /\ shown' = seen'
             ELSE rep' = rep \ {"count"} /\ UNCHANGED shown
      BY <2>2, <2>4, Zenon
    <3>1. rep' = {"event", "bytes"} /\ seen' = [seen EXCEPT !.count = count] /\ UNCHANGED shown
      <4>1. "bytes" \in rep /\ "bytes" \notin {"count"} /\ rep \ {"count"} = {"event", "bytes"}
        BY <2>4 DEF Counters
      <4>2. rep # {"count"}
        BY <4>1
      <4>3. seen' = [seen EXCEPT !.count = count]
        BY <3>0
      <4> QED BY <3>0, <4>1, <4>2, <4>3
    <3>2. seen'.count = count
      BY <3>1 DEF Typed
    <3> QED BY <2>1, <3>1, <3>2 DEF Counted, AllButOne, counters, Weight
  <2>5. CASE rep = {"event", "bytes"} /\ ReadOrder[i] = "event"
    <3>0. /\ seen' = [seen EXCEPT !["event"] = [count |-> count, event |-> event, bytes |-> bytes]["event"]]
          /\ IF rep = {"event"} THEN rep' = Counters /\ shown' = seen'
             ELSE rep' = rep \ {"event"} /\ UNCHANGED shown
      BY <2>2, <2>5, Zenon
    <3>1. rep' = {"bytes"} /\ seen' = [seen EXCEPT !.event = event] /\ UNCHANGED shown
      <4>1. "bytes" \in rep /\ "bytes" \notin {"event"} /\ rep \ {"event"} = {"bytes"}
        BY <2>5
      <4>2. rep # {"event"}
        BY <4>1
      <4>3. seen' = [seen EXCEPT !.event = event]
        BY <3>0
      <4> QED BY <3>0, <4>1, <4>2, <4>3
    <3>2. seen'.count = seen.count /\ seen'.event = event
      BY <3>1 DEF Typed
    <3> QED BY <2>1, <2>5, <3>1, <3>2 DEF Counted, AllButOne, counters, Weight
  <2>6. CASE rep = {"bytes"} /\ ReadOrder[i] = "bytes"
    <3>0. /\ seen' = [seen EXCEPT !["bytes"] = [count |-> count, event |-> event, bytes |-> bytes]["bytes"]]
          /\ IF rep = {"bytes"} THEN rep' = Counters /\ shown' = seen'
             ELSE rep' = rep \ {"bytes"} /\ UNCHANGED shown
      BY <2>2, <2>6, Zenon
    <3>1. rep' = Counters /\ seen' = [seen EXCEPT !.bytes = bytes] /\ shown' = seen'
      BY <2>6, <3>0
    <3>2. shown'.count = seen.count /\ shown'.event = seen.event /\ shown'.bytes = bytes
      BY <3>1 DEF Typed
    <3>3. rep' # {"event", "bytes"} /\ rep' # {"bytes"}
      BY <3>1 DEF Counters
    <3> QED BY <2>1, <2>6, <3>1, <3>2, <3>3 DEF Counted, AllButOne, counters, Weight
  <2> QED BY <2>3, <2>4, <2>5, <2>6
<1>13. ASSUME NEW t \in Threads, HandlerDisable(t) PROVE Counted'
  BY <1>1, <1>13 DEF HandlerDisable
<1>14. ASSUME NEW t \in Threads, HandlerExit(t) PROVE Counted'
  BY <1>1, <1>14 DEF HandlerExit
<1>15. CASE UNCHANGED vars
  BY <1>1, <1>15 DEF vars
<1> QED BY <1>2, <1>3, <1>4, <1>5, <1>6, <1>7, <1>8, <1>9, <1>10, <1>11, <1>12, <1>13, <1>14, <1>15
        DEF Next, Main, Handler

\* bld_control.cc:155-157: however long the datagrams, a line of the report
\* shows no datagram without its events and bytes but for the one main() was
\* unpacking, if the build reads the counters in the order of the source.
THEOREM LinesShowNoMore == ASSUME InOrder PROVE Spec => []ReportConsistent
<1>1. Typed /\ Counted => ReportConsistent
  <2> SUFFICES ASSUME Typed, Counted PROVE ReportConsistent
    OBVIOUS
  <2>1. PICK c \in Nat, b \in Nat : c = shown.count /\ b = shown.bytes
    BY DEF Typed
  <2>2. c * 7 <= b + 7 /\ c <= shown.event + 1
    BY <2>1 DEF Counted, AllButOne, Weight
  <2>3. (c - 1) * 7 <= b
    BY <2>2
  <2> QED BY <2>1, <2>2, <2>3 DEF ReportConsistent
<1> QED BY <1>1, InitTyped, TypedNext, InitUnpacking, UnpackingNext, InitCounted, CountedNext, PTL
        DEF Spec
=============================================================================
