----------------------------- MODULE PartsProofs -----------------------------
(***************************************************************************)
(* Proofs about the smaller components, one section for each: acquisition  *)
(* control, the control objects of the services, the UDP sender, the       *)
(* client's waveforms and the stream monitor.  They share no variable; the *)
(* theorems are about each component's own specification.                  *)
(***************************************************************************)
EXTENDS AcqControl, ServiceControl, SocketSender, ClientBuffer, TprStream,
        SequenceTheorems, WellFoundedInduction, TLAPS

-----------------------------------------------------------------------------
(* Acquisition control: completion bits                                     *)

\* The types of the variables.
AcqTypes ==
    /\ cmpl \subseteq AcqArrays /\ starts \in Nat
    /\ running \in [AcqArrays -> Nat] /\ ended \in [AcqArrays -> Nat]
    /\ cpc \in [Clients -> {"idle", "eventSel", "statSel", "read", "clear"}]
    /\ cval \in [Clients -> SUBSET AcqArrays] /\ \A c \in Clients : cpc[c] # "clear" => cval[c] = {}
    /\ mine \in [Clients -> Nat]
    /\ stale \in [Clients -> BOOLEAN] /\ robbed \in [Clients -> BOOLEAN]

\* Acquisitions are numbered in the order they start: what runs in an array is
\* later than what has ended there, and the last one of an array is not earlier
\* than what any client started.
Numbering ==
    /\ \A a \in AcqArrays : running[a] <= starts /\ ended[a] <= starts
    /\ \A a \in AcqArrays : running[a] # 0 => ended[a] < running[a]
    /\ \A c \in Clients :
          IF running[ArrayOf[c]] = 0 THEN mine[c] <= ended[ArrayOf[c]]
                                     ELSE mine[c] <= running[ArrayOf[c]]

\* A bit that client c can see was set since it cleared it: while it wrote the
\* registers, or by its own acquisition or a later one.
BitIsNews(c) ==
    LET a == ArrayOf[c] IN
    /\ cpc[c] \in {"eventSel", "statSel"} /\ a \in cmpl => stale[c]
    /\ cpc[c] \in {"read", "clear"} /\ a \in cmpl \cup cval[c] => mine[c] <= ended[a] \/ stale[c]

\* The bit of the client's completed acquisition is there, or another took it.
BitStays(c) ==
    LET a == ArrayOf[c] IN
    cpc[c] \in {"read", "clear"} /\ ended[a] = mine[c] /\ running[a] = 0 => a \in cmpl \/ robbed[c]

AcqInv == AcqTypes /\ Numbering /\ \A c \in Clients : BitIsNews(c) /\ BitStays(c)

\* The array of a client is an array.
LEMMA OwnArray == \A c \in Clients : ArrayOf[c] \in AcqArrays
BY DEF AcqArrays

\* The invariant of the acquisitions holds at the start.
LEMMA InitAcq == AcqInit => AcqInv
BY OwnArray DEF AcqInit, AcqInv, AcqTypes, Numbering, BitIsNews, BitStays

\* A client that writes bits of the register takes them from the others only.
LEMMA AfterClearBits ==
    ASSUME AcqInv, NEW c \in Clients, NEW B \in SUBSET AcqArrays, ClearBits(c, B)
    PROVE  /\ cmpl' = cmpl \ B
           /\ robbed' \in [Clients -> BOOLEAN]
           /\ \A d \in Clients \ {c} :
                 /\ robbed[d] => robbed'[d]
                 /\ ArrayOf[d] \in cmpl /\ ArrayOf[d] \notin cmpl' => robbed'[d]
           /\ cpc[c] # "idle" => robbed'[c] = robbed[c]
<1>1. robbed' = [d \in Clients |->
                     IF d = c THEN robbed[d] /\ cpc[c] # "idle"
                     ELSE robbed[d] \/ ArrayOf[d] \in cmpl \cap B]
  BY DEF ClearBits
<1>2. robbed \in [Clients -> BOOLEAN]
  BY DEF AcqInv, AcqTypes
<1>3. robbed' \in [Clients -> BOOLEAN]
  BY <1>1, <1>2
<1>4. robbed'[c] <=> robbed[c] /\ cpc[c] # "idle"
  BY <1>1
<1>5. \A d \in Clients \ {c} : robbed'[d] <=> robbed[d] \/ ArrayOf[d] \in cmpl \cap B
  BY <1>1
<1>6. cpc[c] # "idle" => robbed'[c] = robbed[c]
  BY <1>2, <1>3, <1>4
<1> QED BY <1>3, <1>5, <1>6 DEF ClearBits

\* Every step of the hardware and the clients keeps it.
LEMMA StepAcq == AcqInv /\ [AcqNext]_acqVars => AcqInv'
<1> SUFFICES ASSUME AcqInv, [AcqNext]_acqVars PROVE AcqInv'
  OBVIOUS
<1>0. /\ AcqTypes /\ Numbering /\ \A d \in Clients : BitIsNews(d) /\ BitStays(d)
      /\ \A d \in Clients : ArrayOf[d] \in AcqArrays
  BY OwnArray DEF AcqInv
<1>1. ASSUME NEW c \in Clients, StartClear(c) PROVE AcqInv'
  <2>1. /\ cpc[c] = "idle" /\ ClearBits(c, {ArrayOf[c]})
        /\ cpc' = [cpc EXCEPT ![c] = "eventSel"] /\ stale' = [stale EXCEPT ![c] = FALSE]
        /\ UNCHANGED <<running, ended, starts, cval, mine>>
    BY <1>1 DEF StartClear, Cleared
  <2>2. /\ cmpl' = cmpl \ {ArrayOf[c]} /\ robbed' \in [Clients -> BOOLEAN]
        /\ \A d \in Clients \ {c} :
              /\ robbed[d] => robbed'[d]
              /\ ArrayOf[d] \in cmpl /\ ArrayOf[d] \notin cmpl' => robbed'[d]
    BY <1>0, <2>1, AfterClearBits
  <2>3. AcqTypes'
    BY <1>0, <2>1, <2>2 DEF AcqTypes
  <2>4. Numbering'
    BY <1>0, <2>1 DEF Numbering
  <2>5. ASSUME NEW d \in Clients PROVE BitIsNews(d)' /\ BitStays(d)'
    <3>1. CASE d = c
      BY <1>0, <2>1, <2>2, <3>1 DEF AcqTypes, BitIsNews, BitStays
    <3>2. CASE d # c
      BY <1>0, <2>1, <2>2, <3>2 DEF AcqTypes, BitIsNews, BitStays
    <3> QED BY <3>1, <3>2
  <2> QED BY <2>3, <2>4, <2>5 DEF AcqInv
<1>2. ASSUME NEW c \in Clients, StartEventSel(c) PROVE AcqInv'
  <2>1. AcqTypes'
    BY <1>0, <1>2 DEF StartEventSel, hwVars, AcqTypes
  <2>2. Numbering'
    BY <1>0, <1>2 DEF StartEventSel, hwVars, Numbering
  <2>3. ASSUME NEW d \in Clients PROVE BitIsNews(d)' /\ BitStays(d)'
    BY <1>0, <1>2 DEF StartEventSel, hwVars, AcqTypes, BitIsNews, BitStays
  <2> QED BY <2>1, <2>2, <2>3 DEF AcqInv
<1>3. ASSUME NEW c \in Clients, StartStatSel(c) PROVE AcqInv'
  <2>1. /\ cpc[c] = "statSel" /\ starts' = starts + 1
        /\ running' = [running EXCEPT ![ArrayOf[c]] = starts + 1]
        /\ mine' = [mine EXCEPT ![c] = starts + 1]
        /\ cpc' = [cpc EXCEPT ![c] = "read"]
        /\ UNCHANGED <<cmpl, ended, cval, stale, robbed>>
    BY <1>3 DEF StartStatSel
  <2>2. AcqTypes'
    BY <1>0, <2>1 DEF AcqTypes
  <2>3. Numbering'
    <3>1. \A a \in AcqArrays : running'[a] <= starts' /\ ended'[a] <= starts' /\ (running'[a] # 0 => ended'[a] < running'[a])
      BY <1>0, <2>1 DEF AcqTypes, Numbering
    <3>2. \A d \in Clients : mine[d] <= starts
      BY <1>0 DEF AcqTypes, Numbering
    <3>3. ASSUME NEW d \in Clients
          PROVE  IF running'[ArrayOf[d]] = 0 THEN mine'[d] <= ended'[ArrayOf[d]]
                                             ELSE mine'[d] <= running'[ArrayOf[d]]
      BY <1>0, <2>1, <3>2 DEF AcqTypes, Numbering
    <3> QED BY <3>1, <3>3 DEF Numbering
  <2>4. ASSUME NEW d \in Clients PROVE BitIsNews(d)' /\ BitStays(d)'
    <3>1. CASE d = c
      BY <1>0, <2>1, <3>1 DEF AcqTypes, BitIsNews, BitStays
    <3>2. CASE d # c
      BY <1>0, <2>1, <3>2 DEF AcqTypes, BitIsNews, BitStays
    <3> QED BY <3>1, <3>2
  <2> QED BY <2>2, <2>3, <2>4 DEF AcqInv
<1>4. ASSUME NEW c \in Clients, PollRead(c) PROVE AcqInv'
  <2>1. AcqTypes'
    BY <1>0, <1>4 DEF PollRead, hwVars, AcqTypes
  <2>2. Numbering'
    BY <1>0, <1>4 DEF PollRead, hwVars, Numbering
  <2>3. ASSUME NEW d \in Clients PROVE BitIsNews(d)' /\ BitStays(d)'
    BY <1>0, <1>4 DEF PollRead, hwVars, AcqTypes, BitIsNews, BitStays
  <2> QED BY <2>1, <2>2, <2>3 DEF AcqInv
<1>5. ASSUME NEW c \in Clients, PollClear(c) PROVE AcqInv'
  <2>1. /\ cpc[c] = "clear" /\ ClearBits(c, cval[c])
        /\ cpc' = [cpc EXCEPT ![c] = IF ArrayOf[c] \in cval[c] THEN "idle" ELSE "read"]
        /\ cval' = [cval EXCEPT ![c] = {}]
        /\ UNCHANGED <<running, ended, starts, mine, stale>>
    BY <1>5 DEF PollClear, Polled
  <2>2. /\ cmpl' = cmpl \ cval[c] /\ robbed' \in [Clients -> BOOLEAN]
        /\ \A d \in Clients \ {c} :
              /\ robbed[d] => robbed'[d]
              /\ ArrayOf[d] \in cmpl /\ ArrayOf[d] \notin cmpl' => robbed'[d]
        /\ robbed'[c] = robbed[c]
    BY <1>0, <2>1, AfterClearBits DEF AcqTypes
  <2>3. AcqTypes'
    BY <1>0, <2>1, <2>2 DEF AcqTypes
  <2>4. Numbering'
    BY <1>0, <2>1 DEF Numbering
  <2>5. ASSUME NEW d \in Clients PROVE BitIsNews(d)' /\ BitStays(d)'
    <3>1. CASE d = c
      BY <1>0, <2>1, <2>2, <3>1 DEF AcqTypes, BitIsNews, BitStays
    <3>2. CASE d # c
      BY <1>0, <2>1, <2>2, <3>2 DEF AcqTypes, BitIsNews, BitStays
    <3> QED BY <3>1, <3>2
  <2> QED BY <2>3, <2>4, <2>5 DEF AcqInv
<1>6. ASSUME NEW c \in Clients, Kill(c) PROVE AcqInv'
  <2>1. AcqTypes'
    BY <1>0, <1>6 DEF Kill, hwVars, AcqTypes
  <2>2. Numbering'
    BY <1>0, <1>6 DEF Kill, hwVars, Numbering
  <2>3. ASSUME NEW d \in Clients PROVE BitIsNews(d)' /\ BitStays(d)'
    BY <1>0, <1>6 DEF Kill, hwVars, AcqTypes, BitIsNews, BitStays
  <2> QED BY <2>1, <2>2, <2>3 DEF AcqInv
<1>7. ASSUME NEW a \in AcqArrays, Complete(a) PROVE AcqInv'
  <2>1. /\ running[a] # 0 /\ cmpl' = cmpl \cup {a}
        /\ ended' = [ended EXCEPT ![a] = running[a]] /\ running' = [running EXCEPT ![a] = 0]
        /\ stale' = [c \in Clients |-> \/ stale[c]
                                       \/ ArrayOf[c] = a /\ cpc[c] \in {"eventSel", "statSel"}]
        /\ UNCHANGED <<starts, cpc, cval, mine, robbed>>
    BY <1>7 DEF Complete
  <2>2. /\ stale' \in [Clients -> BOOLEAN]
        /\ \A c \in Clients : stale'[c] <=> \/ stale[c]
                                            \/ ArrayOf[c] = a /\ cpc[c] \in {"eventSel", "statSel"}
    BY <1>0, <2>1, Zenon DEF AcqTypes
  <2>3. AcqTypes'
    BY <1>0, <2>1, <2>2 DEF AcqTypes
  <2>4. Numbering'
    BY <1>0, <2>1 DEF AcqTypes, Numbering
  <2>5. ASSUME NEW d \in Clients PROVE BitIsNews(d)' /\ BitStays(d)'
    <3>1. /\ ended[ArrayOf[d]] <= ended'[ArrayOf[d]]
          /\ ArrayOf[d] = a => mine[d] <= ended'[ArrayOf[d]]
      BY <1>0, <2>1 DEF AcqTypes, Numbering
    <3>2. BitIsNews(d)'
      BY <1>0, <2>1, <2>2, <3>1 DEF AcqTypes, BitIsNews
    <3>3. BitStays(d)'
      BY <1>0, <2>1 DEF AcqTypes, BitStays
    <3> QED BY <3>2, <3>3
  <2> QED BY <2>3, <2>4, <2>5 DEF AcqInv
<1>8. CASE UNCHANGED acqVars
  BY <1>0, <1>8 DEF acqVars, hwVars, AcqInv, AcqTypes, Numbering, BitIsNews, BitStays
<1> QED BY <1>1, <1>2, <1>3, <1>4, <1>5, <1>6, <1>7, <1>8 DEF AcqNext, Poll

\* The numbering of acquisitions and the meaning of the bits hold always: a bit a
\* client sees is news since its start(), and its own is there until it is taken.
THEOREM AcqInvariant == AcqSpec => []AcqInv
  BY InitAcq, StepAcq, PTL DEF AcqSpec

\* poll() does not end early: a client that finds its bit set has had its acquisition
\* complete, or another one of its array ended between the writes of its start().
\* For any number of clients and arrays, whoever is killed in between.
THEOREM PollersLeaveWhenDone == AcqSpec => []LeavesWhenDone
<1>1. AcqInv => LeavesWhenDone
  BY OwnArray DEF AcqInv, AcqTypes, BitIsNews, LeavesWhenDone
<1> QED BY <1>1, AcqInvariant, PTL

\* A client that waits for an acquisition that is over finds its bit set, unless
\* another client cleared it: writing back what it has read, bits of other arrays
\* included, is the only way the register loses one.
THEOREM CompletionsNotLost == AcqSpec => []CompletionNotLost
<1>1. AcqInv => CompletionNotLost
  BY OwnArray DEF AcqInv, BitStays, CompletionNotLost
<1> QED BY <1>1, AcqInvariant, PTL

-----------------------------------------------------------------------------
(* The services: the fields of a word, and the registers                    *)

\* The words of a register: a field for each channel.
Words == [Channels -> Nat]

\* A call between its read and its write.
UnderWay == [reg : Regs, chn : Channels, value : Nat, word : Words, since : SUBSET Channels]

\* The types of the variables.
ServiceTypes ==
    /\ kind \in {"bld", "bsss", "bsas"}
    /\ field \in [Regs -> Words] /\ asked \in [Regs -> Words]
    /\ call \in [Threads -> {NoCall} \cup UnderWay]
    /\ unsure \subseteq Regs \X Channels /\ lost \subseteq Regs \X Channels

\* The word a call has read is still the register's, but for the channels that
\* others set since then and for those whose setting is lost already.
ReadIsCurrent(t) ==
    \A c \in Channels :
        call[t].reg \in Regs /\ c \notin call[t].since /\ <<call[t].reg, c>> \notin lost =>
            call[t].word[c] = field[call[t].reg][c]

ServiceInv ==
    ServiceTypes /\ FieldsAsAsked /\ \A t \in Threads : ReadIsCurrent(t)

\* The fields that are asked for are numbers.
LEMMA ValueIsNat ==
    ASSUME NEW r \in Fields, NEW x \in Args(r)
    PROVE  Value(r, x) \in Nat
BY ServiceConstants DEF Args, Value, Fields

\* The invariant of the control objects holds at the start.
LEMMA InitService == ServiceInit => ServiceInv
<1> SUFFICES ASSUME ServiceInit PROVE ServiceInv
  OBVIOUS
<1>1. ServiceTypes
  BY DEF ServiceInit, ServiceTypes, Words, NoCall, Regs, Fields, EdefRegs
<1>2. FieldsAsAsked /\ \A t \in Threads : ReadIsCurrent(t)
  BY DEF ServiceInit, FieldsAsAsked, ReadIsCurrent, NoCall, Regs, Fields, EdefRegs
<1> QED BY <1>1, <1>2 DEF ServiceInv

\* One register takes a word w in which the channels that were not asked for are
\* as the writer read them.
LEMMA AfterWritten ==
    ASSUME ServiceInv, NEW t \in Threads, NEW r \in Regs, NEW w \in Words, NEW req,
           DOMAIN req \subseteq Channels, \A c \in DOMAIN req : req[c] \in Nat /\ w[c] = req[c],
           \A c \in Channels \ DOMAIN req :
              c \notin call[t].since /\ <<r, c>> \notin lost => w[c] = field[r][c],
           Written(t, r, w, req), UNCHANGED kind,
           unsure' \subseteq Regs \X Channels, unsure \ At(r, DOMAIN req) \subseteq unsure'
    PROVE  ServiceTypes' /\ FieldsAsAsked' /\ \A u \in Threads : ReadIsCurrent(u)'
<1>0. ServiceTypes /\ FieldsAsAsked /\ \A u \in Threads : ReadIsCurrent(u)
  BY DEF ServiceInv
<1>1. /\ field' = [field EXCEPT ![r] = w]
      /\ asked' = [asked EXCEPT ![r] = [c \in Channels |-> IF c \in DOMAIN req THEN req[c] ELSE asked[r][c]]]
      /\ call' = [u \in Threads |->
                     IF u = t THEN NoCall
                     ELSE IF call[u].reg = r THEN [call[u] EXCEPT !.since = call[u].since \cup DOMAIN req]
                     ELSE call[u]]
      /\ lost' = (lost \cup At(r, call[t].since)) \ At(r, DOMAIN req)
  BY DEF Written
<1>2. /\ field' \in [Regs -> Words]
      /\ \A q \in Regs : field'[q] = IF q = r THEN w ELSE field[q]
  BY <1>0, <1>1 DEF ServiceTypes
<1>3. /\ asked' \in [Regs -> Words]
      /\ \A q \in Regs, c \in Channels :
            asked'[q][c] = IF q = r /\ c \in DOMAIN req THEN req[c] ELSE asked[q][c]
  BY <1>0, <1>1 DEF ServiceTypes, Words
<1>4. \A q, c : <<q, c>> \in lost' <=>
         \/ <<q, c>> \in lost /\ ~(q = r /\ c \in DOMAIN req)
         \/ q = r /\ c \in call[t].since /\ c \notin DOMAIN req
  BY <1>1 DEF At
<1>5. ASSUME NEW u \in Threads
      PROVE  IF u = t \/ call[u] = NoCall THEN call'[u] = NoCall
             ELSE /\ call'[u] \in UnderWay /\ call[u] \in UnderWay
                  /\ call'[u].reg = call[u].reg /\ call'[u].word = call[u].word
                  /\ call'[u].since = IF call[u].reg = r THEN call[u].since \cup DOMAIN req
                                                        ELSE call[u].since
  <2>1. CASE u = t
    BY <1>1, <2>1
  <2>2. CASE u # t /\ call[u] = NoCall
    BY <1>1, <2>2 DEF NoCall, Regs, Fields, EdefRegs
  <2>3. CASE u # t /\ call[u] # NoCall
    <3>1. call[u] \in UnderWay
      BY <1>0, <2>3 DEF ServiceTypes
    <3>2. CASE call[u].reg = r
      <4>1. call'[u] = [call[u] EXCEPT !.since = call[u].since \cup DOMAIN req]
        BY <1>1, <2>3, <3>2
      <4> QED BY <2>3, <3>1, <3>2, <4>1 DEF UnderWay
    <3>3. CASE call[u].reg # r
      BY <1>1, <2>3, <3>1, <3>3
    <3> QED BY <3>2, <3>3
  <2> QED BY <2>1, <2>2, <2>3
<1>6. ServiceTypes'
  <2>1. \A u \in Threads : call'[u] \in {NoCall} \cup UnderWay
    BY <1>5
  <2>2. call' \in [Threads -> {NoCall} \cup UnderWay]
    BY <1>1, <2>1
  <2>3. lost' \subseteq Regs \X Channels
    BY <1>0, <1>1, <1>5 DEF ServiceTypes, At, UnderWay, NoCall
  <2> QED BY <1>0, <1>2, <1>3, <2>2, <2>3 DEF ServiceTypes
<1>7. FieldsAsAsked'
  <2>1. SUFFICES ASSUME NEW q \in Regs, NEW c \in Channels, <<q, c>> \notin unsure', <<q, c>> \notin lost'
                 PROVE  field'[q][c] = asked'[q][c]
    BY DEF FieldsAsAsked
  <2>2. CASE q = r /\ c \in DOMAIN req
    BY <1>2, <1>3, <2>2
  <2>3. CASE ~(q = r /\ c \in DOMAIN req)
    <3>1. <<q, c>> \notin unsure /\ <<q, c>> \notin lost
      BY <1>4, <2>1, <2>3 DEF At
    <3>2. field[q][c] = asked[q][c]
      BY <1>0, <3>1 DEF FieldsAsAsked
    <3>3. q = r => c \notin call[t].since
      BY <1>4, <2>1, <2>3
    <3>4. field'[q][c] = field[q][c]
      BY <1>2, <2>3, <3>1, <3>3
    <3> QED BY <1>3, <2>3, <3>2, <3>4
  <2> QED BY <2>2, <2>3
<1>8. ASSUME NEW u \in Threads PROVE ReadIsCurrent(u)'
  <2>1. CASE u = t \/ call[u] = NoCall
    <3>1. call'[u] = NoCall
      BY <1>5, <2>1
    <3> QED BY <3>1 DEF ReadIsCurrent, NoCall, Regs, Fields, EdefRegs
  <2>2. CASE ~(u = t \/ call[u] = NoCall)
    <3>1. PICK q \in Regs : q = call[u].reg /\ q = call'[u].reg
      BY <1>5, <2>2 DEF UnderWay
    <3>2. SUFFICES ASSUME NEW c \in Channels, c \notin call'[u].since, <<q, c>> \notin lost'
                   PROVE  call[u].word[c] = field'[q][c]
      BY <1>5, <2>2, <3>1 DEF ReadIsCurrent
    <3>3. c \notin call[u].since /\ ~(q = r /\ c \in DOMAIN req)
      BY <1>5, <2>2, <3>1, <3>2
    <3>4. <<q, c>> \notin lost /\ (q = r => c \notin call[t].since)
      BY <1>4, <3>2, <3>3
    <3>5. call[u].word[c] = field[q][c]
      BY <1>0, <3>1, <3>3, <3>4 DEF ReadIsCurrent
    <3>6. field'[q][c] = field[q][c]
      BY <1>2, <3>3, <3>4
    <3> QED BY <3>5, <3>6
  <2> QED BY <2>1, <2>2
<1> QED BY <1>6, <1>7, <1>8

\* The same for a write that may throw.
LEMMA AfterWrite ==
    ASSUME ServiceInv, NEW t \in Threads, NEW r \in Regs, NEW w \in Words, NEW req,
           DOMAIN req \subseteq Channels, \A c \in DOMAIN req : req[c] \in Nat /\ w[c] = req[c],
           \A c \in Channels \ DOMAIN req :
              c \notin call[t].since /\ <<r, c>> \notin lost => w[c] = field[r][c],
           Write(t, r, w, req), UNCHANGED kind
    PROVE  ServiceTypes' /\ FieldsAsAsked' /\ \A u \in Threads : ReadIsCurrent(u)'
<1>0. ServiceTypes /\ FieldsAsAsked /\ \A u \in Threads : ReadIsCurrent(u)
  BY DEF ServiceInv
<1>1. At(r, DOMAIN req) \subseteq Regs \X Channels
  BY DEF At
<1>2. CASE Written(t, r, w, req) /\ unsure' = unsure \ At(r, DOMAIN req)
  <2>1. unsure' \subseteq Regs \X Channels /\ unsure \ At(r, DOMAIN req) \subseteq unsure'
    BY <1>0, <1>2 DEF ServiceTypes
  <2> QED BY <1>2, <2>1, AfterWritten
<1>3. CASE Written(t, r, w, req) /\ unsure' = unsure \cup At(r, DOMAIN req)
  <2>1. unsure' \subseteq Regs \X Channels /\ unsure \ At(r, DOMAIN req) \subseteq unsure'
    BY <1>0, <1>1, <1>3 DEF ServiceTypes
  <2> QED BY <1>3, <2>1, AfterWritten
<1>4. CASE /\ unsure' = unsure \cup At(r, DOMAIN req)
           /\ call' = [call EXCEPT ![t] = NoCall] /\ UNCHANGED <<field, asked, lost>>
  <2>2. ServiceTypes'
    BY <1>0, <1>1, <1>4 DEF ServiceTypes
  <2>3. FieldsAsAsked'
    BY <1>0, <1>4 DEF FieldsAsAsked
  <2>4. ASSUME NEW u \in Threads PROVE ReadIsCurrent(u)'
    <3>1. call'[u] = IF u = t THEN NoCall ELSE call[u]
      BY <1>0, <1>4 DEF ServiceTypes
    <3> QED BY <1>0, <1>4, <3>1 DEF ReadIsCurrent, NoCall, Regs, Fields, EdefRegs
  <2> QED BY <2>2, <2>3, <2>4
<1> QED BY <1>2, <1>3, <1>4 DEF Write

\* Every call, and every half of a call, keeps it.
LEMMA StepService == ServiceInv /\ [ServiceNext]_serviceVars => ServiceInv'
<1> SUFFICES ASSUME ServiceInv, [ServiceNext]_serviceVars PROVE ServiceInv'
  OBVIOUS
<1>0. ServiceTypes /\ FieldsAsAsked /\ \A u \in Threads : ReadIsCurrent(u)
  BY DEF ServiceInv
<1>a. Fields \subseteq Regs /\ EdefRegs \subseteq Regs
  BY DEF Regs
<1>1. ASSUME NEW t \in Threads, NEW r \in Fields, NEW c \in Channels, ReadWord(t, r, c)
      PROVE  ServiceInv'
  <2>1. UNCHANGED <<kind, field, ghosts, wild>>
    BY <1>1 DEF ReadWord
  <2>3. CASE UNCHANGED call
    BY <1>0, <2>1, <2>3 DEF ghosts, ServiceInv, ServiceTypes, FieldsAsAsked, ReadIsCurrent
  <2>4. ASSUME NEW x \in Args(r),
               call' = [call EXCEPT ![t] = [reg |-> r, chn |-> c, value |-> Value(r, x),
                                            word |-> field[r], since |-> {}]]
        PROVE  ServiceInv'
    <3>1. ServiceTypes'
      BY <1>0, <1>a, <2>1, <2>4, ValueIsNat DEF ghosts, ServiceTypes, UnderWay
    <3>2. FieldsAsAsked'
      BY <1>0, <2>1 DEF ghosts, FieldsAsAsked
    <3>3. ASSUME NEW u \in Threads PROVE ReadIsCurrent(u)'
      BY <1>0, <2>1, <2>4 DEF ghosts, ServiceTypes, ReadIsCurrent
    <3> QED BY <3>1, <3>2, <3>3 DEF ServiceInv
  <2> QED BY <1>1, <2>3, <2>4 DEF ReadWord
<1>2. ASSUME NEW t \in Threads, WriteWord(t)
      PROVE  ServiceInv'
  <2> DEFINE k == call[t]
             req == [c \in {k.chn} |-> k.value]
  <2>1. /\ k # NoCall /\ Write(t, k.reg, Merged(k), req)
        /\ UNCHANGED <<kind, calls, wild>>
    BY <1>2 DEF WriteWord
  <2>3. k \in UnderWay
    BY <1>0, <2>1 DEF ServiceTypes
  <2>4. k.reg \in Regs /\ k.chn \in Channels /\ k.value \in Nat /\ k.word \in Words
    BY <2>3 DEF UnderWay
  <2>5. /\ Merged(k) \in Words
        /\ \A c \in Channels : Merged(k)[c] = IF c = k.chn THEN k.value ELSE k.word[c]
    BY <2>4 DEF Merged, Words
  <2>6. DOMAIN req = {k.chn} /\ \A c \in DOMAIN req : req[c] \in Nat /\ Merged(k)[c] = req[c]
    BY <2>4, <2>5
  <2>7. \A c \in Channels \ DOMAIN req :
           c \notin call[t].since /\ <<k.reg, c>> \notin lost => Merged(k)[c] = field[k.reg][c]
    BY <1>0, <2>4, <2>5, <2>6 DEF ReadIsCurrent
  <2> HIDE DEF req
  <2>8. ServiceTypes' /\ FieldsAsAsked' /\ \A u \in Threads : ReadIsCurrent(u)'
    BY <2>1, <2>4, <2>5, <2>6, <2>7, AfterWrite
  <2> QED BY <2>8 DEF ServiceInv
<1>3. ASSUME NEW t \in Threads, NEW r \in Fields, SetWord(t, r)
      PROVE  ServiceInv'
  <2>1. PICK w \in [Channels -> {Value(r, x) : x \in Args(r)}] : Write(t, r, w, w)
    BY <1>3 DEF SetWord
  <2>2. UNCHANGED <<kind, wild>>
    BY <1>3 DEF SetWord
  <2>4. w \in Words /\ DOMAIN w = Channels /\ \A c \in DOMAIN w : w[c] \in Nat
    BY ValueIsNat DEF Words
  <2>5. ServiceTypes' /\ FieldsAsAsked' /\ \A u \in Threads : ReadIsCurrent(u)'
    BY <1>a, <2>1, <2>2, <2>4, AfterWrite
  <2> QED BY <2>5 DEF ServiceInv
<1>4. ASSUME NEW t \in Threads, NEW set \in {"enable", "limit", "limit of all", "rate", "dest"},
             NEW e \in Channels \cup Beyond, SetEdef(t, set, e)
      PROVE  ServiceInv'
  <2>1. PICK r \in Regs, i \in Channels \cup Beyond :
           /\ UNCHANGED kind
           /\ \/ /\ i \in Created(r)
                 /\ \E x \in EdefWords : Write(t, r, [field[r] EXCEPT ![i] = x], [c \in {i} |-> x])
              \/ UNCHANGED <<field, call, ghosts>>
    <3>1. /\ (IF set = "limit of all" THEN "limit" ELSE set) \in Regs
          /\ (IF set = "limit of all" THEN 0 ELSE e) \in Channels \cup Beyond
      BY ServiceConstants DEF Regs, EdefRegs
    <3> QED BY <1>4, <3>1 DEF SetEdef
  <2>2. CASE UNCHANGED <<field, call, ghosts>>
    BY <1>0, <2>1, <2>2 DEF ghosts, ServiceInv, ServiceTypes, FieldsAsAsked, ReadIsCurrent
  <2>3. ASSUME NEW x \in EdefWords, i \in Created(r),
               Write(t, r, [field[r] EXCEPT ![i] = x], [c \in {i} |-> x])
        PROVE  ServiceInv'
    <3>1. i \in Channels /\ x \in Nat
      BY <1>0, <2>3, ServiceConstants DEF Created, ServiceTypes
    <3>2. PICK v \in Words : v = field[r]
      BY <1>0 DEF ServiceTypes
    <3>3. PICK w \in Words : w = [v EXCEPT ![i] = x]
      BY <3>1, <3>2 DEF Words
    <3>4. PICK req : req = [c \in {i} |-> x]
      OBVIOUS
    <3>5. Write(t, r, w, req)
      BY <2>3, <3>2, <3>3, <3>4
    <3>6. DOMAIN req = {i} /\ req[i] = x /\ w[i] = x /\ \A c \in Channels \ {i} : w[c] = v[c]
      BY <3>1, <3>3, <3>4 DEF Words
    <3>a. /\ DOMAIN req \subseteq Channels /\ \A c \in DOMAIN req : req[c] \in Nat /\ w[c] = req[c]
          /\ \A c \in Channels \ DOMAIN req : w[c] = field[r][c]
      BY <3>1, <3>2, <3>6
    <3>7. ServiceTypes' /\ FieldsAsAsked' /\ \A u \in Threads : ReadIsCurrent(u)'
      BY <2>1, <3>5, <3>a, AfterWrite
    <3> QED BY <3>7 DEF ServiceInv
  <2> QED BY <2>1, <2>2, <2>3
<1>5. CASE UNCHANGED serviceVars
  BY <1>0, <1>5 DEF serviceVars, ghosts, ServiceInv, ServiceTypes, FieldsAsAsked, ReadIsCurrent
<1> QED BY <1>1, <1>2, <1>3, <1>4, <1>5 DEF ServiceNext

\* What a read-modify-write has read stays current but for the channels it will undo.
THEOREM ServiceInvariant == ServiceSpec => []ServiceInv
  BY InitService, StepService, PTL DEF ServiceSpec

\* Setting one channel leaves the others as they were asked for last, however many
\* threads are between reading and writing the word and whatever accesses fail;
\* only a channel another call set in between is undone.
THEOREM SettingsLast == ServiceSpec => []FieldsAsAsked
<1>1. ServiceInv => FieldsAsAsked
  BY DEF ServiceInv
<1> QED BY <1>1, ServiceInvariant, PTL

-----------------------------------------------------------------------------
(* The UDP sender: descriptors                                              *)

\* socket() takes a free descriptor.
LEMMA LowestExists ==
    ASSUME NEW T \in SUBSET Nat, T # {}
    PROVE  Min(T) \in T
<1> DEFINE R == OpToRel(<, Nat)
<1>1. PICK x \in T : \A y \in T : ~(<<y, x>> \in R)
  <2>1. IsWellFoundedOn(R, Nat)
    BY NatLessThanWellFounded, Zenon
  <2> HIDE DEF R
  <2> QED BY <2>1, WFMin, Zenon
<1>2. \A y \in T : ~(y < x)
  <2> TAKE y \in T
  <2>1. y \in Nat /\ x \in Nat
    OBVIOUS
  <2>2. <<y, x>> \in R <=> y < x
    BY <2>1, Zenon DEF OpToRel
  <2> HIDE DEF R
  <2> QED BY <1>1, <2>2
<1> HIDE DEF R
<1>3. \A y \in T : x <= y
  BY <1>2
<1> QED BY <1>3, Zenon DEF Min

\* The descriptor of a sender is its own, and no other but 0 is owned by it;
\* it is in use while it is initialized and after that until it is released.
Holding(h) ==
    /\ sock[h] \in Fds => owner[sock[h]] = h
    /\ \A fd \in Fds \ {0} : owner[fd] = h => sock[h] = fd /\ (h \in live \/ step[h] # 0)
    /\ h \in live => step[h] = Steps + 1

SenderInv ==
    /\ owner \in [Fds -> {"free", "other"} \cup Handles]
    /\ sock \in [Handles -> Fds \cup {NoSocket}]
    /\ step \in [Handles -> 0 .. Steps + 1]
    /\ live \subseteq Handles
    /\ \A h \in Handles : Holding(h)
    /\ lastSend[1] = lastSend[2] /\ ~wrong

\* The invariant of the senders holds at the start.
LEMMA InitSender == SenderInit => SenderInv
<1> SUFFICES ASSUME SenderInit PROVE SenderInv
  OBVIOUS
<1>1. /\ owner \in [Fds -> {"free", "other"} \cup Handles]
      /\ sock \in [Handles -> Fds \cup {NoSocket}]
      /\ step \in [Handles -> 0 .. Steps + 1]
      /\ live \subseteq Handles
  BY SenderConstants DEF SenderInit
<1>2. NoSocket \notin Fds
  BY DEF NoSocket, Fds
<1>3. \A h \in Handles : Holding(h)
  BY <1>2, SenderConstants DEF SenderInit, Holding
<1>4. lastSend[1] = lastSend[2] /\ ~wrong
  BY DEF SenderInit, NoSend
<1> QED BY <1>1, <1>3, <1>4 DEF SenderInv

\* Every system call of a sender or of other code of the process keeps it.
LEMMA StepSender == SenderInv /\ [SenderNext]_senderVars => SenderInv'
<1> SUFFICES ASSUME SenderInv, [SenderNext]_senderVars PROVE SenderInv'
  OBVIOUS
<1> USE SenderConstants
<1>0. /\ owner \in [Fds -> {"free", "other"} \cup Handles]
      /\ sock \in [Handles -> Fds \cup {NoSocket}]
      /\ step \in [Handles -> 0 .. Steps + 1]
      /\ live \subseteq Handles
      /\ \A h \in Handles : Holding(h)
      /\ lastSend[1] = lastSend[2] /\ ~wrong
      /\ NoSocket \notin Fds
      /\ "free" \notin Handles /\ "other" \notin Handles
  BY DEF SenderInv, NoSocket, Fds
<1>a. Free # {} => Min(Free) \in Fds /\ owner[Min(Free)] = "free"
  <2>1. Free \in SUBSET Nat
    BY DEF Free, Fds
  <2>2. Free # {} => Min(Free) \in Free
    BY <2>1, LowestExists, Zenon
  <2> QED BY <2>2 DEF Free
<1>1. CASE OtherOpen
  <2>1. PICK fd \in Fds : owner[fd] = "free" /\ owner' = [owner EXCEPT ![fd] = "other"]
    BY <1>a, <1>1 DEF OtherOpen
  <2>2. UNCHANGED <<sock, live, step, failed, inits, lastSend, wrong>>
    BY <1>1 DEF OtherOpen
  <2>3. \A h \in Handles : Holding(h)'
    BY <1>0, <2>1, <2>2 DEF Holding
  <2> QED BY <1>0, <2>1, <2>2, <2>3 DEF SenderInv
<1>2. ASSUME NEW fd \in Fds, OtherClose(fd) PROVE SenderInv'
  <2>1. /\ owner[fd] = "other" /\ owner' = [owner EXCEPT ![fd] = "free"]
        /\ UNCHANGED <<sock, live, step, failed, inits, lastSend, wrong>>
    BY <1>2 DEF OtherClose
  <2>2. \A h \in Handles : Holding(h)'
    BY <1>0, <2>1 DEF Holding
  <2> QED BY <1>0, <2>1, <2>2 DEF SenderInv
<1>3. ASSUME NEW h \in Handles, Open(h) PROVE SenderInv'
  <2>1. h \notin live /\ step[h] = 0 /\ UNCHANGED <<lastSend, wrong>>
    BY <1>3 DEF Open
  <2>2. \A fd \in Fds \ {0} : owner[fd] # h
    BY <1>0, <2>1 DEF Holding
  <2>3. ASSUME NEW fd \in Fds, owner[fd] = "free", owner' = [owner EXCEPT ![fd] = h],
               sock' = [sock EXCEPT ![h] = fd], step' = [step EXCEPT ![h] = 1],
               UNCHANGED live
        PROVE  SenderInv'
    <3>1. /\ owner' \in [Fds -> {"free", "other"} \cup Handles]
          /\ sock' \in [Handles -> Fds \cup {NoSocket}]
          /\ step' \in [Handles -> 0 .. Steps + 1]
      BY <1>0, <2>3
    <3>2. ASSUME NEW g \in Handles PROVE Holding(g)'
      <4>1. CASE g = h
        BY <1>0, <2>1, <2>2, <2>3, <4>1 DEF Holding
      <4>2. CASE g # h
        BY <1>0, <2>3, <4>2 DEF Holding
      <4> QED BY <4>1, <4>2
    <3> QED BY <1>0, <2>1, <2>3, <3>1, <3>2 DEF SenderInv
  <2>4. CASE /\ sock' = [sock EXCEPT ![h] = NoSocket]
             /\ step' = [step EXCEPT ![h] = Steps + 1]
             /\ live' = live \cup {h} /\ failed' = failed \cup {h} /\ UNCHANGED owner
    <3>1. /\ sock' \in [Handles -> Fds \cup {NoSocket}]
          /\ step' \in [Handles -> 0 .. Steps + 1]
      BY <1>0, <2>4
    <3>2. ASSUME NEW g \in Handles PROVE Holding(g)'
      <4>1. CASE g = h
        BY <1>0, <2>1, <2>2, <2>4, <4>1 DEF Holding
      <4>2. CASE g # h
        BY <1>0, <2>4, <4>2 DEF Holding
      <4> QED BY <4>1, <4>2
    <3> QED BY <1>0, <2>1, <2>4, <3>1, <3>2 DEF SenderInv
  <2> QED BY <1>a, <1>3, <2>3, <2>4 DEF Open
<1>4. ASSUME NEW h \in Handles, Configure(h) PROVE SenderInv'
  <2>1. /\ step[h] \in 1 .. Steps /\ UNCHANGED <<owner, sock, inits, lastSend, wrong>>
        /\ live' = IF step'[h] = Steps + 1 THEN live \cup {h} ELSE live
    BY <1>4 DEF Configure
  <2>2. PICK n \in 1 .. Steps + 1 : step' = [step EXCEPT ![h] = n]
    BY <1>4, <2>1 DEF Configure
  <2>3. step' \in [Handles -> 0 .. Steps + 1] /\ step'[h] = n
    BY <1>0, <2>2
  <2>4. ASSUME NEW g \in Handles PROVE Holding(g)'
    <3>1. CASE g = h
      BY <1>0, <2>1, <2>2, <2>3, <3>1 DEF Holding
    <3>2. CASE g # h
      BY <1>0, <2>1, <2>2, <3>2 DEF Holding
    <3> QED BY <3>1, <3>2
  <2> QED BY <1>0, <2>1, <2>3, <2>4 DEF SenderInv
<1>5. ASSUME NEW h \in Handles, Send(h) PROVE SenderInv'
  <2>1. /\ lastSend' = (IF sock[h] \in Fds THEN <<h, owner[sock[h]]>> ELSE NoSend)
        /\ UNCHANGED <<owner, sock, live, step, failed, inits, wrong>>
    BY <1>5 DEF Send
  <2>2. lastSend'[1] = lastSend'[2]
    BY <1>0, <2>1 DEF Holding, NoSend
  <2> QED BY <1>0, <2>1, <2>2 DEF SenderInv, Holding
<1>6. ASSUME NEW h \in Handles, Release(h) PROVE SenderInv'
  <2> DEFINE closed == IF Closes(h) THEN {sock[h]} \cap Fds ELSE {}
  <2>1. /\ h \in live /\ live' = live \ {h}
        /\ step' = [step EXCEPT ![h] = 0] /\ sock' = [sock EXCEPT ![h] = NoSocket]
        /\ owner' = [fd \in Fds |-> IF fd \in closed THEN "free" ELSE owner[fd]]
        /\ wrong' = (wrong \/ \E fd \in closed : owner[fd] # h)
        /\ UNCHANGED <<failed, inits, lastSend>>
    BY <1>6 DEF Release
  <2>2. \A fd \in closed : fd = sock[h] /\ owner[fd] = h
    BY <1>0, <2>1 DEF Holding
  <2>3. \A fd \in Fds \ {0} : owner[fd] = h => fd \in closed
    BY <1>0, <2>1 DEF Holding, Closes
  <2> HIDE DEF closed
  <2>4. /\ owner' \in [Fds -> {"free", "other"} \cup Handles]
        /\ sock' \in [Handles -> Fds \cup {NoSocket}]
        /\ step' \in [Handles -> 0 .. Steps + 1]
    BY <1>0, <2>1
  <2>5. ~wrong'
    BY <1>0, <2>1, <2>2
  <2>6. ASSUME NEW g \in Handles PROVE Holding(g)'
    <3>1. CASE g = h
      BY <1>0, <2>1, <2>3, <3>1 DEF Holding
    <3>2. CASE g # h
      BY <1>0, <2>1, <2>2, <3>2 DEF Holding
    <3> QED BY <3>1, <3>2
  <2> QED BY <1>0, <2>1, <2>4, <2>5, <2>6 DEF SenderInv
<1>7. CASE UNCHANGED senderVars
  BY <1>0, <1>7 DEF senderVars, SenderInv, Holding
<1> QED BY <1>1, <1>2, <1>3, <1>4, <1>5, <1>6, <1>7 DEF SenderNext

\* For any number of senders and descriptors: datagrams go out on the sender's own
\* socket, no sender closes what it did not open, and only descriptor 0 is leaked.
THEOREM SendersKeepApart == SenderSpec => []OwnDescriptor
<1>3. SenderInv => OwnDescriptor
  BY DEF SenderInv, Holding, OwnDescriptor
<1> QED BY InitSender, StepSender, <1>3, PTL DEF SenderSpec

-----------------------------------------------------------------------------
(* The client: its state                                                    *)

Slots == 0 .. 2 * Depth - 1

Buffers == [next : 0 .. Depth - 1, nset : 0 .. Depth, v : [Slots -> Pids]]

\* The second half of the vector is a copy of the first.
Doubled(b) == \A i \in 0 .. Depth - 1 : b.v[i] = b.v[i + Depth]

BuffersOK ==
    /\ buf \in [Waves -> Buffers]
    /\ \A w \in Waves : Doubled(buf[w])
    /\ last \in Pids
    /\ col \in Waves

\* The waveforms are empty only before the first append since their clear, and
\* an update that will say that something changed has appended, or is going to.
NotEmpty ==
    /\ hist # <<>> => buf[0].nset > 0
    /\ at = "reset" /\ returns # 0 => left > 0
    /\ at = "append" /\ returns # 0 => left > 0 \/ hist # <<>>
    /\ at = "append" /\ col > 0 => left > 0 /\ hist # <<>>
    /\ at = "flush" => hist # <<>>

CountersOK ==
    /\ left \in Nat /\ nacq \in Nat /\ returns \in Nat /\ hist \in Seq(Pids)
    /\ at \in {"poll", "reset", "append", "flush"}
    /\ fault \in BOOLEAN

ClientInv == BuffersOK /\ CountersOK /\ NotEmpty

-----------------------------------------------------------------------------
(* The client: one buffer *)

\* The values shown are read inside of the vector, and are a sequence.
LEMMA ContentsProperties ==
    ASSUME NEW b \in Buffers
    PROVE  /\ Contents(b) \in Seq(Pids)
           /\ Len(Contents(b)) = b.nset
           /\ \A i \in 1 .. b.nset : Contents(b)[i] = b.v[Depth + b.next - b.nset + i - 1]
<1> USE ClientConstants
<1>1. /\ b.next \in 0 .. Depth - 1 /\ b.nset \in 0 .. Depth
      /\ b.v \in [Slots -> Pids]
  BY DEF Buffers
<1>2. ASSUME NEW i \in 1 .. b.nset
      PROVE  /\ Depth + b.next - b.nset + i - 1 \in Slots
             /\ Item(b, i - 1) = b.v[Depth + b.next - b.nset + i - 1]
             /\ Item(b, i - 1) \in Pids
  <2>1. Index(b, i - 1) = Depth + b.next - b.nset + i - 1 /\ Index(b, i - 1) \in Slots
    BY <1>1 DEF Index, Slots
  <2>2. Index(b, i - 1) < 2 * Depth
    BY <2>1 DEF Slots
  <2>3. Item(b, i - 1) = b.v[Index(b, i - 1)]
    BY <2>2 DEF Item
  <2> QED BY <1>1, <2>1, <2>3
<1>3. Contents(b) \in [1 .. b.nset -> Pids]
  BY <1>2 DEF Contents
<1>4. b.nset \in Nat
  BY <1>1
<1>5. Contents(b) \in Seq(Pids)
  BY <1>3, <1>4, SeqDef
<1>6. DOMAIN Contents(b) = 1 .. b.nset
  BY DEF Contents
<1>7. Len(Contents(b)) = b.nset
  BY <1>4, <1>5, <1>6, LenProperties
<1> QED BY <1>2, <1>5, <1>7 DEF Contents

\* append() keeps the buffer well formed.
LEMMA AppendedBuffer ==
    ASSUME NEW b \in Buffers, Doubled(b), NEW x \in Pids
    PROVE  /\ Appended(b, x) \in Buffers
           /\ Doubled(Appended(b, x))
           /\ Appended(b, x).nset > 0
<1> USE ClientConstants
<1> DEFINE c == Appended(b, x)
<1>1. /\ b.next \in 0 .. Depth - 1 /\ b.nset \in 0 .. Depth
      /\ b.v \in [Slots -> Pids]
  BY DEF Buffers
<1>2. c.next \in 0 .. Depth - 1 /\ c.nset \in 1 .. Depth
  BY <1>1 DEF Appended, After, OneMore
<1>3. c.v = [b.v EXCEPT ![b.next] = x, ![b.next + Depth] = x]
  BY DEF Appended
<1>4. b.next \in Slots /\ b.next + Depth \in Slots
  BY <1>1 DEF Slots
<1>5. c.v \in [Slots -> Pids]
  BY <1>1, <1>3, <1>4
<1>6. c \in Buffers
  <2>1. c = [next |-> c.next, nset |-> c.nset, v |-> c.v]
    BY DEF Appended
  <2> QED BY <1>2, <1>5, <2>1 DEF Buffers
<1>7. \A i \in 0 .. Depth - 1 : c.v[i] = c.v[i + Depth]
  <2>1. \A j \in Slots : c.v[j] = IF j \in {b.next, b.next + Depth} THEN x ELSE b.v[j]
    <3> HIDE DEF c
    <3> QED BY <1>1, <1>3, <1>4
  <2> TAKE i \in 0 .. Depth - 1
  <2>2. i \in Slots /\ i + Depth \in Slots
    BY DEF Slots
  <2>3. i \in {b.next, b.next + Depth} <=> i + Depth \in {b.next, b.next + Depth}
    BY <1>1
  <2>4. b.v[i] = b.v[i + Depth]
    BY DEF Doubled
  <2> HIDE DEF c
  <2> QED BY <2>1, <2>2, <2>3, <2>4
<1> QED BY <1>2, <1>6, <1>7 DEF Doubled

\* append() shows the value last and drops the oldest one of a full buffer.
LEMMA AppendedContents ==
    ASSUME NEW b \in Buffers, Doubled(b), NEW x \in Pids
    PROVE  Contents(Appended(b, x)) =
               IF Len(Contents(b)) < Depth THEN Append(Contents(b), x)
                                           ELSE Append(Tail(Contents(b)), x)
<1> USE ClientConstants
<1> DEFINE c == Appended(b, x)
           s == Contents(b)
           t == Contents(c)
<1>1. /\ b.next \in 0 .. Depth - 1 /\ b.nset \in 0 .. Depth
      /\ b.v \in [Slots -> Pids]
  BY DEF Buffers
<1>2. /\ c \in Buffers
      /\ c.next = After(b.next) /\ c.nset = OneMore(b.nset)
      /\ c.v = [b.v EXCEPT ![b.next] = x, ![b.next + Depth] = x]
  BY AppendedBuffer DEF Appended
<1>3. /\ s \in Seq(Pids) /\ Len(s) = b.nset
      /\ \A i \in 1 .. b.nset : s[i] = b.v[Depth + b.next - b.nset + i - 1]
  BY ContentsProperties
<1>4. /\ t \in Seq(Pids) /\ Len(t) = c.nset
      /\ \A i \in 1 .. c.nset : t[i] = c.v[Depth + c.next - c.nset + i - 1]
  BY <1>2, ContentsProperties
<1>5. b.next \in Slots /\ b.next + Depth \in Slots
  BY <1>1 DEF Slots
<1>6. /\ c.v[b.next] = x /\ c.v[b.next + Depth] = x
      /\ \A j \in Slots \ {b.next, b.next + Depth} : c.v[j] = b.v[j]
  BY <1>1, <1>2, <1>5
<1>7. t[c.nset] = x
  <2>1. c.nset \in 1 .. Depth
    BY <1>1, <1>2 DEF OneMore
  <2>2. t[c.nset] = c.v[Depth + c.next - 1]
    <3>1. c.next \in Int /\ c.nset \in 1 .. c.nset
      BY <1>1, <1>2, <2>1 DEF After
    <3>2. Depth + c.next - c.nset + c.nset - 1 = Depth + c.next - 1
      BY <2>1, <3>1
    <3>3. t[c.nset] = c.v[Depth + c.next - c.nset + c.nset - 1]
      <4> HIDE DEF t, c
      <4> QED BY <1>4, <3>1
    <3> QED BY <3>2, <3>3
  <2>3. Depth + c.next - 1 \in {b.next, b.next + Depth}
    BY <1>1, <1>2 DEF After
  <2> QED BY <1>6, <2>2, <2>3
\* The other values shown keep their place in the ring, or move to its copy.
<1>8. ASSUME NEW i \in 1 .. c.nset - 1
      PROVE  t[i] = b.v[Depth + b.next - c.nset + i]
  <2>1. c.nset \in 1 .. Depth
    BY <1>1, <1>2 DEF OneMore
  <2>2. t[i] = c.v[Depth + c.next - c.nset + i - 1]
    BY <1>4, <2>1
  <2>3. CASE b.next + 1 # Depth
    <3>1. c.next = b.next + 1
      BY <1>2, <2>3 DEF After
    <3>2. Depth + c.next - c.nset + i - 1 = Depth + b.next - c.nset + i
      BY <1>1, <2>1, <3>1
    <3>3. Depth + b.next - c.nset + i \in Slots \ {b.next, b.next + Depth}
      <4> HIDE DEF c
      <4> QED BY <1>1, <2>1 DEF Slots
    <3> QED BY <1>6, <2>2, <3>2, <3>3
  <2>4. CASE b.next + 1 = Depth
    <3> DEFINE j == Depth - c.nset + i - 1
    <3>1. c.next = 0
      BY <1>2, <2>4 DEF After
    <3>2. j \in 0 .. Depth - 1 /\ j \in Slots \ {b.next, b.next + Depth}
      <4>1. b.next = Depth - 1 /\ i \in 1 .. c.nset - 1
        BY <1>1, <2>4
      <4>2. j \in 0 .. Depth - 2
        <5> HIDE DEF c
        <5> QED BY <2>1
      <4> HIDE DEF c, j
      <4>3. j \in 0 .. Depth - 1 /\ j \in 0 .. 2 * Depth - 1
        BY <4>2
      <4>4. j # b.next /\ j # b.next + Depth
        BY <4>1, <4>2
      <4> QED BY <4>3, <4>4 DEF Slots
    <3>3. Depth + c.next - c.nset + i - 1 = j
      BY <2>1, <3>1
    <3>4. Depth + b.next - c.nset + i = j + Depth
      BY <1>1, <2>1, <2>4
    <3>5. t[i] = b.v[j]
      BY <1>6, <2>2, <3>2, <3>3
    <3>6. b.v[j] = b.v[j + Depth]
      BY <3>2 DEF Doubled
    <3> QED BY <3>4, <3>5, <3>6
  <2> QED BY <2>3, <2>4
<1>9. CASE b.nset < Depth
  <2> DEFINE u == Append(s, x)
  <2>1. c.nset = b.nset + 1
    BY <1>1, <1>2, <1>9 DEF OneMore
  <2>2. u \in Seq(Pids) /\ Len(u) = b.nset + 1 /\ u[b.nset + 1] = x
    BY <1>3
  <2>3. \A i \in 1 .. b.nset : u[i] = s[i]
    BY <1>3
  <2>4. \A i \in 1 .. b.nset : t[i] = s[i]
    <3> TAKE i \in 1 .. b.nset
    <3>1. i \in 1 .. c.nset - 1
      BY <1>1, <2>1
    <3>2. Depth + b.next - c.nset + i = Depth + b.next - b.nset + i - 1
      BY <1>1, <2>1
    <3> QED BY <1>3, <1>8, <3>1, <3>2
  <2>5. \A i \in 1 .. Len(t) : t[i] = u[i]
    BY <1>1, <1>4, <1>7, <2>1, <2>2, <2>3, <2>4
  <2>6. t = u
    <3>1. Len(t) = Len(u)
      BY <1>4, <2>1, <2>2
    <3> HIDE DEF t, u
    <3> QED BY <1>4, <2>2, <2>5, <3>1, SeqEqual
  <2> QED BY <1>3, <1>9, <2>6
<1>10. CASE ~(b.nset < Depth)
  <2> DEFINE r == Tail(s)
             u == Append(r, x)
  <2>1. c.nset = Depth /\ b.nset = Depth
    BY <1>1, <1>2, <1>10 DEF OneMore
  <2>2. s # <<>>
    BY <1>3, <2>1
  <2>3. /\ r \in Seq(Pids) /\ Len(r) = Depth - 1
        /\ \A i \in 1 .. Depth - 1 : r[i] = s[i + 1]
    <3> HIDE DEF s
    <3>1. /\ r \in Seq(Pids) /\ Len(r) = Len(s) - 1
          /\ \A i \in 1 .. Len(r) : r[i] = s[i + 1]
      BY <1>3, <2>2, HeadTailProperties
    <3> QED BY <1>3, <2>1, <3>1
  <2>4. u \in Seq(Pids) /\ Len(u) = Depth /\ u[Depth] = x
    <3> HIDE DEF r
    <3> QED BY <2>3
  <2>5. \A i \in 1 .. Depth - 1 : u[i] = r[i]
    <3> HIDE DEF r
    <3> QED BY <2>3
  <2>6. \A i \in 1 .. Depth - 1 : t[i] = r[i]
    <3> TAKE i \in 1 .. Depth - 1
    <3>1. i \in 1 .. c.nset - 1 /\ i + 1 \in 1 .. b.nset
      BY <2>1
    <3>2. Depth + b.next - c.nset + i = Depth + b.next - b.nset + (i + 1) - 1
      BY <1>1, <2>1
    <3>3. t[i] = b.v[Depth + b.next - c.nset + i]
      BY <1>8, <3>1
    <3>4. s[i + 1] = b.v[Depth + b.next - b.nset + (i + 1) - 1]
      BY <1>3, <3>1
    <3>5. r[i] = s[i + 1]
      BY <2>3
    <3> HIDE DEF r, s, t
    <3> QED BY <3>2, <3>3, <3>4, <3>5
  <2>7. \A i \in 1 .. Len(t) : t[i] = u[i]
    <3> HIDE DEF u, t, r
    <3>1. Len(t) = Depth /\ t[Depth] = x
      BY <1>4, <1>7, <2>1
    <3> QED BY <2>4, <2>5, <2>6, <3>1
  <2>8. t = u
    <3>1. Len(t) = Len(u)
      BY <1>4, <2>1, <2>4
    <3> HIDE DEF t, u
    <3> QED BY <1>4, <2>4, <2>7, <3>1, SeqEqual
  <2> QED BY <1>3, <1>10, <2>8
<1> QED BY <1>9, <1>10

\* clear() keeps the buffer well formed and shows nothing.
LEMMA ClearedContents ==
    ASSUME NEW b \in Buffers, Doubled(b)
    PROVE  /\ ClearedBuffer(b) \in Buffers /\ Doubled(ClearedBuffer(b))
           /\ Contents(ClearedBuffer(b)) = <<>>
<1> USE ClientConstants
<1> DEFINE c == ClearedBuffer(b)
<1>1. c \in Buffers /\ c.nset = 0 /\ c.v = b.v
  BY DEF ClearedBuffer, Buffers
<1>2. Contents(c) \in Seq(Pids) /\ Len(Contents(c)) = 0
  BY <1>1, ContentsProperties
<1>3. Contents(c) = <<>>
  <2> HIDE DEF c
  <2> QED BY <1>2, EmptySeq
<1> QED BY <1>1, <1>3 DEF Doubled

-----------------------------------------------------------------------------
(* The client: the inductive invariant *)

\* It holds at the start.
LEMMA InitClient == ClientInit => ClientInv
<1> USE ClientConstants
<1> SUFFICES ASSUME ClientInit PROVE ClientInv
  OBVIOUS
<1>1. 0 \in Pids /\ 0 \in Waves
  BY DEF Pids, Waves
<1>2. NewBuffer \in Buffers /\ Doubled(NewBuffer)
  <2>1. [i \in 0 .. 2 * Depth - 1 |-> 0] \in [Slots -> Pids]
    BY <1>1 DEF Slots
  <2>2. 0 \in 0 .. Depth - 1 /\ 0 \in 0 .. Depth
    OBVIOUS
  <2>3. NewBuffer \in Buffers
    BY <2>1, <2>2 DEF NewBuffer, Buffers
  <2>4. \A i \in 0 .. Depth - 1 : i \in Slots /\ i + Depth \in Slots
    BY DEF Slots
  <2> QED BY <2>3, <2>4 DEF NewBuffer, Doubled, Slots
<1>3. BuffersOK
  BY <1>1, <1>2 DEF ClientInit, BuffersOK
<1>4. CountersOK /\ NotEmpty
  BY DEF ClientInit, CountersOK, NotEmpty
<1> QED BY <1>3, <1>4 DEF ClientInv

\* One callback changes one buffer: what must be shown of it is enough.
LEMMA OneBuffer ==
    ASSUME BuffersOK, NEW b, b \in Buffers, Doubled(b),
           buf' = [buf EXCEPT ![col] = b], last' \in Pids, col' \in Waves
    PROVE  BuffersOK'
<1>1. buf' \in [Waves -> Buffers]
  BY DEF BuffersOK
<1>2. \A w \in Waves : buf'[w] = IF w = col THEN b ELSE buf[w]
  BY DEF BuffersOK
<1> QED BY <1>1, <1>2 DEF BuffersOK

\* Every step of the client keeps it.
LEMMA StepClient == ClientInv /\ [ClientNext]_clientVars => ClientInv'
<1> USE ClientConstants
<1> SUFFICES ASSUME ClientInv, [ClientNext]_clientVars PROVE ClientInv'
  OBVIOUS
<1>0. 0 \in Waves /\ 0 \in Pids /\ (col < NPvs => col + 1 \in Waves) /\ (NPvs > 0 => 1 \in Waves)
  BY DEF ClientInv, BuffersOK, Waves, Pids
<1>1. CASE Update
  <2>1. BuffersOK'
    BY <1>0, <1>1 DEF Update, Going, ClientInv, BuffersOK
  <2>2. PICK k \in 0 .. MaxFetch, op \in {"new", "more", "abort"} :
           /\ op = "abort" => k = 0
           /\ op = "new" => k > 0
           /\ op = "more" /\ ~fault /\ nacq > 0 /\ hist = <<>> => k > 0
           /\ at' = (IF op = "more" THEN "append" ELSE "reset") /\ col' = 0
           /\ left' = k
           /\ nacq' = IF op = "abort" THEN nacq ELSE IF op = "more" /\ ~fault THEN nacq + k ELSE k
           /\ returns' = IF op = "abort" THEN 0 ELSE nacq'
    BY <1>1 DEF Update, Going
  <2>3. UNCHANGED <<buf, fault, hist>>
    BY <1>1 DEF Update
  <2>4. CountersOK'
    BY <2>2, <2>3 DEF ClientInv, CountersOK
  <2>5. NotEmpty'
    BY <2>2, <2>3 DEF ClientInv, CountersOK, NotEmpty
  <2> QED BY <2>1, <2>4, <2>5 DEF ClientInv
<1>2. CASE ResetWave
  <2>1. buf' = [buf EXCEPT ![col] = ClearedBuffer(buf[col])] /\ last' = last /\ hist' = <<>>
    BY <1>2 DEF ResetWave
  <2>2. buf[col] \in Buffers /\ Doubled(buf[col])
    BY DEF ClientInv, BuffersOK
  <2>3. col' \in Waves
    BY <1>0, <1>2 DEF ResetWave, Going, ClientInv, BuffersOK
  <2>4. BuffersOK'
    BY <2>1, <2>2, <2>3, ClearedContents, OneBuffer DEF ClientInv, BuffersOK
  <2>5. CountersOK'
    BY <1>2, <2>1, EmptySeq DEF ResetWave, Going, ClientInv, CountersOK
  <2>6. NotEmpty'
    BY <1>2, <2>1 DEF ResetWave, Going, ClientInv, CountersOK, NotEmpty
  <2> QED BY <2>4, <2>5, <2>6 DEF ClientInv
<1>3. CASE AppendPid
  <2>1. PICK d \in Strides :
           /\ last + d <= MaxPid /\ last' = last + d
           /\ buf' = [buf EXCEPT ![0] = Appended(buf[0], last + d)]
           /\ hist' = Append(hist, last + d)
    BY <1>3 DEF AppendPid
  <2>2. last' \in Pids
    BY <2>1 DEF ClientInv, BuffersOK, Pids
  <2>3. /\ col = 0 /\ buf[0] \in Buffers /\ Doubled(buf[0])
        /\ Appended(buf[0], last') \in Buffers /\ Doubled(Appended(buf[0], last'))
        /\ Appended(buf[0], last').nset > 0
    BY <1>0, <1>3, <2>2, AppendedBuffer DEF AppendPid, ClientInv, BuffersOK
  <2>4. col' \in Waves
    BY <1>0, <1>3 DEF AppendPid
  <2>5. BuffersOK'
    BY <2>1, <2>2, <2>3, <2>4, OneBuffer DEF ClientInv
  <2>6. hist' \in Seq(Pids) /\ hist' # <<>>
    BY <2>1, <2>2 DEF ClientInv, CountersOK
  <2>7. CountersOK'
    BY <1>3, <2>6 DEF AppendPid, ClientInv, CountersOK
  <2>8. buf'[0].nset > 0
    BY <1>0, <2>1, <2>3 DEF ClientInv, BuffersOK
  <2>9. NotEmpty'
    BY <1>3, <2>6, <2>8 DEF AppendPid, NotEmpty
  <2> QED BY <2>5, <2>7, <2>9 DEF ClientInv
<1>4. CASE AppendChannel
  <2>1. buf' = [buf EXCEPT ![col] = Appended(buf[col], last)] /\ last' = last /\ hist' = hist
    BY <1>4 DEF AppendChannel
  <2>2. /\ buf[col] \in Buffers /\ Doubled(buf[col]) /\ last \in Pids
        /\ Appended(buf[col], last) \in Buffers /\ Doubled(Appended(buf[col], last))
    BY AppendedBuffer DEF ClientInv, BuffersOK
  <2>3. col' \in Waves
    BY <1>0, <1>4 DEF AppendChannel
  <2>4. BuffersOK'
    BY <2>1, <2>2, <2>3, OneBuffer DEF ClientInv
  <2>5. left > 0 /\ hist # <<>>
    BY <1>4 DEF AppendChannel, ClientInv, NotEmpty
  <2>6. CountersOK'
    BY <1>4, <2>5 DEF AppendChannel, ClientInv, CountersOK
  <2>7. buf'[0] = buf[0]
    BY <1>0, <1>4 DEF AppendChannel, ClientInv, BuffersOK
  <2>8. NotEmpty'
    BY <1>4, <2>5, <2>7 DEF AppendChannel, ClientInv, NotEmpty
  <2> QED BY <2>4, <2>6, <2>8 DEF ClientInv
<1>5. CASE Return
  <2>1. BuffersOK'
    BY <1>0, <1>5 DEF Return, Going, ClientInv, BuffersOK
  <2>2. CountersOK'
    BY <1>5 DEF Return, Going, ClientInv, CountersOK
  <2>3. NotEmpty'
    BY <1>5 DEF Return, Going, ClientInv, NotEmpty
  <2> QED BY <2>1, <2>2, <2>3 DEF ClientInv
<1>6. CASE Flush
  <2>1. col' \in Waves
    BY <1>0, <1>6 DEF Flush, Going, ClientInv, BuffersOK, Waves
  <2>2. BuffersOK'
    BY <1>6, <2>1 DEF Flush, ClientInv, BuffersOK
  <2>3. CountersOK' /\ NotEmpty'
    BY <1>6 DEF Flush, Going, ClientInv, CountersOK, NotEmpty
  <2> QED BY <2>2, <2>3 DEF ClientInv
<1>7. CASE UNCHANGED clientVars
  BY <1>7 DEF clientVars, ClientInv, BuffersOK, CountersOK, NotEmpty
<1> QED BY <1>1, <1>2, <1>3, <1>4, <1>5, <1>6, <1>7 DEF ClientNext

\* It always holds.
LEMMA AlwaysClient == ClientSpec => []ClientInv
<1>1. ClientInit => ClientInv
  BY InitClient
<1>2. ClientInv /\ [ClientNext]_clientVars => ClientInv'
  BY StepClient
<1> QED BY <1>1, <1>2, PTL DEF ClientSpec

-----------------------------------------------------------------------------

\* flush() reads the first two pulse ids inside of the vector, whatever the size
\* and however often the waveforms were cleared before.
THEOREM FlushReadsInside == ClientSpec => []FlushInBounds
<1>1. ClientInv => FlushInBounds
  <2> USE ClientConstants
  <2> SUFFICES ASSUME ClientInv, at = "flush", NEW i \in {0, 1}
               PROVE  Index(buf[0], i) \in 0 .. 2 * Depth - 1
    BY DEF FlushInBounds
  <2>1. buf[0] \in Buffers
    BY DEF ClientInv, BuffersOK, Waves
  <2>2. buf[0].nset \in 1 .. Depth /\ buf[0].next \in 0 .. Depth - 1
    BY <2>1 DEF ClientInv, NotEmpty, Buffers
  <2> QED BY <2>2 DEF Index
<1> QED BY <1>1, AlwaysClient, PTL

-----------------------------------------------------------------------------
(* The client: the refinement *)

\* The waveforms as their reader sees them.
Shown == [w \in Waves |-> Contents(buf[w])]

\* What is shown at the start is an empty window.
LEMMA InitShown == ClientInit => Window!Init
<1> USE ClientConstants
<1> SUFFICES ASSUME ClientInit, NEW w \in Waves PROVE Contents(buf[w]) = <<>>
  BY DEF Window!Init
<1>1. ClientInv
  BY InitClient
<1>2. buf[w] \in Buffers /\ buf[w].nset = 0
  BY <1>1 DEF ClientInit, NewBuffer, ClientInv, BuffersOK
<1>3. Contents(buf[w]) \in Seq(Pids) /\ Len(Contents(buf[w])) = 0
  BY <1>2, ContentsProperties
<1> QED BY <1>3, EmptySeq

\* A callback that changes one buffer changes what its reader sees, and nothing
\* else.
LEMMA OneShown ==
    ASSUME BuffersOK, NEW b, NEW w \in Waves, buf' = [buf EXCEPT ![w] = b]
    PROVE  Shown' = [Shown EXCEPT ![w] = Contents(b)]
<1>1. Shown' = [u \in Waves |-> Contents(buf'[u])]
  BY DEF Shown
<1>2. \A u \in Waves : buf'[u] = IF u = w THEN b ELSE buf[u]
  BY DEF BuffersOK
<1>3. \A u \in Waves : Contents(buf'[u]) = IF u = w THEN Contents(b) ELSE Contents(buf[u])
  BY <1>2
<1> QED BY <1>1, <1>3 DEF Shown

\* append() is a Push.
LEMMA AppendIsPush ==
    ASSUME BuffersOK, NEW w \in Waves, NEW x \in Pids,
           buf' = [buf EXCEPT ![w] = Appended(buf[w], x)]
    PROVE  Window!Push(w, x)
<1>1. buf[w] \in Buffers /\ Doubled(buf[w])
  BY DEF BuffersOK
<1>2. Shown[w] = Contents(buf[w])
  BY DEF Shown
<1>3. Contents(Appended(buf[w], x)) =
          IF Len(Shown[w]) < Depth THEN Append(Shown[w], x) ELSE Append(Tail(Shown[w]), x)
  BY <1>1, <1>2, AppendedContents
<1>4. Shown' = [Shown EXCEPT ![w] = Contents(Appended(buf[w], x))]
  BY OneShown
<1> QED BY <1>3, <1>4 DEF Window!Push, Shown

\* clear() is a Clear.
LEMMA ClearIsClear ==
    ASSUME BuffersOK, NEW w \in Waves, buf' = [buf EXCEPT ![w] = ClearedBuffer(buf[w])]
    PROVE  Window!Clear(w)
<1>1. Contents(ClearedBuffer(buf[w])) = <<>>
  BY ClearedContents DEF BuffersOK
<1>2. Shown' = [Shown EXCEPT ![w] = Contents(ClearedBuffer(buf[w]))]
  BY OneShown
<1> QED BY <1>1, <1>2 DEF Window!Clear, Shown

\* Every step is one of the window, or leaves what is shown alone.
LEMMA StepShown == ClientInv /\ [ClientNext]_clientVars => [Window!Next]_Shown
<1> USE ClientConstants
<1> SUFFICES ASSUME ClientInv, [ClientNext]_clientVars PROVE [Window!Next]_Shown
  OBVIOUS
<1>0. BuffersOK /\ 0 \in Waves /\ col \in Waves /\ last \in Pids
  BY DEF ClientInv, BuffersOK, Waves
<1>1. CASE buf' = buf
  BY <1>1 DEF Shown
<1>2. CASE ResetWave
  <2>1. Window!Clear(col)
    BY <1>0, <1>2, ClearIsClear DEF ResetWave
  <2> QED BY <1>0, <2>1 DEF Window!Next
<1>3. CASE AppendPid
  <2>1. PICK d \in Strides : last + d <= MaxPid /\ buf' = [buf EXCEPT ![0] = Appended(buf[0], last + d)]
    BY <1>3 DEF AppendPid
  <2>2. last + d \in Pids
    BY <1>0, <2>1 DEF Pids
  <2>3. Window!Push(0, last + d)
    BY <1>0, <2>1, <2>2, AppendIsPush
  <2> QED BY <1>0, <2>2, <2>3 DEF Window!Next
<1>4. CASE AppendChannel
  <2>1. Window!Push(col, last)
    BY <1>0, <1>4, AppendIsPush DEF AppendChannel
  <2> QED BY <1>0, <2>1 DEF Window!Next
<1> QED BY <1>1, <1>2, <1>3, <1>4 DEF ClientNext, Update, Return, Flush, clientVars

\* The doubled rings implement the abstract waveforms: every callback is one
\* clear or append of one waveform, or changes nothing that a reader sees.
THEOREM RingsShowNewest == ClientSpec => ShowsNewest
<1>1. ClientInit => Window!Init
  BY InitShown
<1>2. ClientInv /\ [ClientNext]_clientVars => [Window!Next]_Shown
  BY StepShown
<1> QED BY <1>1, <1>2, AlwaysClient, PTL DEF ClientSpec, ShowsNewest, Window!Spec, Shown

-----------------------------------------------------------------------------
(* The client: what the waveforms have in common *)

Pushed(s, x) == IF Len(s) < Depth THEN Append(s, x) ELSE Append(Tail(s), x)

\* The newest of a sequence, element by element.
LEMMA NewestElements ==
    ASSUME NEW s \in Seq(Pids)
    PROVE  /\ NewestOf(s) \in Seq(Pids)
           /\ Len(NewestOf(s)) = IF Len(s) > Depth THEN Depth ELSE Len(s)
           /\ \A i \in 1 .. Len(NewestOf(s)) : NewestOf(s)[i] = s[Len(s) - Len(NewestOf(s)) + i]
<1> USE ClientConstants
<1>1. CASE Len(s) > Depth
  BY <1>1 DEF NewestOf
<1>2. CASE ~(Len(s) > Depth)
  <2>1. NewestOf(s) = s
    BY <1>2 DEF NewestOf
  <2> QED BY <1>2, <2>1
<1> QED BY <1>1, <1>2

\* One more element pushes the oldest one out.
LEMMA NewestAppended ==
    ASSUME NEW s \in Seq(Pids), NEW x \in Pids
    PROVE  NewestOf(Append(s, x)) = Pushed(NewestOf(s), x)
<1> USE ClientConstants
<1>1. PICK n \in Nat : n = Len(s)
  OBVIOUS
<1>2. PICK r \in Seq(Pids) : r = NewestOf(s)
  BY NewestElements
<1>3. PICK m \in Nat : m = Len(r)
  OBVIOUS
<1>4. m = (IF n > Depth THEN Depth ELSE n) /\ \A i \in 1 .. m : r[i] = s[n - m + i]
  BY <1>1, <1>2, <1>3, NewestElements
<1>5. PICK t \in Seq(Pids) : t = Append(s, x)
  <2>1. Append(s, x) \in Seq(Pids)
    OBVIOUS
  <2> QED BY <2>1
<1>6. Len(t) = n + 1 /\ t[n + 1] = x /\ \A i \in 1 .. n : t[i] = s[i]
  BY <1>1, <1>5
<1>7. PICK u \in Seq(Pids) : u = NewestOf(t)
  BY NewestElements
<1>8. PICK k \in Nat : k = Len(u)
  OBVIOUS
<1>9. k = (IF n + 1 > Depth THEN Depth ELSE n + 1) /\ \A i \in 1 .. k : u[i] = t[n + 1 - k + i]
  <2>1. /\ Len(NewestOf(t)) = (IF Len(t) > Depth THEN Depth ELSE Len(t))
        /\ \A i \in 1 .. Len(NewestOf(t)) : NewestOf(t)[i] = t[Len(t) - Len(NewestOf(t)) + i]
    BY NewestElements
  <2> QED BY <1>6, <1>7, <1>8, <2>1
<1>10. CASE m < Depth
  <2>1. k = m + 1 /\ m = n
    BY <1>4, <1>9, <1>10
  <2>2. PICK v \in Seq(Pids) : v = Append(r, x)
    <3>1. Append(r, x) \in Seq(Pids)
      OBVIOUS
    <3> QED BY <3>1
  <2>3. Len(v) = k /\ v[k] = x /\ \A i \in 1 .. m : v[i] = r[i]
    <3>1. Len(v) = Len(r) + 1 /\ v[Len(r) + 1] = x /\ \A i \in 1 .. Len(r) : v[i] = r[i]
      BY <2>2
    <3>2. Len(r) = m /\ Len(r) + 1 = k
      BY <1>3, <2>1
    <3> QED BY <3>1, <3>2
  <2>4. \A i \in 1 .. k : u[i] = v[i]
    <3> TAKE i \in 1 .. k
    <3>1. u[i] = t[i]
      <4>1. n + 1 - k + i = i
        BY <2>1
      <4> QED BY <1>9, <4>1
    <3>2. CASE i = n + 1
      BY <1>6, <2>1, <2>3, <3>1, <3>2
    <3>3. CASE i # n + 1
      <4>1. i \in 1 .. n /\ i \in 1 .. m
        BY <2>1, <3>3
      <4>2. r[i] = s[i]
        <5>1. r[i] = s[n - m + i] /\ n - m + i = i
          BY <1>4, <2>1, <4>1
        <5> QED BY <5>1
      <4> QED BY <1>6, <2>3, <3>1, <4>1, <4>2
    <3> QED BY <3>2, <3>3
  <2>5. u = v
    BY <1>8, <2>3, <2>4, SeqEqual
  <2> QED BY <1>2, <1>3, <1>5, <1>7, <1>10, <2>2, <2>5 DEF Pushed
<1>11. CASE ~(m < Depth)
  <2>1. k = Depth /\ m = Depth /\ n >= Depth
    BY <1>4, <1>9, <1>11
  <2>a. /\ Tail(r) \in Seq(Pids) /\ Len(Tail(r)) = Len(r) - 1
        /\ \A i \in 1 .. Len(Tail(r)) : Tail(r)[i] = r[i + 1]
    <3>1. r # <<>>
      BY <1>3, <2>1
    <3> QED BY <3>1, HeadTailProperties
  <2>2. PICK q \in Seq(Pids) : q = Tail(r)
    BY <2>a
  <2>3. Len(q) = Depth - 1 /\ \A i \in 1 .. Depth - 1 : q[i] = r[i + 1]
    BY <1>3, <2>1, <2>2, <2>a
  <2>4. PICK v \in Seq(Pids) : v = Append(q, x)
    <3>1. Append(q, x) \in Seq(Pids)
      OBVIOUS
    <3> QED BY <3>1
  <2>5. Len(v) = k /\ v[k] = x /\ \A i \in 1 .. Depth - 1 : v[i] = q[i]
    BY <2>1, <2>3, <2>4
  <2>6. \A i \in 1 .. k : u[i] = v[i]
    <3> TAKE i \in 1 .. k
    <3>1. u[i] = t[n + 1 - Depth + i]
      BY <1>9, <2>1
    <3>2. CASE i = Depth
      <4>1. n + 1 - Depth + i = n + 1
        BY <2>1, <3>2
      <4> QED BY <1>6, <2>1, <2>5, <3>1, <3>2, <4>1
    <3>3. CASE i # Depth
      <4>1. i \in 1 .. Depth - 1 /\ i + 1 \in 1 .. m /\ n + 1 - Depth + i \in 1 .. n
        BY <2>1, <3>3
      <4>2. r[i + 1] = s[n - m + (i + 1)]
        <5>1. PICK j \in 1 .. m : j = i + 1
          BY <4>1
        <5>2. r[j] = s[n - m + j]
          BY <1>4
        <5> QED BY <5>1, <5>2
      <4>3. n - m + (i + 1) = n + 1 - Depth + i
        BY <2>1
      <4> QED BY <1>6, <2>3, <2>5, <3>1, <4>1, <4>2, <4>3
    <3> QED BY <3>2, <3>3
  <2>7. u = v
    BY <1>8, <2>5, <2>6, SeqEqual
  <2> QED BY <1>2, <1>3, <1>5, <1>7, <1>11, <2>2, <2>4, <2>7 DEF Pushed
<1> QED BY <1>10, <1>11

\* flush() compares what the window shows.
LEMMA ReportsAreOddSteps ==
    ASSUME NEW b \in Buffers
    PROVE  Reports(b) = OddSteps(Contents(b))
<1> USE ClientConstants
<1>1. b.nset \in 0 .. Depth
  BY DEF Buffers
<1>2. PICK s \in Seq(Pids) : s = Contents(b)
  BY ContentsProperties
<1>3. Len(s) = b.nset
  BY <1>2, ContentsProperties
<1>4. \A i \in 0 .. b.nset - 1 : Item(b, i) = s[i + 1]
  <2> TAKE i \in 0 .. b.nset - 1
  <2>1. i + 1 \in 1 .. b.nset /\ (i + 1) - 1 = i
    BY <1>1
  <2> QED BY <1>2, <2>1 DEF Contents
<1> DEFINE first == Item(b, 1) - Item(b, 0)
           Odd == {i \in 2 .. b.nset - 1 : Item(b, i) # Item(b, i - 1) + first}
           OddS == {i \in 2 .. Len(s) - 1 : s[i + 1] - s[i] # s[2] - s[1]}
<1>5. Odd = OddS
  <2>1. ASSUME NEW i \in 2 .. b.nset - 1
        PROVE  Item(b, i) # Item(b, i - 1) + first <=> s[i + 1] - s[i] # s[2] - s[1]
    <3>1. /\ Item(b, i) = s[i + 1] /\ Item(b, i - 1) = s[i]
          /\ Item(b, 1) = s[2] /\ Item(b, 0) = s[1]
      <4>1. /\ i \in 0 .. b.nset - 1 /\ i - 1 \in 0 .. b.nset - 1 /\ (i - 1) + 1 = i
            /\ 0 \in 0 .. b.nset - 1 /\ 1 \in 0 .. b.nset - 1
        BY <1>1
      <4> QED BY <1>4, <4>1
    <3>2. s[i + 1] \in Int /\ s[i] \in Int /\ s[2] \in Int /\ s[1] \in Int
      BY <1>1, <1>3 DEF Pids
    <3> QED BY <3>1, <3>2
  <2> QED BY <1>3, <2>1
<1>6. Reports(b) = {i \in Odd : Cardinality({j \in Odd : j < i}) < 6}
  BY DEF Reports
<1>7. OddSteps(s) = {i \in OddS : Cardinality({j \in OddS : j < i}) < 6}
  BY DEF OddSteps
<1> HIDE DEF Odd, OddS
<1> QED BY <1>2, <1>5, <1>6, <1>7

\* What waveform w shows is the newest of s.
Shows(w, s) == Contents(buf[w]) = NewestOf(s)

\* Between the callbacks of one entry: its pulse id is appended, and the
\* waveforms from col on do not have their value of it yet.
EntryUnderWay(s) ==
    hist = Append(s, last) /\ \A w \in Waves : w >= col => Shows(w, s)

\* How far the waveforms go with the pulse ids at each callback.
RowsOK ==
    /\ at \in {"poll", "flush"} \/ (at = "append" /\ col = 0) => \A w \in Waves : Shows(w, hist)
    /\ at = "reset" => \A w \in Waves : w < col => Shows(w, <<>>)
    /\ at = "append" /\ col > 0 =>
          /\ \A w \in Waves : w < col => Shows(w, hist)
          /\ \E s \in Seq(Pids) : EntryUnderWay(s)
    /\ at = "poll" => col = 0
    /\ FlushJudgesWindow

\* There is no newest value of none.
LEMMA NoneShown == NewestOf(<<>>) = <<>>
<1> USE ClientConstants
<1>1. PICK e \in Seq(Pids) : e = <<>> /\ Len(e) = 0
  <2>1. <<>> \in Seq(Pids) /\ Len(<<>>) = 0
    BY EmptySeq
  <2> QED BY <2>1
<1>2. NewestOf(e) \in Seq(Pids) /\ Len(NewestOf(e)) = (IF Len(e) > Depth THEN Depth ELSE Len(e))
  BY NewestElements
<1>3. NewestOf(e) = <<>>
  BY <1>1, <1>2, EmptySeq
<1> QED BY <1>1, <1>3

\* The waveforms go together at the start.
LEMMA InitRows == ClientInit => RowsOK
<1> SUFFICES ASSUME ClientInit PROVE RowsOK
  OBVIOUS
<1>1. \A w \in Waves : Contents(buf[w]) = <<>>
  BY InitShown DEF Window!Init
<1>2. \A w \in Waves : Shows(w, hist)
  BY <1>1, NoneShown DEF ClientInit, Shows
<1> QED BY <1>2 DEF ClientInit, RowsOK, FlushJudgesWindow

\* append() of the last value of s brings a waveform up to date with it.
LEMMA AppendShows ==
    ASSUME BuffersOK, NEW w \in Waves, NEW x \in Pids, NEW s \in Seq(Pids), Shows(w, s)
    PROVE  Contents(Appended(buf[w], x)) = NewestOf(Append(s, x))
<1>1. buf[w] \in Buffers /\ Doubled(buf[w])
  BY DEF BuffersOK
<1>2. Contents(Appended(buf[w], x)) = Pushed(Contents(buf[w]), x)
  BY <1>1, AppendedContents DEF Pushed
<1>3. NewestOf(Append(s, x)) = Pushed(NewestOf(s), x)
  BY NewestAppended
<1> QED BY <1>2, <1>3 DEF Shows

\* Every callback keeps them in step.
LEMMA StepRows == ClientInv /\ RowsOK /\ [ClientNext]_clientVars => RowsOK'
<1> USE ClientConstants
<1> SUFFICES ASSUME ClientInv, RowsOK, [ClientNext]_clientVars PROVE RowsOK'
  OBVIOUS
<1>0. /\ BuffersOK /\ 0 \in Waves /\ col \in Waves /\ last \in Pids /\ hist \in Seq(Pids)
      /\ at \in {"poll", "reset", "append", "flush"} /\ Waves \subseteq Nat
  BY DEF ClientInv, BuffersOK, CountersOK, Waves
<1>1. CASE Update
  <2>1. /\ at = "poll" /\ at' \in {"append", "reset"} /\ col' = 0
        /\ UNCHANGED <<buf, last, hist>>
    BY <1>1 DEF Update, Going
  <2>2. \A w \in Waves : Shows(w, hist)'
    BY <2>1 DEF RowsOK, Shows
  <2>3. \A w \in Waves : ~(w < col')
    BY <1>0, <2>1
  <2> QED BY <2>1, <2>2, <2>3 DEF RowsOK, FlushJudgesWindow
<1>2. CASE ResetWave
  <2>1. /\ at = "reset" /\ hist' = <<>> /\ UNCHANGED last
        /\ buf' = [buf EXCEPT ![col] = ClearedBuffer(buf[col])]
        /\ IF col < NPvs THEN col' = col + 1 /\ at' = "reset" ELSE at' = "append" /\ col' = 0
    BY <1>2 DEF ResetWave, Going
  <2>2. ASSUME NEW w \in Waves, w <= col PROVE Shows(w, <<>>)'
    <3>1. CASE w = col
      <4>1. Contents(ClearedBuffer(buf[w])) = <<>>
        BY <1>0, ClearedContents DEF BuffersOK
      <4>2. buf'[w] = ClearedBuffer(buf[w])
        BY <1>0, <2>1, <3>1 DEF BuffersOK
      <4> QED BY <4>1, <4>2, NoneShown DEF Shows
    <3>2. CASE w # col
      <4>1. buf'[w] = buf[w] /\ w < col
        BY <1>0, <2>1, <2>2, <3>2 DEF BuffersOK
      <4> QED BY <2>1, <4>1 DEF RowsOK, Shows
    <3> QED BY <3>1, <3>2
  <2>3. CASE col < NPvs
    <3>1. \A w \in Waves : w < col' => w <= col
      BY <1>0, <2>1, <2>3
    <3> QED BY <2>1, <2>2, <2>3, <3>1 DEF RowsOK, FlushJudgesWindow
  <2>4. CASE ~(col < NPvs)
    <3>1. \A w \in Waves : w <= col
      BY <1>0, <2>4 DEF Waves
    <3>2. \A w \in Waves : Shows(w, hist)'
      BY <2>1, <2>2, <3>1 DEF Shows
    <3> QED BY <2>1, <2>4, <3>2 DEF RowsOK, FlushJudgesWindow
  <2> QED BY <2>3, <2>4
<1>3. CASE AppendPid
  <2>1. /\ at = "append" /\ at' = "append" /\ left > 0 /\ col = 0
        /\ IF NPvs > 0 THEN col' = 1 ELSE col' = 0
    BY <1>3 DEF AppendPid
  <2>2. PICK d \in Strides :
           /\ last + d <= MaxPid /\ last' = last + d
           /\ buf' = [buf EXCEPT ![0] = Appended(buf[0], last + d)]
           /\ hist' = Append(hist, last + d)
    BY <1>3 DEF AppendPid
  <2>3. PICK x \in Pids : x = last + d
    BY <1>0, <2>2 DEF Pids
  <2>4. PICK h \in Seq(Pids) : h = hist
    BY <1>0
  <2>5. \A w \in Waves : Shows(w, h)
    BY <2>1, <2>4 DEF RowsOK
  <2>6. Shows(0, hist)'
    <3>1. buf'[0] = Appended(buf[0], x)
      BY <1>0, <2>2, <2>3 DEF BuffersOK
    <3>2. Contents(Appended(buf[0], x)) = NewestOf(Append(h, x))
      BY <1>0, <2>5, AppendShows
    <3> QED BY <2>2, <2>3, <2>4, <3>1, <3>2 DEF Shows
  <2>7. ASSUME NEW w \in Waves, w # 0 PROVE Shows(w, h)'
    <3>1. buf'[w] = buf[w]
      BY <1>0, <2>2, <2>7 DEF BuffersOK
    <3> QED BY <2>5, <3>1 DEF Shows
  <2>8. CASE NPvs > 0
    <3>1. col' = 1
      BY <2>1, <2>8
    <3>2. \A w \in Waves : (w < col' => w = 0) /\ (w >= col' => w # 0)
      BY <1>0, <3>1
    <3>3. hist' = Append(h, last')
      BY <2>2, <2>4
    <3>4. EntryUnderWay(h)'
      BY <2>7, <3>2, <3>3 DEF EntryUnderWay
    <3>5. \A w \in Waves : w < col' => Shows(w, hist)'
      BY <2>6, <3>2
    <3> QED BY <2>1, <3>1, <3>4, <3>5 DEF RowsOK, FlushJudgesWindow
  <2>9. CASE ~(NPvs > 0)
    <3>1. col' = 0 /\ \A w \in Waves : w = 0
      BY <2>1, <2>9 DEF Waves
    <3> QED BY <2>1, <2>6, <3>1 DEF RowsOK, FlushJudgesWindow
  <2> QED BY <2>8, <2>9
<1>4. CASE AppendChannel
  <2>1. /\ at = "append" /\ at' = "append" /\ col > 0
        /\ buf' = [buf EXCEPT ![col] = Appended(buf[col], last)]
        /\ last' = last /\ hist' = hist
        /\ IF col < NPvs THEN col' = col + 1 ELSE col' = 0
    BY <1>4 DEF AppendChannel
  <2>2. PICK s \in Seq(Pids) : EntryUnderWay(s)
    BY <2>1 DEF RowsOK
  <2>3. PICK c \in Waves : c = col
    BY <1>0
  <2>4. Shows(c, hist)'
    <3>1. buf'[c] = Appended(buf[c], last)
      BY <1>0, <2>1, <2>3 DEF BuffersOK
    <3>2. Shows(c, s) /\ hist = Append(s, last)
      BY <1>0, <2>2, <2>3 DEF EntryUnderWay
    <3>3. Contents(Appended(buf[c], last)) = NewestOf(Append(s, last))
      BY <1>0, <3>2, AppendShows
    <3> QED BY <2>1, <3>1, <3>2, <3>3 DEF Shows
  <2>5. ASSUME NEW w \in Waves, w # c PROVE buf'[w] = buf[w]
    BY <1>0, <2>1, <2>3, <2>5 DEF BuffersOK
  <2>6. ASSUME NEW w \in Waves, w <= c PROVE Shows(w, hist)'
    <3>1. CASE w = c
      BY <2>4, <3>1
    <3>2. CASE w # c
      <4>1. w < col
        BY <1>0, <2>3, <2>6, <3>2
      <4>2. Shows(w, hist)
        BY <2>1, <4>1 DEF RowsOK
      <4> QED BY <2>1, <2>5, <3>2, <4>2 DEF Shows
    <3> QED BY <3>1, <3>2
  <2>7. CASE col < NPvs
    <3>1. col' = c + 1
      BY <2>1, <2>3, <2>7
    <3>2. \A w \in Waves : (w < col' => w <= c) /\ (w >= col' => w # c /\ w >= col)
      BY <1>0, <2>3, <3>1
    <3>3. \A w \in Waves : w >= col' => Shows(w, s)'
      BY <2>2, <2>5, <3>2 DEF EntryUnderWay, Shows
    <3>4. EntryUnderWay(s)'
      BY <2>1, <2>2, <3>3 DEF EntryUnderWay
    <3>5. col' > 0
      BY <1>0, <2>3, <3>1
    <3> QED BY <2>1, <2>6, <3>2, <3>4, <3>5 DEF RowsOK, FlushJudgesWindow
  <2>8. CASE ~(col < NPvs)
    <3>1. col' = 0 /\ \A w \in Waves : w <= c
      BY <1>0, <2>1, <2>3, <2>8 DEF Waves
    <3> QED BY <2>1, <2>6, <3>1 DEF RowsOK, FlushJudgesWindow
  <2> QED BY <2>7, <2>8
<1>5. CASE Return
  <2>1. /\ at = "append" /\ col = 0 /\ at' \in {"flush", "poll"} /\ col' = 0
        /\ UNCHANGED <<buf, hist>>
    BY <1>5 DEF Return, Going
  <2>2. \A w \in Waves : Shows(w, hist)'
    BY <2>1 DEF RowsOK, Shows
  <2> QED BY <2>1, <2>2 DEF RowsOK, FlushJudgesWindow
<1>6. CASE Flush
  <2>1. /\ at = "flush" /\ at' \in {"flush", "poll"} /\ (at' = "poll" => col' = 0)
        /\ printed' = Reports(buf[0]) /\ UNCHANGED <<buf, hist>>
    BY <1>6 DEF Flush, Going
  <2>2. \A w \in Waves : Shows(w, hist) /\ Shows(w, hist)'
    BY <2>1 DEF RowsOK, Shows
  <2>3. printed' = OddSteps(NewestOf(hist'))
    <3>1. Reports(buf[0]) = OddSteps(Contents(buf[0]))
      BY <1>0, ReportsAreOddSteps DEF BuffersOK
    <3>2. Contents(buf[0]) = NewestOf(hist)
      BY <1>0, <2>2 DEF Shows
    <3> QED BY <2>1, <3>1, <3>2
  <2> QED BY <2>1, <2>2, <2>3 DEF RowsOK, FlushJudgesWindow
<1>7. CASE UNCHANGED clientVars
  BY <1>7 DEF clientVars, RowsOK, FlushJudgesWindow, Shows, EntryUnderWay
<1> QED BY <1>1, <1>2, <1>3, <1>4, <1>5, <1>6, <1>7 DEF ClientNext

\* They always are.
LEMMA AlwaysRows == ClientSpec => []RowsOK
<1>1. ClientInv /\ RowsOK /\ [ClientNext]_clientVars => RowsOK'
  BY StepRows
<1> QED BY InitRows, <1>1, AlwaysClient, PTL DEF ClientSpec

\* Between updates row i of every channel belongs to pulse id i: the callbacks of one
\* entry, one for each waveform, move every ring on by the same values.
THEOREM RowsGoTogether == ClientSpec => []RowsAligned
<1>1. RowsOK => RowsAligned
  BY ClientConstants DEF RowsOK, RowsAligned, Shows, Waves
<1> QED BY <1>1, AlwaysRows, PTL

\* What flush() prints are the ids whose step is not the first one, the first six of
\* them, in the newest Depth ids of the acquisition: for every depth and stride.
THEOREM ReportsAreRight == ClientSpec => []FlushJudgesWindow
<1>1. RowsOK => FlushJudgesWindow
  BY DEF RowsOK
<1> QED BY <1>1, AlwaysRows, PTL

-----------------------------------------------------------------------------
(* The stream monitor: counters and pulse ids                               *)

\* Quotient and remainder of an integer.
LEMMA IntDivision ==
    ASSUME NEW x \in Int, NEW c \in Nat \ {0}
    PROVE  /\ x \div c \in Int /\ (x % c) \in 0 .. c - 1
           /\ x = (x \div c) * c + (x % c)
OBVIOUS
\* A multiple has no remainder.
LEMMA Multiple ==
    ASSUME NEW k \in Int, NEW c \in Nat \ {0}
    PROVE  (k * c) % c = 0
OBVIOUS


\* The ids of two pulses follow each other when the pulses do, but for cycles.
LEMMA IdsFollow ==
    ASSUME NEW p \in Nat, NEW q \in Nat, NEW c \in Nat \ {0, 1},
           \/ (q % c) < c - 1 /\ (p % c) = (q % c) + 1
           \/ (q % c) = c - 1 /\ (p % c) = 0
    PROVE  ((p - q - 1) % c) = 0
<1>1. PICK i \in Int, j \in Int :
         /\ p = i * c + (p % c) /\ (p % c) \in 0 .. c - 1
         /\ q = j * c + (q % c) /\ (q % c) \in 0 .. c - 1
  <2>1. /\ p \div c \in Int /\ p = (p \div c) * c + (p % c) /\ (p % c) \in 0 .. c - 1
        /\ q \div c \in Int /\ q = (q \div c) * c + (q % c) /\ (q % c) \in 0 .. c - 1
    BY IntDivision
  <2> QED BY <2>1
<1>2. PICK b \in Int, o \in Int : b = p % c /\ o = q % c
  BY <1>1
<1>3. PICK x \in Int, y \in Int : x = i * c /\ y = j * c /\ (i - j) * c = x - y /\ (i - j - 1) * c = x - y - c
  OBVIOUS
<1>4. CASE b = o + 1
  <2>1. p - q - 1 = x - y
    BY <1>1, <1>2, <1>3, <1>4
  <2>2. p - q - 1 = (i - j) * c
    BY <1>3, <2>1
  <2> QED BY <2>2, Multiple
<1>5. CASE o = c - 1 /\ b = 0
  <2>1. p - q - 1 = x - y - c
    BY <1>1, <1>2, <1>3, <1>5
  <2>2. p - q - 1 = (i - j - 1) * c /\ i - j - 1 \in Int
    BY <1>3, <2>1
  <2> QED BY <2>2, Multiple
<1> QED BY <1>2, <1>4, <1>5

\* The types of the variables.
StreamTypes ==
    /\ mpc \in {"setup", "read", "size", "check", "join", "ended"}
    /\ cpcs \in {"none", "count", "bytes"}
    /\ count \in Nat /\ bytes \in Nat /\ ncount \in Nat
    /\ shown \in [n : Nat, bytes : Nat]
    /\ opid \in 0 .. Cycle - 1 /\ buff \in 0 .. Cycle - 1
    /\ pulse \in Nat \cup {-1} /\ skipped \in Int

\* main() counts a datagram before its bytes; what the thread has read is not
\* more than main() has counted.
Counting ==
    /\ bytes <= count /\ count <= bytes + 1
    /\ mpc \in {"setup", "read", "check"} => count = bytes
    /\ mpc = "size" => count = bytes + 1
    /\ ncount <= count
    /\ BytesNotBehind

\* The buffer holds the id of the last pulse, and so does opid until the next
\* datagram is read; what is not going to be reported follows.
Following ==
    /\ mpc = "setup" => pulse = -1
    /\ pulse # -1 => buff = pulse % Cycle
    /\ mpc = "read" /\ pulse # -1 => opid = buff
    /\ mpc \in {"setup", "read"} => (skipped % Cycle) = 0
    /\ mpc \in {"size", "check"} /\ ~Jumps => (skipped % Cycle) = 0

StreamInv == StreamTypes /\ Counting /\ Following

\* The invariant of the monitor holds at the start.
LEMMA InitStream == StreamInit => StreamInv
<1> USE StreamConstants
<1> SUFFICES ASSUME StreamInit PROVE StreamInv
  OBVIOUS
<1>1. StreamTypes
  BY DEF StreamInit, StreamTypes, NoLine
<1>2. Counting
  BY DEF StreamInit, Counting, BytesNotBehind, NoLine
<1>3. (0 % Cycle) = 0
  BY Multiple
<1>4. Following
  BY <1>3 DEF StreamInit, Following
<1> QED BY <1>1, <1>2, <1>4 DEF StreamInv

\* Every step of main(), the thread and the signals keeps it.
LEMMA StepStream == StreamInv /\ [StreamNext]_streamVars => StreamInv'
<1> USE StreamConstants
<1> SUFFICES ASSUME StreamInv, [StreamNext]_streamVars PROVE StreamInv'
  OBVIOUS
<1>0. StreamTypes /\ Counting /\ Following
  BY DEF StreamInv
<1>1. CASE Setup
  <2>1. StreamTypes'
    BY <1>0, <1>1 DEF Setup, StreamTypes
  <2>2. Counting'
    BY <1>0, <1>1 DEF Setup, Counting, BytesNotBehind
  <2>3. Following'
    BY <1>0, <1>1 DEF Setup, StreamInit, Following
  <2> QED BY <2>1, <2>2, <2>3 DEF StreamInv
<1>2. CASE Read
  <2>1. mpc = "read" /\ UNCHANGED <<bytes, opid, cpcs, ncount, shown, prints, remote>>
    BY <1>2 DEF Read
  <2>2. CASE \E p \in 0 .. MaxPulse :
                /\ buff' = p % Cycle /\ pulse' = p
                /\ skipped' = (IF pulse = -1 THEN 0 ELSE p - pulse - 1)
                /\ mpc' = "size" /\ count' = count + 1
    <3>1. PICK p \in 0 .. MaxPulse :
                /\ buff' = p % Cycle /\ pulse' = p
                /\ skipped' = (IF pulse = -1 THEN 0 ELSE p - pulse - 1)
                /\ mpc' = "size" /\ count' = count + 1
      BY <2>2
    <3>2. p \in Nat /\ (p % Cycle) \in 0 .. Cycle - 1
      BY IntDivision
    <3>3. StreamTypes'
      BY <1>0, <2>1, <3>1, <3>2 DEF StreamTypes
    <3>4. Counting'
      BY <1>0, <2>1, <3>1 DEF StreamTypes, Counting, BytesNotBehind
    <3>5. ~Jumps' => (skipped' % Cycle) = 0
      <4>1. CASE pulse = -1
        BY <3>1, <4>1, Multiple
      <4>2. CASE pulse # -1
        <5>1. pulse \in Nat /\ opid = pulse % Cycle /\ opid' = opid /\ skipped' = p - pulse - 1
          BY <1>0, <2>1, <3>1, <4>2 DEF StreamTypes, Following
        <5>2. ~Jumps' => \/ (pulse % Cycle) < Cycle - 1 /\ (p % Cycle) = (pulse % Cycle) + 1
                         \/ (pulse % Cycle) = Cycle - 1 /\ (p % Cycle) = 0
          BY <1>0, <3>1, <5>1 DEF Jumps, StreamTypes
        <5> QED BY <3>2, <5>1, <5>2, IdsFollow
      <4> QED BY <4>1, <4>2
    <3>6. Following'
      BY <3>1, <3>5 DEF Following
    <3> QED BY <3>3, <3>4, <3>6 DEF StreamInv
  <2>3. CASE /\ skipped' = (IF pulse = -1 THEN 0 ELSE -1)
             /\ mpc' = "size" /\ count' = count + 1 /\ UNCHANGED <<buff, pulse>>
    <3>1. StreamTypes'
      BY <1>0, <2>1, <2>3 DEF StreamTypes
    <3>2. Counting'
      BY <1>0, <2>1, <2>3 DEF StreamTypes, Counting, BytesNotBehind
    <3>3. pulse # -1 => Jumps'
      BY <1>0, <2>1, <2>3 DEF StreamTypes, Following, Jumps
    <3>4. Following'
      BY <1>0, <2>3, <3>3, Multiple DEF Following
    <3> QED BY <3>1, <3>2, <3>4 DEF StreamInv
  <2>4. CASE mpc' = "join" /\ UNCHANGED <<count, buff, pulse, skipped>>
    <3>1. StreamTypes'
      BY <1>0, <2>1, <2>4 DEF StreamTypes
    <3>2. Counting'
      BY <1>0, <2>1, <2>4 DEF Counting, BytesNotBehind
    <3>3. Following'
      BY <1>0, <2>4 DEF Following
    <3> QED BY <3>1, <3>2, <3>3 DEF StreamInv
  <2> QED BY <1>2, <2>2, <2>3, <2>4 DEF Read
<1>3. CASE CountBytes
  <2>1. StreamTypes'
    BY <1>0, <1>3 DEF CountBytes, StreamTypes
  <2>2. Counting'
    BY <1>0, <1>3 DEF CountBytes, StreamTypes, Counting, BytesNotBehind
  <2>3. Following'
    BY <1>0, <1>3 DEF CountBytes, Following, Jumps
  <2> QED BY <2>1, <2>2, <2>3 DEF StreamInv
<1>4. CASE Check
  <2>1. StreamTypes'
    BY <1>0, <1>4 DEF Check, StreamTypes
  <2>2. Counting'
    BY <1>0, <1>4 DEF Check, Counting, BytesNotBehind
  <2>3. (0 % Cycle) = 0
    BY Multiple
  <2>4. skipped' = (IF Jumps THEN 0 ELSE skipped) /\ (skipped' % Cycle) = 0
    BY <1>0, <1>4, <2>3 DEF Check, Following
  <2>5. Following'
    BY <1>0, <1>4, <2>4 DEF Check, Following
  <2> QED BY <2>1, <2>2, <2>5 DEF StreamInv
<1>5. CASE Thread
  <2>1. StreamTypes'
    BY <1>0, <1>5 DEF Thread, ThreadReads, StreamTypes
  <2>2. Counting'
    <3>1. UNCHANGED <<mpc, count, bytes>> /\ ncount' <= count /\ shown'.bytes + 1 >= shown'.n
      BY <1>0, <1>5 DEF Thread, ThreadReads, StreamTypes, Counting, BytesNotBehind
    <3> QED BY <1>0, <3>1 DEF Counting, BytesNotBehind
  <2>3. Following'
    BY <1>0, <1>5 DEF Thread, Following, Jumps
  <2> QED BY <2>1, <2>2, <2>3 DEF StreamInv
<1>6. CASE Signalled
  <2>1. StreamTypes'
    BY <1>0, <1>6 DEF Signalled, StreamTypes
  <2>2. Counting'
    BY <1>0, <1>6 DEF Signalled, Counting, BytesNotBehind
  <2>3. Following'
    BY <1>0, <1>6 DEF Signalled, Following
  <2> QED BY <2>1, <2>2, <2>3 DEF StreamInv
<1>7. CASE UNCHANGED streamVars
  BY <1>0, <1>7 DEF streamVars, StreamInv, StreamTypes, Counting, BytesNotBehind, Following, Jumps
<1> QED BY <1>1, <1>2, <1>3, <1>4, <1>5, <1>6, <1>7 DEF StreamNext

\* The counters are one datagram apart at most, and opid is the id of the last pulse.
THEOREM StreamInvariant == StreamSpec => []StreamInv
  BY InitStream, StepStream, PTL DEF StreamSpec

\* A datagram that is not reported follows the one before, but for whole cycles of
\* ids: for every number of ids, at the wrap too.
THEOREM SilenceIsContiguous == StreamSpec => []SilenceMeansContiguous
<1>1. StreamInv => SilenceMeansContiguous
  BY DEF StreamInv, Following, SilenceMeansContiguous
<1> QED BY <1>1, StreamInvariant, PTL

\* A line of the counting thread never shows more packets than its bytes account for,
\* but for the one being counted: count is read before bytes.
THEOREM LinesAddUp == StreamSpec => []BytesNotBehind
<1>1. StreamInv => BytesNotBehind
  BY DEF StreamInv, Counting
<1> QED BY <1>1, StreamInvariant, PTL
=============================================================================
