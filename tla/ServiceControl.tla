---------------------------- MODULE ServiceControl ----------------------------
(***************************************************************************)
(* The control objects of the acquisition services: AcqServiceYaml, of     *)
(* which BldYaml and BsssYaml create different registers, and BSAS         *)
(* (BsasYaml).  Threads call their setters; a register access may throw,   *)
(* and a write that throws may have reached the hardware.  Setting one     *)
(* channel is a read and a write of the word that holds all channels; an   *)
(* event definition has registers of its own.  The words themselves are in *)
(* SelectionCodes.                                                         *)
(***************************************************************************)
EXTENDS Integers

CONSTANTS
    Threads,     \* the callers
    Channels,    \* data channels, and event definitions, from 0
    Beyond,      \* further event definitions callers pass, which no code checks
    EnableArgs,  \* what callers pass for enable
    SevrArgs,    \* ... for a channel's severity
    EdefWords,   \* ... and what they have written for an event definition
    MaxCalls     \* bound: calls of each thread

ASSUME ServiceConstants ==
    /\ 0 \in Channels /\ Channels \cap Beyond = {}
    /\ EnableArgs \cup SevrArgs \cup EdefWords \subseteq Nat /\ MaxCalls \in Nat

VARIABLES
    kind,     \* the object: BLD, BSSS or BSAS
    field,    \* the field or register of every channel or event definition
    call,     \* the read-modify-write each thread is in
    calls,    \* calls made by each thread
    asked,    \* ghost: the field last asked for
    unsure,   \* ghost: the channels whose last call failed
    lost,     \* ghost: the channels whose last setting another call undid
    wild      \* an array was indexed past the registers its constructor made

serviceVars == <<kind, field, call, calls, asked, unsure, lost, wild>>
ghosts == <<asked, unsure, lost>>

Fields == {"mask", "sevr"}                      \* one word for all channels
EdefRegs == {"enable", "limit", "rate", "dest"} \* one word for each event definition
Regs == Fields \cup EdefRegs
NoCall == [reg |-> "none", chn |-> 0, value |-> 0, word |-> [c \in Channels |-> 0], since |-> {}]

ServiceInit ==
    /\ kind \in {"bld", "bsss", "bsas"}
    /\ field = [r \in Regs |-> [c \in Channels |-> 0]] /\ asked = field
    /\ call = [t \in Threads |-> NoCall] /\ calls = [t \in Threads |-> 0]
    /\ unsure = {} /\ lost = {} /\ wild = FALSE

\* The event definitions for which the constructors create register r.
Created(r) ==
    CASE kind = "bld" -> Channels
      [] kind = "bsss" -> IF r = "limit" THEN {0} ELSE {}
      [] kind = "bsas" -> IF r = "limit" THEN {} ELSE Channels   \* its three controls

Calls(t) ==
    /\ ~wild /\ call[t] = NoCall /\ calls[t] < MaxCalls
    /\ calls' = [calls EXCEPT ![t] = @ + 1]

-----------------------------------------------------------------------------
(* Channel mask and severities *)

HasField(r) == r = "mask" \/ kind = "bsas"
Args(r) == IF r = "mask" THEN EnableArgs ELSE SevrArgs

\* setChannelMask(chn, enable): AcqServiceYaml takes the low bit of enable,
\* BSAS whether it is not zero.  SetChannelSeverity(chn, sevr) takes two bits.
Value(r, x) ==
    IF r = "sevr" THEN x % 4
    ELSE IF kind = "bsas" THEN (IF x = 0 THEN 0 ELSE 1)
    ELSE x % 2

\* The word is read; a read that throws leaves everything as it is.
ReadWord(t, r, c) ==
    /\ Calls(t) /\ HasField(r)
    /\ \/ \E x \in Args(r) :
            call' = [call EXCEPT ![t] = [reg |-> r, chn |-> c, value |-> Value(r, x),
                                         word |-> field[r], since |-> {}]]
       \/ UNCHANGED call
    /\ UNCHANGED <<kind, field, ghosts, wild>>

At(r, C) == {r} \X C

\* Register r takes word w, of which the caller asked for the fields of req; to the
\* other threads between read and write these are news they do not have.
Written(t, r, w, req) ==
    /\ field' = [field EXCEPT ![r] = w]
    /\ asked' = [asked EXCEPT ![r] = [c \in Channels |-> IF c \in DOMAIN req THEN req[c] ELSE @[c]]]
    /\ call' = [u \in Threads |->
                   IF u = t THEN NoCall
                   ELSE IF call[u].reg = r THEN [call[u] EXCEPT !.since = @ \cup DOMAIN req]
                   ELSE call[u]]
    /\ lost' = (lost \cup At(r, call[t].since)) \ At(r, DOMAIN req)

\* The write is done, or throws with or without having had its effect.
Write(t, r, w, req) ==
    \/ Written(t, r, w, req) /\ unsure' = unsure \ At(r, DOMAIN req)
    \/ Written(t, r, w, req) /\ unsure' = unsure \cup At(r, DOMAIN req)
    \/ /\ unsure' = unsure \cup At(r, DOMAIN req)
       /\ call' = [call EXCEPT ![t] = NoCall] /\ UNCHANGED <<field, asked, lost>>

\* Variant: the old bits of the field are not cleared first.
MergedOr(k) ==
    [k.word EXCEPT ![k.chn] = IF {@, k.value} = {1, 2} THEN 3
                              ELSE IF @ > k.value THEN @ ELSE k.value]

\* The word read, with the channel's field replaced.
Merged(k) == [k.word EXCEPT ![k.chn] = k.value]

WriteWord(t) ==
    /\ ~wild /\ call[t] # NoCall
    /\ Write(t, call[t].reg, Merged(call[t]),
             [c \in {call[t].chn} |-> call[t].value])
    /\ UNCHANGED <<kind, calls, wild>>

\* setChannelMask(mask), SetChannelSeverity(sevr): the whole word at once.
SetWord(t, r) ==
    /\ Calls(t) /\ HasField(r)
    /\ \E w \in [Channels -> {Value(r, x) : x \in Args(r)}] : Write(t, r, w, w)
    /\ UNCHANGED <<kind, wild>>

-----------------------------------------------------------------------------
(* Event definitions *)

\* The guards BLD_ONLY and BSSS_ONLY; BSAS has setters of its own.
Refused(set) ==
    CASE kind = "bld" -> set = "limit of all"
      [] kind = "bsss" -> set # "limit of all"
      [] kind = "bsas" -> set \notin {"enable", "rate", "dest"}

\* One write of one register, the first for BSSS's setRateLimit(rate).  No setter
\* checks chn: with one beyond the registers that were created the access is
\* undefined, and the model follows the process no further.
SetEdef(t, set, e) ==
    LET r == IF set = "limit of all" THEN "limit" ELSE set
        i == IF set = "limit of all" THEN 0 ELSE e
    IN  /\ Calls(t) /\ ~Refused(set)
        /\ kind = "bsas" => e \in Channels
        /\ \/ /\ i \in Created(r)
              /\ \E x \in EdefWords : Write(t, r, [field[r] EXCEPT ![i] = x], [c \in {i} |-> x])
              /\ UNCHANGED wild
           \/ i \notin Created(r) /\ wild' = TRUE /\ UNCHANGED <<field, call, ghosts>>
        /\ UNCHANGED kind

ServiceNext ==
    \E t \in Threads :
       \/ \E r \in Fields, c \in Channels : ReadWord(t, r, c)
       \/ WriteWord(t)
       \/ \E r \in Fields : SetWord(t, r)
       \/ \E set \in {"enable", "limit", "limit of all", "rate", "dest"}, e \in Channels \cup Beyond : SetEdef(t, set, e)

ServiceSpec == ServiceInit /\ [][ServiceNext]_serviceVars

-----------------------------------------------------------------------------

\* A channel's mask bit and severity, and the registers of an event definition,
\* are what was last asked for them, whatever calls for others, other threads and
\* failed accesses lie between, unless its own last call failed, or a call that
\* had read the word before that and wrote it after undid it (AcqServiceYaml.cc:199,
\* there is no lock).
FieldsAsAsked ==
    \A r \in Regs, c \in Channels :
        <<r, c>> \notin unsure \cup lost => field[r][c] = asked[r][c]
=============================================================================
