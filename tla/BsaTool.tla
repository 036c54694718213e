------------------------------- MODULE BsaTool -------------------------------
(***************************************************************************)
(* The command line client bsa_tst.cc over the memory layout of BsaLayout: *)
(* one process after the other initializes the carrier (-i), reads and     *)
(* re-arms a waveform buffer (-d) and fetches and clears the arrays that   *)
(* are done (or forced, -F), to files (-f) or to the terminal.  Its        *)
(* exceptions end it.  Registers, memory and what the firmware             *)
(* writes outlive the process; the object's _begin, _end and _memEnd do    *)
(* not.  A run may also be of another program, which allocates waveform    *)
(* buffers of any size.                                                    *)
(***************************************************************************)
EXTENDS BsaLayout, FiniteSetsExt

CONSTANTS
    Group,      \* waveform buffers per register block
    NDiags,     \* values of ndiag given on the command line
    DiagUnits,  \* the size bsa_tst gives to a waveform buffer
    Fetched,    \* the arrays the firmware writes
    Captured,   \* the waveform buffers the firmware writes
    Ring,       \* slots of a written buffer
    MaxWrites,  \* bound: slots written between two rewinds
    MaxRewinds, \* bound: acquisitions started by the firmware
    MaxOther,   \* bound: calls of initialize() and initRaw() another program makes
    MaxRuns     \* bound: processes

ASSUME ToolConstants ==
    /\ Fetched \subseteq Arrays /\ Captured \subseteq Waves
    /\ {Group, Ring} \subseteq Nat \ {0} /\ 0 .. 2 * Group - 1 \subseteq Waves
    /\ NDiags \subseteq Nat
    /\ {DiagUnits, MaxWrites, MaxRewinds, MaxOther, MaxRuns} \subseteq Nat

VARIABLES
    buf,     \* the written buffers: acquisition, slots written in it, done, memory
    at,      \* where the process is
    opts,    \* its options
    raw,     \* waveform buffers set up so far
    fetch,   \* the arrays left to fetch
    got,     \* the array being fetched: where it was when get() read WrAddr
    looked,  \* the buffers whose done bit this process has seen: their acquisition
    saved,   \* what this process has put out: acquisition, slots in it, and how
    file,    \* the last file, or print, of this process
    runs,    \* processes so far
    others,  \* another program has been run
    region   \* where in memory the capture of a waveform buffer is

toolVars == <<buf, at, opts, raw, fetch, got, looked, saved, file, runs, others, region>>
allVars == <<vars, toolVars>>

A(a) == <<"array", a>>
W(w) == <<"wave", w>>
Bufs == {A(a) : a \in Fetched} \cup {W(w) : w \in Captured}
AllOptions == [init : BOOLEAN, diag : BOOLEAN, ndiag : NDiags, force : SUBSET Fetched,
               fetch : BOOLEAN, file : BOOLEAN]
\* The ones that make a difference: a dump without a file is one whose file
\* cannot be opened, and ndiag is for -i and -d.
Options == {o \in AllOptions : /\ o.init \/ o.diag \/ o.ndiag = Min(NDiags)
                               /\ o.fetch \/ o.force = {}
                               /\ o.diag => o.file
                               /\ o.file => o.diag \/ o.fetch}
NoOptions == [init |-> FALSE, diag |-> FALSE, ndiag |-> 0, force |-> {}, fetch |-> FALSE,
              file |-> FALSE]
NoBuf == <<"none", 0>>
NoGot == [of |-> NoBuf, id |-> 0, n |-> 0]
NoFile == [of |-> NoBuf, id |-> 0, n |-> 0, ended |-> FALSE, data |-> {}]

ToolInit ==
    /\ Init
    /\ buf = [b \in Bufs |-> [id |-> 0, n |-> 0, done |-> FALSE,
                              slots |-> [i \in 0 .. Ring - 1 |-> <<0, 0>>]]]
    /\ at = "none" /\ opts = NoOptions /\ raw = 0 /\ fetch = {} /\ runs = 0
    /\ got = NoGot /\ looked = [b \in Bufs |-> 0] /\ saved = {} /\ file = NoFile /\ others = FALSE
    /\ region = [w \in Captured |-> <<0, 0>>]

-----------------------------------------------------------------------------
(* The firmware *)

\* Init strobed, or an acquisition started: the buffer is rewound.
Rewind(B) == buf' = [b \in Bufs |-> IF b \in B
                        THEN [buf[b] EXCEPT !.id = @ + 1, !.n = 0, !.done = FALSE]
                        ELSE buf[b]]

\* So is waveform buffer w, between the addresses its registers have by now.
Strobe(w) ==
    /\ Rewind({W(w)})
    /\ region' = [v \in Captured |-> IF v = w THEN <<waveRegs[v].start, waveRegs[v].end>>
                                     ELSE region[v]]

FwStart(a) ==
    /\ buf[A(a)].id < MaxRewinds
    /\ Rewind({A(a)})
    /\ UNCHANGED <<vars, at, opts, raw, fetch, got, looked, saved, file, runs, others, region>>

\* An array is written round and round, a waveform buffer (doneWhenFull) once.
FwWrite(b) ==
    /\ ~buf[b].done /\ buf[b].id > 0 /\ buf[b].n < MaxWrites
    /\ buf' = [buf EXCEPT ![b].n = @ + 1,
                          ![b].slots[buf[b].n % Ring] = <<buf[b].id, buf[b].n>>,
                          ![b].done = b[1] = "wave" /\ buf[b].n + 1 = Ring]
    /\ UNCHANGED <<vars, at, opts, raw, fetch, got, looked, saved, file, runs, others, region>>

FwEnd(a) ==
    /\ ~buf[A(a)].done /\ buf[A(a)].n > 0
    /\ buf' = [buf EXCEPT ![A(a)].done = TRUE]
    /\ UNCHANGED <<vars, at, opts, raw, fetch, got, looked, saved, file, runs, others, region>>

-----------------------------------------------------------------------------
(* bsa_tst *)

\* The options are read and the object is created.
Start(o) ==
    /\ at = "none" /\ pc = "new" /\ runs < MaxRuns
    /\ at' = IF o.init THEN "init" ELSE "diag"
    /\ opts' = o /\ runs' = runs + 1
    /\ UNCHANGED <<vars, buf, raw, fetch, got, looked, saved, file, others, region>>

\* The process ends, of itself or not: nothing is kept but registers and files.
Exit ==
    /\ Recreate
    /\ at' = "none" /\ opts' = NoOptions /\ raw' = 0 /\ fetch' = {} /\ file' = NoFile
    /\ got' = NoGot /\ looked' = [b \in Bufs |-> 0] /\ saved' = {}
    /\ UNCHANGED <<buf, runs, others, region>>

\* -i: initialize() rewinds every array ...
ToolInitialize ==
    /\ at = "init"
    /\ \/ pc = "new" /\ StartInitialize /\ UNCHANGED buf
       \/ InitializeArray /\ Rewind({A(next)})
       \/ EndInitialize /\ UNCHANGED buf
    /\ UNCHANGED <<at, opts, raw, fetch, got, looked, saved, file, runs, others, region>>

\* The registers of waveform buffer i: two blocks, of which an index past the
\* second one wraps round in it.
Register(i) == IF i < Group THEN i ELSE Group + (i % Group)

\* ... and then ndiag waveform buffers are allocated.
ToolInitRaw ==
    /\ at = "init" /\ pc = "ready"
    /\ \/ /\ RawStart(Register(raw), DiagUnits) /\ raw < opts.ndiag
          /\ UNCHANGED <<buf, at, raw, region>>
       \/ (RawEnd \/ RawEnable) /\ UNCHANGED <<buf, at, raw, region>>
       \/ RawInit /\ Strobe(target[1]) /\ raw' = raw + 1 /\ UNCHANGED at
       \/ /\ target = <<>> /\ raw >= opts.ndiag /\ at' = "diag"
          /\ UNCHANGED <<vars, buf, raw, region>>
    /\ UNCHANGED <<opts, fetch, got, looked, saved, file, runs, others>>

\* Variant: a buffer that is written is taken for done.
DoneAlways(b) == b \in Bufs

\* The buffer's bit in doneRaw() or done().
Done(b) == b \in Bufs /\ buf[b].done

Look(B) == looked' = [b \in Bufs |-> IF b \in B THEN buf[b].id ELSE looked[b]]

\* -d: only the buffer's done bit says that it can be dumped.
Diag ==
    /\ at = "diag"
    /\ at' = IF ~opts.diag THEN "done" ELSE IF Done(W(opts.ndiag)) THEN "dump" ELSE "rearm"
    /\ Look(IF opts.diag /\ Done(W(opts.ndiag)) THEN {W(opts.ndiag)} ELSE {})
    /\ UNCHANGED <<vars, buf, opts, raw, fetch, got, saved, file, runs, others, region>>

\* What is read goes to a file or to the terminal.  fwrite and fclose may fail:
\* the code does not look.
Put(b, slots, how) ==
    /\ file' = IF how = "spoiled" THEN NoFile
               ELSE [of |-> b, id |-> buf[b].id, n |-> buf[b].n, ended |-> buf[b].done,
                     data |-> {buf[b].slots[i] : i \in slots}]
    /\ saved' = saved \cup {<<b, buf[b].id, buf[b].n, how>>}

\* The slots of waveform buffer w that lie between the addresses ring() reads.
Addressed(w) ==
    IF region[w] = <<waveRegs[w].start, waveRegs[w].end>> THEN 0 .. Ring - 1 ELSE {}

\* The memory between ring()'s addresses goes to a file, with -f, if it can be opened.
Dump ==
    /\ at = "dump"
    /\ at' = "rearm"
    /\ \/ opts.file /\ \E how \in {"file", "spoiled"} :
                           Put(W(opts.ndiag), Addressed(opts.ndiag), how)
       \/ UNCHANGED <<saved, file>>
    /\ UNCHANGED <<vars, buf, opts, raw, fetch, got, looked, runs, others, region>>

\* rearm() is outside of the if: a capture under way starts again.
Rearm ==
    /\ at = "rearm"
    /\ Strobe(Register(opts.ndiag))
    /\ at' = "done"
    /\ UNCHANGED <<vars, opts, raw, fetch, got, looked, saved, file, runs, others>>

\* done() once for all arrays.
ToolDone ==
    /\ at = "done"
    /\ IF opts.fetch
       THEN LET D == {a \in Fetched : Done(A(a))}
            IN  /\ fetch' = D \cup opts.force /\ Look({A(a) : a \in D})
                /\ at' = "fetch"
       ELSE at' = "end" /\ UNCHANGED <<fetch, looked>>
    /\ UNCHANGED <<vars, buf, opts, raw, got, saved, file, runs, others, region>>

\* getRecord(): bounds.  Without -i, _begin is an empty vector; without data
\* get() throws.  Either ends the process.
Get ==
    /\ at = "fetch" /\ fetch # {}
    /\ LET b == A(Min(fetch))
       IN  IF pc # "ready" \/ buf[b].n = 0
           THEN Exit
           ELSE /\ at' = "fill"
                /\ got' = [of |-> b, id |-> buf[b].id, n |-> buf[b].n]
                /\ fetch' = fetch \ {Min(fetch)}
                /\ UNCHANGED <<vars, buf, opts, raw, looked, saved, file, runs, others, region>>

\* Variant: the whole ring, as the waveform dump does.
SlotsAll(n) == 0 .. Ring - 1

\* What getRecord(array) reads: from _begin, not from the oldest entry, to
\* WrAddr; the whole ring when that is back at _begin.
Slots(n) == 0 .. (IF n % Ring = 0 THEN Ring ELSE n % Ring) - 1

\* Variant: cleared all the same.
AfterNoFileClear == "clear"

\* fopen failed: on to the next array.
AfterNoFile == "fetch"

\* The ring is read, and written to a file or printed; when the file cannot be
\* opened, the array is left as it is.
Fill ==
    /\ at = "fill"
    /\ \/ /\ at' = "clear"
          /\ \E how \in IF opts.file THEN {"file", "spoiled"} ELSE {"print"} :
                Put(got.of, Slots(got.n), how)
       \/ opts.file /\ at' = AfterNoFile /\ UNCHANGED <<saved, file>>
    /\ UNCHANGED <<vars, buf, opts, raw, fetch, got, looked, runs, others, region>>

\* "delete record" of what is a member of hw is undefined: the C library may
\* end the process (Exit) or not; then the array is cleared.
Clear ==
    /\ at = "clear"
    /\ Rewind({got.of})
    /\ at' = "fetch"
    /\ UNCHANGED <<vars, opts, raw, fetch, got, looked, saved, file, runs, others, region>>

ToolEnd ==
    /\ at \in {"end", "fetch"} /\ fetch = {}
    /\ Exit
Killed == at \notin {"none", "other"} /\ Exit

-----------------------------------------------------------------------------
(* Another program over the same library *)

OtherStart ==
    /\ at = "none" /\ pc = "new" /\ runs < MaxRuns
    /\ at' = "other" /\ runs' = runs + 1 /\ others' = TRUE
    /\ UNCHANGED <<vars, buf, opts, raw, fetch, got, looked, saved, file, region>>

OtherStep ==
    /\ at = "other"
    /\ \/ /\ raw < MaxOther /\ raw' = raw + 1
          /\ StartInitialize \/ \E w \in Waves, size \in Sizes : RawStart(w, size)
          /\ UNCHANGED <<buf, region>>
       \/ InitializeArray /\ Rewind({A(next)}) /\ UNCHANGED <<raw, region>>
       \/ (EndInitialize \/ RawEnd \/ RawEnable \/ RawThrow) /\ UNCHANGED <<buf, raw, region>>
       \/ RawInit /\ Strobe(target[1]) /\ UNCHANGED raw
    /\ UNCHANGED <<at, opts, fetch, got, looked, saved, file, runs, others>>

OtherEnd == at = "other" /\ Exit

ToolNext ==
    \/ \E a \in Fetched : FwStart(a) \/ FwEnd(a)
    \/ \E b \in Bufs : FwWrite(b)
    \/ \E o \in Options : Start(o)
    \/ ToolInitialize \/ ToolInitRaw \/ Diag \/ Dump \/ Rearm
    \/ ToolDone \/ Get \/ Fill \/ Clear \/ ToolEnd \/ Killed
    \/ OtherStart \/ OtherStep \/ OtherEnd

ToolSpec == ToolInit /\ [][ToolNext]_allVars

-----------------------------------------------------------------------------

\* No enabled waveform buffer shares memory with an enabled array, not even one
\* of whose addresses bsa_tst has written only the first, nor with another one,
\* except such a one (it may span its neighbours, for good if the process ends
\* there): whichever run set them up and however many the last one had been asked
\* for, as long as no other program moved them.
CapturesDisjoint ==
    ~others => \A w \in Waves : waveRegs[w].on =>
        /\ \A a \in Arrays : arrayRegs[a].on => Disjoint(waveRegs[w], arrayRegs[a])
        /\ \A v \in Waves \ {w} :
              waveRegs[v].on /\ owed[v] # "EndAddr" /\ owed[w] # "EndAddr"
              => Disjoint(waveRegs[w], waveRegs[v])

\* A waveform file holds one capture, all of it, although the bit that says so
\* is read first, the addresses after it, and the buffer is re-armed last
\* (bsa_tst.cc, -d); unless the last set-up of that buffer was not finished.
DumpIsOneCapture ==
    file.of[1] = "wave" /\ owed[file.of[2]] = "none"
    => file.data = {<<file.id, i>> : i \in 0 .. Ring - 1}

\* The file of the array that was fetched last holds the newest entries of one
\* acquisition, all of them when the ring has not wrapped, unless the firmware
\* wrote on between get()'s look at WrAddr and its read.
FetchIsNewest ==
    file.of[1] = "array" /\ file.of = got.of /\ file.n = got.n =>
        /\ file.data = {<<file.id, i>> : i \in (file.n - Cardinality(file.data)) .. (file.n - 1)}
        /\ file.n <= Ring => Cardinality(file.data) = file.n

\* clear() throws away no acquisition of an array that done() had reported
\* unless all of it has been put out: with -f to a file (or to one whose writes
\* failed, which the code does not notice), without -f to the terminal.  So it is
\* although a file may not open, and other acquisitions start and end between
\* done(), the fetch and clear().  One that started after done() is not spared.
SavedBeforeDiscard ==
    [][\A a \in Fetched :
          /\ at = "clear" /\ at' = "fetch" /\ looked[A(a)] # 0
          /\ looked[A(a)] = buf[A(a)].id /\ buf'[A(a)].id # buf[A(a)].id
          => \E how \in IF opts.file THEN {"file", "spoiled"} ELSE {"print"} :
                <<A(a), buf[A(a)].id, buf[A(a)].n, how>> \in saved]_allVars
=============================================================================
