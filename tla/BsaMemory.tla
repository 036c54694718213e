----------------------------- MODULE BsaMemory ------------------------------
(***************************************************************************)
(* The DRAM the BSA firmware writes and the software reads: what a unit of *)
(* memory holds, and the entries a fetch assembles from the units it       *)
(* copied (AmcCarrierBase::_fill into Record::entries).                    *)
(***************************************************************************)
EXTENDS Integers, Sequences

CONSTANT EntryUnits    \* sizeof(Entry), in units

ASSUME EntryAssumption == EntryUnits \in Nat \ {0}

\* Entries are numbered by the absolute position at which the firmware wrote
\* their first unit; positions count the units of one array from 1.
NoArray == -1
Blank == [array |-> NoArray, at |-> 0, pos |-> 0]
UnitAt(a, base, k) ==
    [array |-> a, pos |-> k % EntryUnits, at |-> base + k - (k % EntryUnits) + 1]

\* An entry as read out: a whole entry of an array, or anything else.
Torn == [array |-> NoArray, at |-> 0]

\* The n entries assembled from units, a function of the offset in the fetch.
Entries(units, n) ==
    LET Whole(m) == \A j \in 0 .. EntryUnits - 1 :
                       units[m + j] = [units[m] EXCEPT !.pos = j]
    IN  [i \in 1 .. n |->
            LET m == (i - 1) * EntryUnits
            IN  IF units[m] # Blank /\ Whole(m)
                THEN [array |-> units[m].array, at |-> units[m].at] ELSE Torn]

\* The entries an acquisition that began at position base has at its entry
\* numbers first .. last, counted from 0.
Span(a, base, first, last) ==
    [i \in 1 .. (last - first + 1) |->
        [array |-> a, at |-> base + (first + i - 1) * EntryUnits + 1]]
=============================================================================
