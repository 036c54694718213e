--------------------------- MODULE MCBsaProcessor ---------------------------
(* Instances of BsaProcessor for TLC: one or two arrays at the bottom of     *)
(* the memory, laid out back to back as initialize() does.                   *)
EXTENDS BsaProcessor

CONSTANT NArrays

MCArrays == 0 .. NArrays - 1
MCBegin == [a \in MCArrays |-> a * RingEntries * EntryUnits]
MCEnd == [a \in MCArrays |-> (a + 1) * RingEntries * EntryUnits]
=============================================================================
