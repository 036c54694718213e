----------------------------- MODULE NewestWindow -----------------------------
(***************************************************************************)
(* What a waveform promises its reader (Pv and PvArray of Processor.hh,    *)
(* with the size bsaapp_tst.cc gives them): the newest Depth values that   *)
(* were appended since it was last cleared, oldest first.                  *)
(***************************************************************************)
EXTENDS Integers, Sequences

CONSTANTS
    Waves,   \* the waveforms
    Depth,   \* values a waveform keeps
    Values   \* what may be appended

VARIABLE win \* the values of each waveform

Init == win = [w \in Waves |-> <<>>]

Clear(w) == win' = [win EXCEPT ![w] = <<>>]

Push(w, x) ==
    win' = [win EXCEPT ![w] = IF Len(@) < Depth THEN Append(@, x) ELSE Append(Tail(@), x)]

Next == \E w \in Waves : Clear(w) \/ \E x \in Values : Push(w, x)

Spec == Init /\ [][Next]_win
=============================================================================
