--------------------------- MODULE BufferExchange ---------------------------
(***************************************************************************)
(* What the two threads of a data copy program promise each other.  Two    *)
(* slots are exchanged in strict alternation: the producer answers the     *)
(* request of a slot with exactly as many words as were asked for, the     *)
(* consumer takes the slots in the order in which they were filled, never  *)
(* twice, never before they are filled, and asks again as it takes.        *)
(***************************************************************************)
EXTENDS Integers

CONSTANT Sizes      \* the numbers of words that may be asked for

Slot == 0..1

VARIABLES
  full,             \* full[b]: slot b is filled and not yet taken
  words,            \* words[b]: words asked for, or delivered, in slot b
  toFill, toTake    \* the slot to be filled next, to be taken next

vars == <<full, words, toFill, toTake>>

Init == /\ full = [b \in Slot |-> FALSE]
        /\ words = [b \in Slot |-> 0]
        /\ toFill = 0
        /\ toTake = 0

Fill == /\ ~full[toFill]
        /\ full' = [full EXCEPT ![toFill] = TRUE]
        /\ toFill' = 1 - toFill
        /\ UNCHANGED <<words, toTake>>

Take == /\ full[toTake]
        /\ full' = [full EXCEPT ![toTake] = FALSE]
        /\ \E n \in Sizes : words' = [words EXCEPT ![toTake] = n]
        /\ toTake' = 1 - toTake
        /\ UNCHANGED toFill

Next == Fill \/ Take

Spec == Init /\ [][Next]_vars

=============================================================================
