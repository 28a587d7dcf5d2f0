------------------------------ MODULE StoredIndex ------------------------------
(***************************************************************************)
(* What the refit and the restore promise about the vector index on disk:  *)
(* a start of the daemon at any moment finds either the index it would     *)
(* have found before or a newer one, never an older one and never none.    *)
(* Two mishaps limit the promise, and both only ever cost the index: none  *)
(* brings an older one back.                                               *)
(***************************************************************************)
EXTENDS Integers

CONSTANT Generation   \* positive integers; 0 stands for no index

VARIABLES
  found,    \* the generation of the index a start would load now
  trouble   \* "raced": somebody else made the directory during a swap
            \* "cut": the index was cut off in mid-copy

vars == <<found, trouble>>

Init == found \in Generation \cup {0} /\ trouble = "none"

Swap ==
  /\ trouble # "cut"
  /\ found' \in {g \in Generation : g > found}
  /\ trouble' = "none"

Race ==
  /\ trouble = "none" /\ trouble' = "raced"
  /\ UNCHANGED found

\* Until a start or a swap has mended it, a raced directory may lose its index.
Lose ==
  /\ trouble = "raced" /\ found' = 0
  /\ UNCHANGED trouble

Mend ==
  /\ trouble = "raced" /\ trouble' = "none"
  /\ UNCHANGED found

\* Nothing comes after a cut.
Cut ==
  /\ trouble' = "cut" /\ found' = 0

Next == Swap \/ Race \/ Lose \/ Mend \/ Cut

Spec == Init /\ [][Next]_vars
================================================================================
