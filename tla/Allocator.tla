------------------------------- MODULE Allocator -------------------------------
(* What a block allocator owes its clients: a block it gives out is nobody     *)
(* else's, and it says no only when every block is out.                        *)
CONSTANTS Blocks, NoBlock

VARIABLES
  held,     \* the blocks clients have
  result    \* what the last take returned

vars == <<held, result>>

Init == held = {} /\ result = NoBlock

Take ==
  \/ /\ held # Blocks
     /\ \E b \in Blocks \ held : result' = b /\ held' = held \cup {b}
  \/ /\ held = Blocks
     /\ result' = NoBlock
     /\ UNCHANGED held

Give == \E b \in held : held' = held \ {b} /\ UNCHANGED result

\* every block is taken back at once
Wipe == held' = {} /\ UNCHANGED result

Next == Take \/ Give \/ Wipe

Spec == Init /\ [][Next]_vars
===============================================================================
