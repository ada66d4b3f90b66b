--------------------------- MODULE MCStreamSender ---------------------------
(* StreamSender for TLC: the settings configure() switches between, the      *)
(* first of them in force at the start.                                      *)
EXTENDS StreamSender

Blocks    == [k |-> 2, n |-> 3, max |-> 2]
NoFec     == [k |-> 1, n |-> 1, max |-> 2]
Shorter   == [k |-> 2, n |-> 3, max |-> 1]
Settings  == {Blocks, NoFec, Shorter}

MCInit     == Init /\ cfg = Blocks
MCSpec     == MCInit /\ [][Next]_vars
MCFairSpec == MCSpec /\ Fairness
=============================================================================
