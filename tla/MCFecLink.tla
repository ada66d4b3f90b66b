------------------------------ MODULE MCFecLink ------------------------------
(* FecLink for TLC.  Ring ids only matter relative to each other, so the      *)
(* first sender starts at one id and only a restarted one draws from StartIds. *)
EXTENDS FecLink

FirstStart == CHOOSE i \in StartIds : \A j \in StartIds : j <= i

MCInit == LinkInit /\ block_id = FirstStart
MCSpec == MCInit /\ [][LinkNext]_vars
MCFairSpec == MCSpec /\ WF_polled(polled' = TRUE) /\ WF_polled(polled' = FALSE)
=============================================================================
