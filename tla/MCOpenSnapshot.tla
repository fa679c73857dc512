--------------------------- MODULE MCOpenSnapshot ---------------------------
(***************************************************************************)
(* Instances of OpenSnapshot for TLC.                                      *)
(***************************************************************************)
EXTENDS OpenSnapshot

\* The open callback is asked for; nothing is sampled.
OpenSetups == {[kind |-> "other", supported |-> TRUE, report |-> TRUE, emitOpen |-> TRUE,
                steady |-> FALSE]}

SetReadDeadlineOnly == {{"rx"}}
=============================================================================
