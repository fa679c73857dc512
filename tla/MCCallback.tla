----------------------------- MODULE MCCallback -----------------------------
(***************************************************************************)
(* Instances of Callback for TLC.                                          *)
(***************************************************************************)
EXTENDS Callback

PlainSetups == {[kind |-> "other", supported |-> TRUE, report |-> TRUE, emitOpen |-> FALSE,
                 steady |-> FALSE]}

NoDeadlines == {}
=============================================================================
