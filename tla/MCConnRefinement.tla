-------------------------- MODULE MCConnRefinement --------------------------
(***************************************************************************)
(* Instance of ConnRefinement for TLC.                                     *)
(***************************************************************************)
EXTENDS ConnRefinement

\* A connection that is not TCP, with and without a callback.
PlainSetups ==
  {[kind |-> "other", supported |-> TRUE, report |-> r, emitOpen |-> FALSE,
    steady |-> FALSE] : r \in BOOLEAN}

\* SetDeadline; SetReadDeadline and SetWriteDeadline are its two halves.
SetDeadlineOnly == {{"rx", "tx"}}
=============================================================================
