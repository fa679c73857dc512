------------------------------- MODULE MCConn -------------------------------
(***************************************************************************)
(* Instances of Conn for TLC.                                              *)
(***************************************************************************)
EXTENDS Conn, TLC

\* A TCP connection with a callback, on a platform that is supported or is not.
TcpSetups ==
  {[kind |-> "tcp", supported |-> s, report |-> TRUE, emitOpen |-> FALSE, steady |-> FALSE] :
     s \in BOOLEAN}

\* A connection that is not TCP, with an open callback, under a clock that is
\* never set back and one that may be, and no connection at all.
ClockSetups ==
  {[kind |-> "other", supported |-> TRUE, report |-> TRUE, emitOpen |-> TRUE, steady |-> b] :
     b \in BOOLEAN} \cup
  {[kind |-> "nil", supported |-> TRUE, report |-> FALSE, emitOpen |-> FALSE, steady |-> FALSE]}

NoDeadlines == {}

ProcSymmetry == Permutations(Procs)
=============================================================================
