----------------------------- MODULE MCTcpInfo -----------------------------
(***************************************************************************)
(* pkg/tcpinfo for TLC: the choice of fields by kernel version on Linux,   *)
(* and the samples of all platforms.  The two share no variable, so one at *)
(* a time takes steps while the other stays in an initial state.           *)
(***************************************************************************)
EXTENDS TcpInfoLinux, TcpInfo

VARIABLE part   \* which of the two takes steps

mcVars == <<part, vars, sampleVars>>

MCInit ==
  /\ Init /\ SampleInit
  /\ \/ part = "versions" /\ platform = "other"
     \/ part = "samples" /\ host = V(7, 0, 0) /\ linuxKernelVersion = host

MCNext ==
  /\ UNCHANGED part
  /\ \/ part = "versions" /\ Next /\ UNCHANGED sampleVars
     \/ part = "samples" /\ SampleNext /\ UNCHANGED vars

MCSpec == MCInit /\ [][MCNext]_mcVars

\* Every version of the table, the version just before it, one below the table
\* and some past its end.
AllVersions ==
  {tcpInfoSizes[i].Version : i \in Rows} \cup
  {V(2, 4, 37), V(2, 6, 1), V(2, 6, 32), V(3, 14, 79), V(4, 0, 9), V(4, 1, 52), V(4, 5, 7),
   V(4, 8, 17), V(4, 9, 337), V(4, 17, 19), V(4, 18, 20), V(5, 3, 18), V(5, 4, 289),
   V(6, 1, 99), V(6, 6, 30), V(7, 0, 0)}

SomeVersions == {V(2, 6, 1), V(4, 8, 17), V(4, 10, 0), V(6, 1, 99), V(6, 7, 0)}

Host49 == {V(4, 9, 0), V(7, 0, 0)}

\* Every options word and every flags word.
AllMasks == 0..255

\* Every state code of the platforms and one that none has.
AllCodes == 0..13

\* No scaling, and two scales that tell the nibbles of a byte apart.
FewScales == {0, 1, 7}
=============================================================================
