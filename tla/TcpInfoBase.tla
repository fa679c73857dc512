---------------------------- MODULE TcpInfoBase -----------------------------
(***************************************************************************)
(* What the platforms of pkg/tcpinfo share: the zero Info that ToInfo      *)
(* fills in, the loop that lists the TCP options of one direction, and the *)
(* units of time.  A struct is a record with the field names of the source *)
(* and small numbers as values; a nil and an empty option list are one     *)
(* value here.                                                             *)
(***************************************************************************)
EXTENDS Integers, Sequences, FiniteSets

\* time.Duration counts nanoseconds.
Microsecond == 1000
Millisecond == 1000000

Bit(mask, b) == (mask \div b) % 2 = 1

\* An Option of the table (bit and Kind): a window scale has its value.
Option(o, wscale) ==
  [Kind |-> o.Kind, Value |-> IF o.Kind = "WindowScale" THEN wscale ELSE 0]

\* The loop over tcpOptions in Unpack, for one direction: what is listed after the
\* first i options of the table, an option being appended if its bit is set.
OptionsAfter(table, mask, wscale) ==
  LET opts[i \in 0 .. Len(table)] ==
        IF i = 0 THEN <<>>
        ELSE IF Bit(mask, table[i].bit) THEN Append(opts[i - 1], Option(table[i], wscale))
        ELSE opts[i - 1]
  IN  opts

Options(table, mask, wscale) == OptionsAfter(table, mask, wscale)[Len(table)]

\* A code that is not in tcpStateMap gives the empty name.
StateName(names, code) == IF code \in DOMAIN names THEN names[code] ELSE ""

\* &Info{}, without Sys.
EmptyInfo ==
  [State |-> "", TxOptions |-> <<>>, RxOptions |-> <<>>, TxMSS |-> 0, RxMSS |-> 0,
   RTT |-> 0, RTTVar |-> 0, RTO |-> 0, ATO |-> 0,
   LastTxAt |-> 0, LastRxAt |-> 0, LastTxAckAt |-> 0, LastRxAckAt |-> 0,
   RxWindow |-> 0, TxSSThreshold |-> 0, RxSSThreshold |-> 0,
   TxWindowBytes |-> 0, TxWindowSegs |-> 0, Retransmits |-> 0]
=============================================================================
