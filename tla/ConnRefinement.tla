--------------------------- MODULE ConnRefinement ---------------------------
(***************************************************************************)
(* The wrapper of Conn implements ConnContract.  The abstract life is read *)
(* off closeStarted, the closer's program counter and the done channel.    *)
(***************************************************************************)
EXTENDS Conn

lifeOf ==
  IF closeDone = "closed" THEN "over"
  ELSE IF SnapshotTaken THEN "drained"
  ELSE IF closeStarted THEN "closing"
  ELSE "open"

\* The bytes of the closed report, which is the last one made.
reportOf ==
  IF ClosedReports = {} THEN <<>>
  ELSE <<reports[Len(reports)].snap.stats.Bytes>>

Contract == INSTANCE ConnContract
  WITH life <- lifeOf, total <- stats.Bytes, callback <- setup.report,
       report <- reportOf

\* Every behaviour of the wrapper is one the contract allows: bytes are only
\* accounted before the drain, the report is made once with the final totals, and
\* Close is over only after it; and a started Close drains, reports and finishes.
ImplementsContract == Contract!CSpec
=============================================================================
