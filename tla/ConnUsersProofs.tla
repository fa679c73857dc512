--------------------------- MODULE ConnUsersProofs --------------------------
(***************************************************************************)
(* Proofs about the wrapper of Conn as its users see it: it implements     *)
(* ConnContract, its closed callback may call back (Callback), and nothing *)
(* done with the open callback's snapshot disturbs it (OpenSnapshot).      *)
(***************************************************************************)
EXTENDS ConnSampleProofs, ConnRefinement, Callback, OpenSnapshot

-----------------------------------------------------------------------------
\* A step that makes no closed report, enters no bytes and leaves the progress of
\* Close as it is, is a stuttering step of the contract.
LEMMA ContractFrame ==
  ASSUME setup' = setup, stats'.Bytes = stats.Bytes, reports' = reports,
         closeStarted' = closeStarted, closeDone' = "closed" <=> closeDone = "closed",
         SnapshotTaken' <=> SnapshotTaken
  PROVE  UNCHANGED Contract!cvars
<1>1. lifeOf' = lifeOf
  BY DEF lifeOf
<1>2. reportOf' = reportOf
  BY DEF reportOf, ClosedReports
<1> QED
  BY <1>1, <1>2 DEF Contract!cvars

\* Entering the bytes of a Read or Write is a transfer of the contract, which
\* happens before the snapshot.
LEMMA AccountIsTransfer ==
  ASSUME IndInv, NEW p \in Procs, Account(p)
  PROVE  Contract!Transfer
<1>a. /\ pc \in [Procs -> Pcs] /\ io \in [Procs -> [dir : Dirs, n : Nat, err : IOErrs]]
      /\ stats \in StatsType /\ now \in Nat
  BY SMTT(30) DEF IndInv, TypeOK, Pcs
<1>1. ~SnapshotTaken
  BY InIOCounted DEF IndInv, Account, IOPcs
<1>2. ~SnapshotTaken' /\ closeDone' = closeDone /\ closeStarted' = closeStarted
  BY <1>1, <1>a DEF Account, SnapshotTaken, SnapPcs, Goto, lifeVars
<1>3. lifeOf \in {"open", "closing"} /\ lifeOf' = lifeOf
  BY <1>1, <1>2 DEF lifeOf, SnapshotTaken
<1>4. reportOf' = reportOf /\ setup' = setup
  BY DEF Account, reportOf, ClosedReports, wrapVars
<1>5. stats' = RecordIO(stats, io[p].dir, io[p].n, io[p].err)
  BY DEF Account
<1>6. stats' \in StatsType
  BY <1>a, <1>5, RecordIOType
<1>7. \A d \in Dirs : stats'.Bytes[d] \in {stats.Bytes[d], stats.Bytes[d] + io[p].n}
  BY <1>a, <1>5, RecordFields
<1>8. stats'.Bytes \in [Dirs -> Nat] /\ \A d \in Dirs : stats'.Bytes[d] >= stats.Bytes[d]
  BY <1>a, <1>6, <1>7, SMTT(20) DEF StatsType
<1> QED
  BY <1>3, <1>4, <1>8 DEF Contract!Transfer

\* The first Close starts the contract's closing.
LEMMA BeginIsStart ==
  ASSUME IndInv, NEW p \in Procs, CloseBegin(p), stats'.Bytes = stats.Bytes
  PROVE  Contract!StartClose
<1>a. pc \in [Procs -> Pcs]
  BY SMTT(30) DEF IndInv, TypeOK, Pcs
<1>1. ~closeStarted /\ \A q \in Procs : pc[q] \notin CloserPcs
  BY DEF IndInv, CloserInv, CloseBegin
<1>2. lifeOf = "open"
  BY <1>1 DEF lifeOf, CloseBegin, SnapshotTaken, CloserPcs
<1>3. ~SnapshotTaken'
  BY <1>1, <1>a DEF CloseBegin, SnapshotTaken, CloserPcs, SnapPcs, Goto
<1>4. lifeOf' = "closing"
  BY <1>3 DEF lifeOf, CloseBegin, SnapshotTaken
<1>5. reportOf' = reportOf /\ setup' = setup
  BY DEF CloseBegin, reportOf, ClosedReports, wrapVars
<1> QED
  BY <1>2, <1>4, <1>5 DEF Contract!StartClose

\* The drain loop waits, which the contract does not see, or takes the snapshot,
\* which is the contract's drain.
LEMMA DetachIsDrain ==
  ASSUME IndInv, NEW p \in Procs, CloseDetach(p) \/ CloseWake(p), stats'.Bytes = stats.Bytes
  PROVE  Contract!Drain \/ UNCHANGED Contract!cvars
<1>a. pc \in [Procs -> Pcs]
  BY SMTT(30) DEF IndInv, TypeOK, Pcs
<1>1. /\ pc[p] \in CloserPcs \ SnapPcs /\ DrainOrSnapshot(p)
      /\ setup' = setup /\ reports' = reports
      /\ closeStarted' = closeStarted /\ closeDone' = closeDone
  BY DEF CloseDetach, CloseWake, CloserPcs, SnapPcs, wrapVars, lifeVars
<1>2. closeStarted /\ closeDone = "made" /\ \A q \in Procs : q # p => pc[q] \notin CloserPcs
  BY <1>1 DEF IndInv, CloserInv
<1>3. ~SnapshotTaken
  BY <1>1, <1>2 DEF SnapshotTaken, CloserPcs
<1>4. \/ pc' = [pc EXCEPT ![p] = "waiting"]
      \/ pc' = [pc EXCEPT ![p] = "report"]
  BY <1>1 DEF DrainOrSnapshot, Goto
<1>5. CASE pc' = [pc EXCEPT ![p] = "waiting"]
  <2>1. ~SnapshotTaken'
    BY <1>a, <1>1, <1>3, <1>5 DEF SnapshotTaken, SnapPcs
  <2> QED
    BY <1>1, <1>3, <2>1, ContractFrame
<1>6. CASE pc' = [pc EXCEPT ![p] = "report"]
  <2>1. SnapshotTaken'
    BY <1>a, <1>6 DEF SnapshotTaken, SnapPcs
  <2>2. lifeOf = "closing" /\ lifeOf' = "drained"
    BY <1>1, <1>2, <1>3, <2>1 DEF lifeOf
  <2>3. reportOf' = reportOf
    BY <1>1 DEF reportOf, ClosedReports
  <2> QED
    BY <1>1, <2>2, <2>3 DEF Contract!Drain
<1> QED
  BY <1>4, <1>5, <1>6

\* Calling the callback is the contract's report, of the totals at the drain.
LEMMA CallbackIsReport ==
  ASSUME IndInv, NEW p \in Procs, CloseReport(p)
  PROVE  Contract!Report \/ UNCHANGED Contract!cvars
<1>a. pc \in [Procs -> Pcs] /\ cl \in [Procs -> CloseType]
  BY SMTT(30) DEF IndInv, TypeOK, Pcs
<1>1. /\ pc[p] = "report" /\ stats' = stats /\ setup' = setup
      /\ closeStarted' = closeStarted /\ closeDone' = closeDone
  BY DEF CloseReport, wrapVars, lifeVars, statVars
<1>2. closeDone = "made" /\ \A q \in Procs : q # p => pc[q] \notin CloserPcs
  BY <1>1, SMTT(20) DEF IndInv, CloserInv, CloserPcs, SnapPcs
<1>3. SnapshotTaken /\ SnapshotTaken'
  BY <1>a, <1>1 DEF CloseReport, SnapshotTaken, SnapPcs, Goto
<1>4. lifeOf = "drained" /\ lifeOf' = "drained"
  BY <1>1, <1>2, <1>3, SMTT(20) DEF lifeOf
<1>5. CASE ~setup.report
  <2>1. reports' = reports
    BY <1>5 DEF CloseReport
  <2> QED
    BY <1>1, <1>3, <2>1, ContractFrame
<1>6. CASE setup.report
  <2>1. reports' = Append(reports, [state |-> "Closed", snap |-> cl[p].snap])
    BY <1>6 DEF CloseReport
  <2>2. [state |-> "Closed", snap |-> cl[p].snap] \in ReportType
    BY <1>a DEF ReportType, CloseType
  <2>3. ClosedReports = {}
    BY <1>1, <1>2 DEF IndInv, ReportInv, ReportedPcs, CloserPcs, SnapPcs
  <2>4. ClosedReports' # {} /\ reports'[Len(reports')].snap = cl[p].snap
    BY Zenon, <2>1, <2>2, AppendClosed DEF IndInv
  <2>5. cl[p].snap.stats = stats
    BY <1>1 DEF IndInv, ReportInv
  <2>6. reportOf = <<>> /\ reportOf' = <<stats.Bytes>>
    BY <2>3, <2>4, <2>5 DEF reportOf
  <2> QED
    BY <1>1, <1>4, <1>6, <2>6 DEF Contract!Report
<1> QED
  BY <1>5, <1>6, SMTT(20)

\* Closing the done channel finishes the contract's Close, after the report.
LEMMA SignalIsFinish ==
  ASSUME IndInv, NEW p \in Procs, CloseSignal(p)
  PROVE  Contract!Finish
<1>1. /\ pc[p] \in {"signal", "panicking"} /\ closeDone' = "closed"
      /\ stats' = stats /\ setup' = setup /\ reports' = reports
  BY DEF CloseSignal, wrapVars, statVars
<1>2. closeDone = "made"
  BY <1>1, SMTT(20) DEF IndInv, CloserInv, CloserPcs, SnapPcs
<1>3. lifeOf = "drained" /\ lifeOf' = "over"
  BY <1>1, <1>2 DEF lifeOf, SnapshotTaken, SnapPcs
<1>4. setup.report => ClosedReports # {}
  BY <1>1 DEF IndInv, ReportInv, ReportedPcs, SnapPcs
<1>5. (setup.report => reportOf # <<>>) /\ reportOf' = reportOf
  BY <1>1, <1>4 DEF reportOf, ClosedReports
<1> QED
  BY <1>1, <1>3, <1>5 DEF Contract!Finish

\* WrapConn is not seen by the contract: its report, if any, is of the opening.
LEMMA WrapIsSilent ==
  ASSUME IndInv, TypeOK', WrapConn, stats'.Bytes = stats.Bytes
  PROVE  UNCHANGED Contract!cvars
<1>1. /\ setup' = setup /\ closeStarted' = closeStarted /\ closeDone' = closeDone
      /\ closeDone = "nil" /\ UNCHANGED pc
  BY Zenon DEF WrapConn, IndInv, PhaseInv, lifeVars, procVars
<1>2. SnapshotTaken' <=> SnapshotTaken
  BY <1>1 DEF SnapshotTaken
<1>3. CASE reports' = reports
  BY <1>1, <1>2, <1>3, ContractFrame
<1>4. CASE reports' # reports
  <2>1. reports' = Append(reports, [state |-> "Opened", snap |-> SnapshotOf(stats')])
    BY Zenon, <1>4 DEF WrapConn
  <2>2. [state |-> "Opened", snap |-> SnapshotOf(stats')] \in ReportType
    BY Zenon DEF SnapshotOf, SnapshotType, ReportType, TypeOK, IndInv
  <2>3. ClosedReports = {}
    BY Zenon, <1>1 DEF IndInv, PhaseInv, WrapConn, ReportInv, ReportedPcs, SnapPcs
  <2>4. ClosedReports' = {}
    BY <2>1, <2>2, <2>3, AppendReport, SMTT(20) DEF IndInv
  <2>5. reportOf' = reportOf /\ lifeOf' = lifeOf
    BY <1>1, <1>2, <2>3, <2>4, SMTT(20) DEF reportOf, lifeOf
  <2> QED
    BY <1>1, <2>5 DEF Contract!cvars
<1> QED
  BY <1>3, <1>4

\* The steps of the wrapper that the contract does not see, WrapConn's apart.
LEMMA OthersAreSilent ==
  ASSUME IndInv, [Next]_vars, stats'.Bytes = stats.Bytes, ~WrapConn,
         ~\E p \in Procs : \/ Account(p) \/ CloseBegin(p) \/ CloseDetach(p) \/ CloseWake(p)
                           \/ CloseReport(p) \/ CloseSignal(p)
  PROVE  UNCHANGED Contract!cvars
<1> USE DEF wrapVars, lifeVars, statVars, procVars, rawVars, Goto, Call
<1> DEFINE Same == /\ setup' = setup /\ reports' = reports
                   /\ closeStarted' = closeStarted /\ closeDone' = closeDone
                   /\ \A q \in Procs : pc'[q] \in SnapPcs <=> pc[q] \in SnapPcs
<1>a. pc \in [Procs -> Pcs]
  BY Zenon DEF IndInv, TypeOK, Pcs
<1>1. ASSUME OpenCallbackReturn \/ ExternalClose \/ ExternalDeadline \/ Tick \/ UNCHANGED vars
      PROVE  Same
  BY Zenon, <1>1 DEF OpenCallbackReturn, ExternalClose, ExternalDeadline, Tick, vars
<1>2. ASSUME NEW p \in Procs, CloseNoConn(p) \/ \E k \in 0 .. MaxReconnects : SetReconnects(p, k)
      PROVE  Same
  BY Zenon, <1>2 DEF CloseNoConn, SetReconnects
<1>3. ASSUME NEW p \in Procs, (\E d \in Dirs : BeginIO(p, d)) \/ IOReturn(p) PROVE Same
  BY Zenon, <1>3, <1>a DEF BeginIO, IOReturn, SnapPcs
<1>4. ASSUME NEW p \in Procs, FinishIO(p) PROVE Same
  BY <1>4, <1>a, SMTT(20) DEF FinishIO, SnapPcs
<1>5. ASSUME NEW p \in Procs, CloseJoin(p) \/ CloseAwait(p) \/ CloseReread(p) PROVE Same
  BY Zenon, <1>5, <1>a DEF CloseJoin, CloseAwait, CloseReread, SnapPcs
<1>6. ASSUME NEW p \in Procs, CloseCollect(p) \/ CloseRaw(p) PROVE Same
  BY <1>6, <1>a, SMTT(20) DEF CloseCollect, CloseRaw, SnapPcs
<1>7. ASSUME NEW p \in Procs, CallbackReturn(p) PROVE Same
  BY <1>7, <1>a DEF CallbackReturn, SnapPcs
<1>8. ASSUME NEW p \in Procs, DeadlineBegin(p) \/ DeadlineApply(p) PROVE Same
  BY Zenon, <1>8, <1>a DEF DeadlineBegin, DeadlineApply, SnapPcs
<1> HIDE DEF Same
<1>9. Same
  BY Zenon, <1>1, <1>2, <1>3, <1>4, <1>5, <1>6, <1>7, <1>8 DEF Next, Step
<1>10. SnapshotTaken' <=> SnapshotTaken
  BY Zenon, <1>9 DEF Same, SnapshotTaken
<1> QED
  BY Zenon, <1>9, <1>10, ContractFrame DEF Same

\* Every step of the wrapper is a step of the contract, or none.
LEMMA ContractStep ==
  ASSUME IndInv, TypeOK', [Next]_vars
  PROVE  [Contract!CNext]_(Contract!cvars)
<1>1. (stats'.Bytes = stats.Bytes) \/ \E p \in Procs : Account(p)
  BY StatsChange DEF IndInv
<1>2. ASSUME NEW p \in Procs, Account(p) PROVE Contract!CNext
  BY <1>2, AccountIsTransfer DEF Contract!CNext
<1>3. ASSUME stats'.Bytes = stats.Bytes PROVE [Contract!CNext]_(Contract!cvars)
  <2>1. ASSUME NEW p \in Procs, CloseBegin(p) PROVE Contract!CNext
    BY <1>3, <2>1, BeginIsStart DEF Contract!CNext
  <2>2. ASSUME NEW p \in Procs, CloseDetach(p) \/ CloseWake(p)
        PROVE  Contract!CNext \/ UNCHANGED Contract!cvars
    BY <1>3, <2>2, DetachIsDrain DEF Contract!CNext
  <2>3. ASSUME NEW p \in Procs, CloseReport(p) PROVE Contract!CNext \/ UNCHANGED Contract!cvars
    BY <2>3, CallbackIsReport DEF Contract!CNext
  <2>4. ASSUME NEW p \in Procs, CloseSignal(p) PROVE Contract!CNext
    BY <2>4, SignalIsFinish DEF Contract!CNext
  <2>5. ASSUME WrapConn PROVE UNCHANGED Contract!cvars
    BY <1>3, <2>5, WrapIsSilent
  <2> QED
    BY Zenon, <1>2, <1>3, <2>1, <2>2, <2>3, <2>4, <2>5, OthersAreSilent
<1> QED
  BY Zenon, <1>1, <1>2, <1>3

\* Every behaviour of the wrapper is one of the contract, fairness apart: bytes are
\* entered only before the drain, the totals at the drain are reported once, to the
\* callback that was given, and Close is over only after that.
THEOREM WrapperKeepsContract == Spec => Contract!CSafety
<1>1. Init => Contract!CInit
  <2> SUFFICES ASSUME Init PROVE Contract!CInit
    OBVIOUS
  <2>1. ClosedReports = {} /\ ~SnapshotTaken
    BY DEF Init, ClosedReports, SnapshotTaken, SnapPcs
  <2>2. lifeOf = "open" /\ reportOf = <<>>
    BY <2>1 DEF Init, lifeOf, reportOf
  <2>3. stats.Bytes = [d \in Dirs |-> 0]
    BY DEF Init, NoStats
  <2>4. setup.report \in BOOLEAN
    BY SetupsAssumption DEF Init, Setup
  <2> QED
    BY <2>2, <2>3, <2>4 DEF Contract!CInit
<1>2. IndInv /\ TypeOK' /\ [Next]_vars => [Contract!CNext]_(Contract!cvars)
  BY ContractStep
<1> QED
  BY <1>1, <1>2, Inductive, TypeCorrect, PTL DEF Spec, Contract!CSafety

-----------------------------------------------------------------------------
\* A number of reconnects that is to be reported, or was, had been in force
\* between the start of Close and the drain.
ReconnectsInv ==
  /\ \A p \in Procs : pc[p] = "report" => cl[p].snap.reconnects \in sinceClose
  /\ ReconnectsReported

\* A step that makes no report and takes no snapshot.
LEMMA ReconnectsFrame ==
  ASSUME ReconnectsInv, sinceClose \subseteq sinceClose', reports' = reports,
         \A q \in Procs : pc'[q] = "report" => pc[q] = "report" /\ cl'[q].snap = cl[q].snap
  PROVE  ReconnectsInv'
<1>1. ClosedReports' = ClosedReports
  BY Zenon DEF ClosedReports
<1> QED
  BY <1>1 DEF ReconnectsInv, ReconnectsReported

\* The steps of Conn other than WrapConn, the drain loop's and the callback's.
LEMMA ReconnectsOthers ==
  ASSUME TypeOK, [Next]_vars, ReconnectsInv, sinceClose \subseteq sinceClose', ~WrapConn,
         ~\E p \in Procs : CloseDetach(p) \/ CloseWake(p) \/ CloseReport(p)
  PROVE  ReconnectsInv'
<1> USE DEF wrapVars, lifeVars, statVars, procVars, rawVars, Goto, Call
<1> DEFINE Same == /\ reports' = reports
                   /\ \A q \in Procs : pc'[q] = "report" =>
                        pc[q] = "report" /\ cl'[q].snap = cl[q].snap
<1>a. pc \in [Procs -> Pcs] /\ cl \in [Procs -> CloseType]
  BY SMTT(30) DEF TypeOK, Pcs
<1>1. ASSUME OpenCallbackReturn \/ ExternalClose \/ ExternalDeadline \/ Tick \/ UNCHANGED vars
      PROVE  Same
  BY Zenon, <1>1 DEF OpenCallbackReturn, ExternalClose, ExternalDeadline, Tick, vars
<1>2. ASSUME NEW p \in Procs, CloseNoConn(p) \/ \E k \in 0 .. MaxReconnects : SetReconnects(p, k)
      PROVE  Same
  BY Zenon, <1>2 DEF CloseNoConn, SetReconnects
<1>3. ASSUME NEW p \in Procs, (\E d \in Dirs : BeginIO(p, d)) \/ IOReturn(p) \/ Account(p)
      PROVE  Same
  BY Zenon, <1>3, <1>a DEF BeginIO, IOReturn, Account
<1>4. ASSUME NEW p \in Procs, FinishIO(p) PROVE Same
  BY <1>4, <1>a, SMTT(20) DEF FinishIO
<1>5. ASSUME NEW p \in Procs, CloseBegin(p) \/ CloseJoin(p) \/ CloseAwait(p) \/ CloseReread(p)
      PROVE  Same
  BY Zenon, <1>5, <1>a DEF CloseBegin, CloseJoin, CloseAwait, CloseReread
<1>6. ASSUME NEW p \in Procs, CloseCollect(p) PROVE Same
  BY <1>6, <1>a DEF CloseCollect
<1>7. ASSUME NEW p \in Procs, CloseRaw(p) PROVE Same
  BY <1>7, <1>a DEF CloseRaw
<1>8. ASSUME NEW p \in Procs, CallbackReturn(p) \/ CloseSignal(p) PROVE Same
  BY Zenon, <1>8, <1>a DEF CallbackReturn, CloseSignal
<1>9. ASSUME NEW p \in Procs, DeadlineBegin(p) \/ DeadlineApply(p) PROVE Same
  BY Zenon, <1>9, <1>a DEF DeadlineBegin, DeadlineApply
<1> HIDE DEF Same
<1>10. Same
  BY Zenon, <1>1, <1>2, <1>3, <1>4, <1>5, <1>6, <1>7, <1>8, <1>9 DEF Next, Step
<1> QED
  BY Zenon, <1>10, ReconnectsFrame DEF Same

\* The snapshot is taken with the number then in force, which has been tracked.
LEMMA ReconnectsDrain ==
  ASSUME IndInv, ReconnectsInv, Track, NEW p \in Procs, CloseDetach(p) \/ CloseWake(p)
  PROVE  ReconnectsInv'
<1>a. pc \in [Procs -> Pcs] /\ cl \in [Procs -> CloseType]
  BY SMTT(30) DEF IndInv, TypeOK, Pcs
<1>1. /\ pc[p] \in CloserPcs \ SnapPcs /\ DrainOrSnapshot(p)
      /\ reports' = reports /\ closeStarted' = closeStarted /\ Reconnects' = Reconnects
  BY Zenon DEF CloseDetach, CloseWake, CloserPcs, SnapPcs, lifeVars
<1>2. closeStarted /\ closeDone = "made" /\ \A q \in Procs : q # p => pc[q] \notin CloserPcs
  BY <1>1 DEF IndInv, CloserInv
<1>3. ~SnapshotTaken
  BY <1>1, <1>2 DEF SnapshotTaken, CloserPcs
<1>4. sinceClose' = sinceClose \cup {Reconnects}
  BY <1>1, <1>2, <1>3 DEF Track
<1>5. CASE inFlight > 0
  BY <1>a, <1>1, <1>4, <1>5, ReconnectsFrame, SMTT(20) DEF DrainOrSnapshot, Goto
<1>6. CASE ~(inFlight > 0)
  <2>1. PICK s : cl' = [cl EXCEPT ![p].snap = SnapshotOf(s)]
    BY <1>1, <1>6 DEF DrainOrSnapshot
  <2>2. cl'[p].snap.reconnects = Reconnects
    BY <1>a, <2>1 DEF SnapshotOf, CloseType
  <2>3. \A q \in Procs : pc'[q] = "report" => q = p
    BY <1>a, <1>1, <1>2, <1>6 DEF DrainOrSnapshot, Goto, CloserPcs, SnapPcs
  <2>4. ClosedReports' = ClosedReports
    BY <1>1 DEF ClosedReports
  <2> QED
    BY Zenon, <1>1, <1>4, <2>2, <2>3, <2>4 DEF ReconnectsInv, ReconnectsReported
<1> QED
  BY <1>5, <1>6

\* Every step of the wrapper and of its callback keeps the tracked numbers right.
LEMMA ReconnectsStep ==
  ASSUME IndInv, TypeOK', ReconnectsInv, [Next]_vars, Track
  PROVE  ReconnectsInv'
<1>a. pc \in [Procs -> Pcs] /\ cl \in [Procs -> CloseType]
  BY Zenon DEF IndInv, TypeOK, Pcs
<1>1. sinceClose \subseteq sinceClose'
  BY DEF Track
<1>2. CASE WrapConn
  <2>1. ClosedReports = {} /\ \A q \in Procs : pc'[q] = "idle"
    BY Zenon, <1>2 DEF IndInv, PhaseInv, WrapConn, ReportInv, ReportedPcs, SnapPcs, procVars
  <2>2. CASE reports' = reports
    BY <1>1, <2>1, <2>2, ReconnectsFrame, SMTT(20)
  <2>3. CASE reports' # reports
    <3>1. reports' = Append(reports, [state |-> "Opened", snap |-> SnapshotOf(stats')])
      BY <1>2, <2>3, SMTT(20) DEF WrapConn
    <3>2. [state |-> "Opened", snap |-> SnapshotOf(stats')] \in ReportType
      BY Zenon DEF SnapshotOf, SnapshotType, ReportType, TypeOK, IndInv
    <3>3. ClosedReports' = {}
      BY Zenon, <2>1, <3>1, <3>2, AppendReport DEF IndInv
    <3> QED
      BY <2>1, <3>3 DEF ReconnectsInv, ReconnectsReported
  <2> QED
    BY <2>2, <2>3, SMTT(20)
<1>3. ASSUME NEW p \in Procs, CloseReport(p) PROVE ReconnectsInv'
  <2>1. pc[p] = "report" /\ cl' = cl /\ \A q \in Procs : pc'[q] = "report" => pc[q] = "report"
    BY Zenon, <1>3, <1>a DEF CloseReport, Goto
  <2>2. CASE ~setup.report
    BY Zenon, <1>1, <1>3, <2>1, <2>2, ReconnectsFrame DEF CloseReport
  <2>3. CASE setup.report
    <3>1. reports' = Append(reports, [state |-> "Closed", snap |-> cl[p].snap])
      BY <1>3, <2>3 DEF CloseReport
    <3>2. [state |-> "Closed", snap |-> cl[p].snap] \in ReportType
      BY <1>a DEF ReportType, CloseType
    <3>3. /\ ClosedReports' = ClosedReports \cup {Len(reports')}
          /\ reports'[Len(reports')].snap = cl[p].snap
          /\ \A i \in ClosedReports : reports'[i] = reports[i]
      BY Zenon, <3>1, <3>2, AppendClosed DEF IndInv
    <3> QED
      BY Zenon, <1>1, <2>1, <3>3 DEF ReconnectsInv, ReconnectsReported
  <2> QED
    BY <2>2, <2>3
<1> QED
  BY <1>1, <1>2, <1>3, ReconnectsOthers, ReconnectsDrain, SMTT(20) DEF IndInv

\* What the callback does to the wrapper is no step of Conn, yet it disturbs none
\* of what is invariant there.
LEMMA CallbackKeepsInv ==
  ASSUME IndInv, NEW p \in Procs, NEW k \in 0 .. MaxReconnects, CallbackSetsReconnects(p, k)
  PROVE  IndInv'
<1> USE DEF CallbackSetsReconnects, wrapVars, lifeVars, procVars, rawVars
<1>1. TypeOK'
  <2>1. Reconnects' \in Nat
    BY BoundsAssumption, SMTT(20)
  <2> QED
    BY Zenon, <2>1 DEF IndInv, TypeOK
<1>2. PhaseInv' /\ CloserInv' /\ RawInv'
  BY Zenon DEF IndInv, PhaseInv, CloserInv, RawInv
<1>3. ClosedReports' = ClosedReports /\ (SnapshotTaken' <=> SnapshotTaken) /\ InIO' = InIO
  BY Zenon DEF ClosedReports, SnapshotTaken, InIO
<1>4. CountInv'
  BY Zenon, <1>3 DEF IndInv, CountInv, InFlightExact, NoLostWakeup
<1>5. ReportInv' /\ CloseAgreement'
  BY Zenon, <1>3 DEF IndInv, ReportInv, CloseAgreement
<1> QED
  BY Zenon, <1>1, <1>2, <1>4, <1>5 DEF IndInv

\* The closed report gives a number of reconnects that was in force between the
\* start of Close and the end of the drain, whatever the callback itself sets.
THEOREM ReconnectsAreReported == BSpec => []ReconnectsReported
<1> DEFINE Inv == IndInv /\ ReconnectsInv
<1>1. BInit => Inv
  <2> SUFFICES ASSUME BInit PROVE Inv
    OBVIOUS
  <2>1. IndInv
    BY InitType, InitIndInv DEF BInit
  <2>2. ClosedReports = {} /\ \A p \in Procs : pc[p] = "idle"
    BY SMTT(20) DEF BInit, Init, ClosedReports
  <2> QED
    BY <2>1, <2>2 DEF ReconnectsInv, ReconnectsReported
<1>2. Inv /\ [BNext]_bvars => Inv'
  <2> SUFFICES ASSUME IndInv, ReconnectsInv, [BNext]_bvars PROVE Inv'
    OBVIOUS
  <2>1. CASE Track /\ [Next]_vars
    <3>1. IndInv' /\ TypeOK'
      BY <2>1, IndStep DEF IndInv
    <3> QED
      BY <2>1, <3>1, ReconnectsStep
  <2>2. ASSUME NEW p \in Procs, NEW k \in 0 .. MaxReconnects, CallbackSetsReconnects(p, k)
        PROVE  Inv'
    <3>1. sinceClose \subseteq sinceClose' /\ reports' = reports /\ pc' = pc /\ cl' = cl
      BY <2>2 DEF CallbackSetsReconnects, Track, procVars
    <3> QED
      BY Zenon, <2>2, <3>1, ReconnectsFrame, CallbackKeepsInv
  <2>3. CASE UNCHANGED <<vars, sinceClose>>
    <3>1. IndInv'
      BY <2>3, IndStep
    <3>2. sinceClose' = sinceClose /\ reports' = reports /\ pc' = pc /\ cl' = cl
      BY <2>3 DEF vars, procVars
    <3> QED
      BY <3>1, <3>2, ReconnectsFrame
  <2> QED
    BY Zenon, <2>1, <2>2, <2>3 DEF BNext, Wrapper, CallbackCloses, bvars, hvars
<1>3. Inv => ReconnectsReported
  BY DEF ReconnectsInv
<1> QED
  BY <1>1, <1>2, <1>3, PTL DEF BSpec

-----------------------------------------------------------------------------
\* The snapshot's fields, and where its users can be.
SnapType == [Conn : BOOLEAN, closeStarted : BOOLEAN, closeDone : {"nil", "made", "closed"},
             inFlight : Nat, locked : BOOLEAN]

UserPcs == {"idle", "stuck", "io", "account", "finish", "rawclose", "detach", "await", "deadline"}

\* A snapshot that has a raw connection got it from WrapConn's caller, and so has a
\* user who is about to close it or to set a deadline of it.  After a panic the snapshot is locked for ever, or
\* it is closing with nothing in flight and admits nothing more.
UsersInv ==
  /\ TypeOK /\ snap \in SnapType /\ spc \in [Users -> UserPcs]
  /\ snap.Conn => setup.kind # "nil"
  /\ \A u \in Users : spc[u] \in {"rawclose", "deadline"} => setup.kind # "nil"
  /\ panics # {} => snap.locked \/ (snap.closeStarted /\ snap.inFlight = 0)
  /\ \A u, v \in panics : u = v

\* Every step of the users of the snapshot keeps UsersInv.
LEMMA UsersStep ==
  ASSUME UsersInv, TypeOK', setup' = setup, NEW u \in Users,
         \/ SStuck(u) \/ SBeginIO(u) \/ SIOReturn(u) \/ SCloseBegin(u) \/ SCloseJoin(u)
         \/ SDeadlineBegin(u) \/ SStep(u)
  PROVE  UsersInv'
<1> USE DEF UsersInv, SnapType, UserPcs, SGoto
<1>1. CASE \/ SStuck(u) \/ SIOReturn(u) \/ SCloseJoin(u) \/ SAccount(u) \/ SCloseAwait(u) \/ SCloseRaw(u)
           \/ SDeadlineApply(u)
  <2>1. snap' = snap /\ panics' = panics
    BY Zenon, <1>1 DEF SStuck, SIOReturn, SCloseJoin, SAccount, SCloseAwait, SCloseRaw, SDeadlineApply
  <2>2. \E l \in {"stuck", "account", "await", "finish", "idle", "detach"} :
          spc' = [spc EXCEPT ![u] = l]
    BY Zenon, <1>1 DEF SStuck, SIOReturn, SCloseJoin, SAccount, SCloseAwait, SCloseRaw, SDeadlineApply
  <2> QED
    BY Zenon, <2>1, <2>2
<1>2. CASE SBeginIO(u)
  BY <1>2 DEF SBeginIO
<1>3. CASE SCloseBegin(u)
  BY ZenonT(30), <1>3 DEF SCloseBegin
<1>4. CASE SFinishIO(u)
  BY <1>4 DEF SFinishIO
<1>5. CASE SDetach(u)
  <2>1. \E b \in BOOLEAN :
          /\ b <=> snap.inFlight > 0
          /\ snap' = [snap EXCEPT !.Conn = FALSE, !.closeDone = "closed", !.locked = b]
    <3>1. CASE snap.inFlight > 0
      <4>1. snap' = [snap EXCEPT !.Conn = FALSE, !.closeDone = "closed", !.locked = TRUE]
        BY Zenon, <1>5, <3>1 DEF SDetach
      <4> QED
        BY Zenon, <3>1, <4>1
    <3>2. CASE ~(snap.inFlight > 0)
      <4>1. snap' = [snap EXCEPT !.Conn = FALSE, !.closeDone = "closed", !.locked = FALSE]
        <5>1. (snap.inFlight > 0) = FALSE
          BY <3>2
        <5> QED
          BY <1>5, <5>1, Zenon DEF SDetach
      <4> QED
        BY Zenon, <3>2, <4>1
    <3> QED
      BY Zenon, <3>1, <3>2
  <2>2. /\ spc' \in [Users -> UserPcs]
        /\ \A v \in Users : spc'[v] \in {"rawclose", "deadline"} => spc[v] \in {"rawclose", "deadline"}
    BY <1>5 DEF SDetach
  <2>3. CASE snap.inFlight > 0
    <3>1. panics = {} /\ panics' = {u}
      BY <1>5, <2>3 DEF SDetach
    <3> QED
      BY Zenon, <2>1, <2>2, <2>3, <3>1
  <2>4. CASE ~(snap.inFlight > 0)
    <3>1. panics' = panics /\ (panics # {} => snap.closeStarted /\ snap.inFlight = 0)
      BY <1>5, <2>4 DEF SDetach
    <3> QED
      BY Zenon, <2>1, <2>2, <3>1
  <2> QED
    BY Zenon, <2>3, <2>4
<1>6. CASE SDeadlineBegin(u)
  BY <1>6 DEF SDeadlineBegin
<1> QED
  BY Zenon, <1>1, <1>2, <1>3, <1>4, <1>5, <1>6 DEF SStep

\* What a user of the snapshot does is, for the wrapper, nothing or its raw
\* connection being closed, or given a deadline, behind its back.
LEMMA UsersAreOutside ==
  ASSUME UsersInv, [SNext]_allVars
  PROVE  [Next]_vars
<1>1. CASE (Next /\ UNCHANGED svars) \/ UNCHANGED allVars
  BY <1>1 DEF allVars
<1>2. ASSUME NEW u \in Users, SCloseRaw(u) PROVE [Next]_vars
  <2>1. CASE RawClosed
    <3>1. extClosed' = extClosed
      BY Zenon, <1>2, <2>1 DEF SCloseRaw, UsersInv, TypeOK
    <3> QED
      BY Zenon, <1>2, <3>1 DEF SCloseRaw, vars, rawVars
  <2>2. CASE ~RawClosed
    <3>1. setup.kind # "nil" /\ extClosed' = TRUE
      BY Zenon, <1>2, <2>2 DEF SCloseRaw, UsersInv
    <3>2. ExternalClose
      BY Zenon, <1>2, <2>2, <3>1 DEF SCloseRaw, ExternalClose
    <3> QED
      BY <3>2 DEF Next
  <2> QED
    BY <2>1, <2>2
<1>3. ASSUME NEW u \in Users, SStuck(u) \/ SBeginIO(u) \/ SIOReturn(u) \/ SCloseBegin(u)
                              \/ SCloseJoin(u) \/ SAccount(u) \/ SFinishIO(u)
                              \/ SCloseAwait(u) \/ SDetach(u) \/ SDeadlineBegin(u)
      PROVE  UNCHANGED vars
  BY <1>3 DEF SStuck, SBeginIO, SIOReturn, SCloseBegin, SCloseJoin, SAccount, SFinishIO,
              SCloseAwait, SDetach, SDeadlineBegin
<1>4. ASSUME NEW u \in Users, SDeadlineApply(u) PROVE [Next]_vars
  <2>1. PICK D \in DeadlineCalls, set \in BOOLEAN :
          deadline' = [d \in Dirs |-> IF d \in D /\ ~RawClosed THEN set ELSE deadline[d]]
    BY Zenon, <1>4 DEF SDeadlineApply
  <2>2. CASE RawClosed
    <3>1. deadline \in [Dirs -> BOOLEAN]
      BY Zenon DEF UsersInv, TypeOK
    <3>2. deadline' = deadline
      BY <2>1, <2>2, <3>1
    <3> QED
      BY Zenon, <1>4, <3>2 DEF SDeadlineApply, vars, rawVars
  <2>3. CASE ~RawClosed
    <3>1. deadline' = [d \in Dirs |-> IF d \in D THEN set ELSE deadline[d]]
      BY <2>1, <2>3
    <3>2. setup.kind # "nil"
      BY Zenon, <1>4 DEF SDeadlineApply, UsersInv
    <3>3. ExternalDeadline
      BY Zenon, <1>4, <2>3, <3>1, <3>2 DEF SDeadlineApply, ExternalDeadline
    <3> QED
      BY Zenon, <3>3 DEF Next
  <2> QED
    BY <2>2, <2>3
<1> QED
  BY Zenon, <1>1, <1>2, <1>3, <1>4 DEF SNext, SStep

\* The invariant of the snapshot's users, for every finite set of them.
THEOREM UsersInvariant == SSpec => []UsersInv
<1>1. SInit => UsersInv
  <2> SUFFICES ASSUME SInit PROVE UsersInv
    OBVIOUS
  <2>1. TypeOK
    BY Zenon, InitType DEF SInit
  <2>2. snap \in SnapType /\ spc \in [Users -> UserPcs]
    BY Zenon DEF SInit, SnapType, UserPcs
  <2> QED
    BY Zenon, <2>1, <2>2 DEF SInit, UsersInv
<1>2. UsersInv /\ [SNext]_allVars => UsersInv'
  <2> SUFFICES ASSUME UsersInv, [SNext]_allVars PROVE UsersInv'
    OBVIOUS
  <2>1. setup' = setup /\ TypeOK'
    BY UsersAreOutside, SetupKept, TypeStep DEF UsersInv
  <2>2. CASE UNCHANGED svars
    BY Zenon, <2>1, <2>2 DEF svars, UsersInv
  <2>3. CASE UNCHANGED allVars
    BY <2>2, <2>3 DEF allVars
  <2> QED
    BY <2>1, <2>2, <2>3, UsersStep DEF SNext
<1> QED
  BY <1>1, <1>2, PTL DEF SSpec

\* The wrapper together with the users of its open callback's snapshot behaves as
\* the wrapper alone under an owner who closes the raw connection and sets its
\* deadlines: no Read, Write, Close or deadline call of the snapshot, and none of
\* its panics, breaks a safety property of the wrapper.
THEOREM SnapshotIsHarmless == SSpec => Spec
<1>1. SInit => Init
  BY Zenon DEF SInit
<1>2. UsersInv /\ [SNext]_allVars => [Next]_vars
  BY UsersAreOutside
<1> QED
  BY <1>1, <1>2, UsersInvariant, PTL DEF SSpec, Spec

\* One call at most of the snapshot's methods panics: the closer, with the mutex
\* held, or the last I/O, after which the closer finds nothing in flight.
THEOREM AtMostOnePanics == SSpec => []OnePanicAtMost
<1>1. UsersInv => OnePanicAtMost
  <2> SUFFICES ASSUME UsersInv PROVE Cardinality(panics) <= 1
    BY DEF OnePanicAtMost
  <2>1. CASE panics = {}
    BY <2>1, FS_EmptySet
  <2>2. ASSUME NEW u \in panics PROVE Cardinality(panics) <= 1
    <3>1. panics = {u}
      BY <2>2 DEF UsersInv
    <3>2. Cardinality({u}) = 1
      BY FS_Singleton
    <3> QED
      BY <3>1, <3>2
  <2> QED
    BY <2>1, <2>2
<1> QED
  BY <1>1, UsersInvariant, PTL
=============================================================================
