----------------------------- MODULE ConnProofs -----------------------------
(***************************************************************************)
(* Proofs about Conn, for every finite set of goroutines, every way of     *)
(* calling WrapConn and all bounds.                                        *)
(***************************************************************************)
EXTENDS Conn, FiniteSetTheorems, TLAPS

-----------------------------------------------------------------------------
\* The helpers on the statistics keep their type.
LEMMA RecordIOType ==
  ASSUME NEW s \in StatsType, NEW d \in Dirs, NEW n \in Nat, NEW e \in IOErrs, now \in Nat
  PROVE  RecordIO(s, d, n, e) \in StatsType
<1> DEFINE ok == e = "nil" /\ n > 0
           first == [s.FirstAt EXCEPT ![d] = IF ok /\ @ = 0 THEN now ELSE @]
           last == [s.LastAt EXCEPT ![d] = IF ok THEN now ELSE @]
           bytes == [s.Bytes EXCEPT ![d] = @ + n]
           errs == [s.Err EXCEPT ![d] = IF e = "neterr" THEN e ELSE @]
<1>1. /\ first \in [Dirs -> Nat] /\ last \in [Dirs -> Nat]
      /\ bytes \in [Dirs -> Nat] /\ errs \in [Dirs -> IOErrs]
  BY DEF StatsType
<1>2. RecordIO(s, d, n, e) =
        [s EXCEPT !.FirstAt = first, !.LastAt = last, !.Bytes = bytes, !.Err = errs]
  BY DEF RecordIO
<1> HIDE DEF first, last, bytes, errs
<1> QED
  BY <1>1, <1>2, ZenonT(30) DEF StatsType

\* A report appended to the reports leaves a sequence of reports.
LEMMA AppendType ==
  ASSUME NEW S, NEW s \in Seq(S), NEW x \in S
  PROVE  Append(s, x) \in Seq(S)
OBVIOUS

\* applyTCPInfoLocked leaves well-typed statistics.
LEMMA ApplyTCPInfoType ==
  ASSUME NEW s \in StatsType, NEW state, NEW i \in Nat, NEW e \in InfoErrs
  PROVE  ApplyTCPInfo(s, state, i, e) \in StatsType
BY Zenon DEF ApplyTCPInfo, StatsType, NoInfo

\* collectTCPInfo returns a sample (or none) and one of its errors.
LEMMA CollectType ==
  ASSUME now \in Nat, NEW r \in CollectTCPInfo
  PROVE  r.info \in Nat /\ r.err \in InfoErrs
BY DEF CollectTCPInfo, NoInfo, InfoErrs

\* The initial locals of Close have their type.
LEMMA NoCloseType == NoClose \in CloseType
BY DEF NoClose, NoSnapshot, NoStats, NoInfo, CloseType, SnapshotType, StatsType,
       CloseErrs, InfoErrs, IOErrs

\* The values a goroutine's program counter takes.
Pcs == {"idle", "deadline"} \cup IOPcs \cup CloserPcs \cup WaiterPcs

\* The two outcomes of the drain loop.
LEMMA DrainType ==
  ASSUME TypeOK, NEW p \in Procs, DrainOrSnapshot(p)
  PROVE  stats' \in StatsType /\ cl' \in [Procs -> CloseType] /\ pc' \in [Procs -> Pcs]
<1> DEFINE s == ApplyTCPInfo(stats, "Closed", cl[p].info, cl[p].infoErr)
<1>1. cl[p] \in CloseType /\ cl[p].info \in Nat /\ cl[p].infoErr \in InfoErrs
  BY DEF TypeOK, CloseType
<1>2. s \in StatsType
  BY <1>1, ApplyTCPInfoType DEF TypeOK
<1>3. SnapshotOf(s) \in SnapshotType
  BY <1>2 DEF SnapshotOf, SnapshotType, TypeOK
<1>4. [cl EXCEPT ![p].snap = SnapshotOf(s)] \in [Procs -> CloseType]
  BY <1>1, <1>3, ZenonT(30) DEF TypeOK, CloseType
<1>5. pc' \in [Procs -> Pcs]
  BY ZenonT(30) DEF DrainOrSnapshot, Goto, TypeOK, Pcs, CloserPcs, SnapPcs
<1> QED
  BY Zenon, <1>2, <1>4, <1>5 DEF DrainOrSnapshot, TypeOK

\* Type correctness of one step, action by action.
LEMMA TypeStep == TypeOK /\ [Next]_vars => TypeOK'
<1> SUFFICES ASSUME TypeOK, [Next]_vars PROVE TypeOK'
  OBVIOUS
<1> USE DEF wrapVars, lifeVars, statVars, procVars, rawVars, Goto, Call
<1>1. CASE WrapConn
  <2>1. PICK r \in CollectTCPInfo :
          /\ stats' = ApplyTCPInfo(stats, "Opened", r.info, r.err)
          /\ phase' \in {"opencallback", "shared"}
          /\ reports' \in {reports, Append(reports, [state |-> "Opened", snap |-> SnapshotOf(stats')])}
    BY <1>1 DEF WrapConn
  <2>2. stats' \in StatsType
    BY <2>1, CollectType, ApplyTCPInfoType DEF TypeOK
  <2>3. SnapshotOf(stats') \in SnapshotType
    BY <2>2 DEF SnapshotOf, SnapshotType, TypeOK
  <2>4. [state |-> "Opened", snap |-> SnapshotOf(stats')] \in ReportType
    BY <2>3 DEF ReportType
  <2>5. reports' \in Seq(ReportType)
    <3>1. reports \in Seq(ReportType)
      BY DEF TypeOK
    <3>2. Append(reports, [state |-> "Opened", snap |-> SnapshotOf(stats')]) \in Seq(ReportType)
      BY <2>4, <3>1, AppendType
    <3> QED
      BY <2>1, <3>1, <3>2
  <2> QED
    BY <1>1, <2>1, <2>2, <2>5 DEF WrapConn, TypeOK
<1>2. CASE OpenCallbackReturn
  BY <1>2 DEF OpenCallbackReturn, TypeOK
<1>3. ASSUME NEW p \in Procs, NEW d \in Dirs, BeginIO(p, d) PROVE TypeOK'
  BY <1>3, SMTT(30) DEF BeginIO, NoIO, TypeOK, IOPcs, IOErrs
<1>4. ASSUME NEW p \in Procs, IOReturn(p) PROVE TypeOK'
  BY <1>4, BoundsAssumption DEF IOReturn, TypeOK, IOPcs
<1>5. ASSUME NEW p \in Procs, Account(p) PROVE TypeOK'
  <2>1. stats' \in StatsType
    BY <1>5, RecordIOType DEF Account, TypeOK
  <2> QED
    BY <1>5, <2>1 DEF Account, TypeOK, IOPcs
<1>6. ASSUME NEW p \in Procs, FinishIO(p) PROVE TypeOK'
  BY <1>6 DEF FinishIO, NoIO, TypeOK, CloserPcs, Dirs, IOErrs
<1>7. ASSUME NEW p \in Procs, CloseBegin(p) PROVE TypeOK'
  BY Zenon, <1>7 DEF CloseBegin, StatsType, TypeOK, CloserPcs
<1>8. ASSUME NEW p \in Procs, CloseJoin(p) PROVE TypeOK'
  BY <1>8 DEF CloseJoin, TypeOK, WaiterPcs
<1>9. ASSUME NEW p \in Procs, CloseNoConn(p) PROVE TypeOK'
  BY <1>9 DEF CloseNoConn, TypeOK, CloseErrs
<1>10. ASSUME NEW p \in Procs, CloseAwait(p) PROVE TypeOK'
  BY <1>10 DEF CloseAwait, TypeOK, WaiterPcs
<1>11. ASSUME NEW p \in Procs, CloseReread(p) PROVE TypeOK'
  BY <1>11 DEF CloseReread, TypeOK
<1>12. ASSUME NEW p \in Procs, CloseCollect(p) PROVE TypeOK'
  <2>1. PICK r \in CollectTCPInfo : cl' = [cl EXCEPT ![p].info = r.info, ![p].infoErr = r.err]
    BY <1>12, ZenonT(30) DEF CloseCollect
  <2>2. cl' \in [Procs -> CloseType]
    BY <2>1, CollectType, ZenonT(30) DEF TypeOK, CloseType
  <2> QED
    BY <1>12, <2>2, SMTT(20) DEF CloseCollect, TypeOK, CloserPcs
<1>13. ASSUME NEW p \in Procs, CloseRaw(p) PROVE TypeOK'
  <2>1. PICK e \in CloseErrs : cl' = [cl EXCEPT ![p].err = e]
    BY <1>13, ZenonT(30) DEF CloseRaw, CloseErrs
  <2>2. cl' \in [Procs -> CloseType]
    BY <2>1, ZenonT(30) DEF TypeOK, CloseType
  <2> QED
    BY <1>13, <2>2, SMTT(30) DEF CloseRaw, TypeOK, CloserPcs
<1>14. ASSUME NEW p \in Procs, CloseDetach(p) PROVE TypeOK'
  <2>1. closeErr' \in CloseErrs
    BY <1>14 DEF CloseDetach, TypeOK, CloseType
  <2> QED
    BY Zenon, <1>14, <2>1, DrainType DEF CloseDetach, TypeOK, Pcs
<1>15. ASSUME NEW p \in Procs, CloseWake(p) PROVE TypeOK'
  BY <1>15, DrainType DEF CloseWake, TypeOK, Pcs
<1>16. ASSUME NEW p \in Procs, CloseReport(p) PROVE TypeOK'
  <2>1. [state |-> "Closed", snap |-> cl[p].snap] \in ReportType
    BY DEF TypeOK, CloseType, ReportType
  <2>2. reports' \in Seq(ReportType)
    <3>1. reports \in Seq(ReportType)
      BY DEF TypeOK
    <3>2. Append(reports, [state |-> "Closed", snap |-> cl[p].snap]) \in Seq(ReportType)
      BY <2>1, <3>1, AppendType
    <3> QED
      BY <1>16, <3>1, <3>2, SMTT(20) DEF CloseReport
  <2>3. pc' \in [Procs -> Pcs]
    BY Zenon, <1>16 DEF CloseReport, TypeOK, Pcs, CloserPcs, SnapPcs
  <2> QED
    BY Zenon, <1>16, <2>2, <2>3 DEF CloseReport, TypeOK, Pcs
<1>17. ASSUME NEW p \in Procs, CallbackReturn(p) PROVE TypeOK'
  BY <1>17 DEF CallbackReturn, TypeOK, CloserPcs, SnapPcs
<1>18. ASSUME NEW p \in Procs, CloseSignal(p) PROVE TypeOK'
  <2>1. cl[p].err \in CloseErrs
    BY DEF TypeOK, CloseType
  <2> QED
    BY <1>18, <2>1, NoCloseType DEF CloseSignal, TypeOK
<1>19. ASSUME NEW p \in Procs, NEW k \in 0 .. MaxReconnects, SetReconnects(p, k) PROVE TypeOK'
  BY <1>19, BoundsAssumption DEF SetReconnects, TypeOK
<1>20. ASSUME NEW p \in Procs, DeadlineBegin(p) PROVE TypeOK'
  BY <1>20 DEF DeadlineBegin, TypeOK
<1>21. ASSUME NEW p \in Procs, DeadlineApply(p) PROVE TypeOK'
  <2>1. deadline' \in [Dirs -> BOOLEAN]
    BY <1>21 DEF DeadlineApply, TypeOK
  <2> QED
    BY <1>21, <2>1 DEF DeadlineApply, TypeOK
<1>22. CASE ExternalClose
  BY <1>22 DEF ExternalClose, TypeOK
<1>23. CASE Tick
  BY <1>23, BoundsAssumption DEF Tick, TypeOK
<1>24. CASE UNCHANGED vars
  BY <1>24 DEF vars, TypeOK
<1>25. CASE ExternalDeadline
  BY <1>25 DEF ExternalDeadline, TypeOK
<1> QED
  BY <1>1, <1>2, <1>3, <1>4, <1>5, <1>6, <1>7, <1>8, <1>9, <1>10, <1>11, <1>12, <1>13,
     <1>14, <1>15, <1>16, <1>17, <1>18, <1>19, <1>20, <1>21, <1>22, <1>23, <1>24, <1>25
  DEF Next, Step

\* A wrapper fresh from WrapConn is well typed.
LEMMA InitType == ASSUME Init PROVE TypeOK
<1>1. stats \in StatsType
  BY BoundsAssumption, SMTT(30) DEF Init, NoStats, NoInfo, StatsType, InfoErrs, IOErrs
<1>2. cl \in [Procs -> CloseType]
  BY NoCloseType DEF Init
<1>3. io \in [Procs -> [dir : Dirs, n : Nat, err : IOErrs]]
  BY DEF Init, NoIO, Dirs, IOErrs
<1>4. reports \in Seq(ReportType)
  BY DEF Init
<1>5. conn \in BOOLEAN
  BY DEF Init
<1>6. now \in Nat
  BY BoundsAssumption DEF Init
<1> QED
  BY Zenon, <1>1, <1>2, <1>3, <1>4, <1>5, <1>6 DEF Init, TypeOK, CloseErrs

\* The wrapper's fields, the goroutines' locals and the raw connection always
\* hold values of their types, whatever the goroutines do.
THEOREM TypeCorrect == Spec => []TypeOK
<1>1. Init => TypeOK
  BY InitType
<1> QED
  BY <1>1, TypeStep, PTL DEF Spec

-----------------------------------------------------------------------------
\* One closer, in step with closeStarted and the done channel.
LEMMA ControlStep ==
  ASSUME TypeOK, PhaseInv, CloserInv, [Next]_vars
  PROVE  PhaseInv' /\ CloserInv'
<1>a. pc \in [Procs -> Pcs]
  BY SMTT(30) DEF TypeOK, Pcs
<1> USE <1>a
<1> USE DEF wrapVars, lifeVars, statVars, procVars, rawVars, Goto, Call,
            PhaseInv, CloserInv, IOPcs, SnapPcs, CloserPcs, WaiterPcs
<1>1. CASE WrapConn
  BY Zenon, <1>1 DEF WrapConn
<1>2. CASE OpenCallbackReturn
  BY <1>2 DEF OpenCallbackReturn
<1>3. ASSUME NEW p \in Procs, NEW d \in Dirs, BeginIO(p, d) PROVE PhaseInv' /\ CloserInv'
  BY <1>3 DEF BeginIO
<1>4. ASSUME NEW p \in Procs, IOReturn(p) PROVE PhaseInv' /\ CloserInv'
  BY Zenon, <1>4 DEF IOReturn
<1>5. ASSUME NEW p \in Procs, Account(p) PROVE PhaseInv' /\ CloserInv'
  BY <1>5 DEF Account
<1>6. ASSUME NEW p \in Procs, FinishIO(p) PROVE PhaseInv' /\ CloserInv'
  BY <1>6 DEF FinishIO
<1>7. ASSUME NEW p \in Procs, CloseBegin(p) PROVE PhaseInv' /\ CloserInv'
  BY <1>7 DEF CloseBegin
<1>8. ASSUME NEW p \in Procs, CloseJoin(p) PROVE PhaseInv' /\ CloserInv'
  BY <1>8 DEF CloseJoin
<1>9. ASSUME NEW p \in Procs, CloseNoConn(p) PROVE PhaseInv' /\ CloserInv'
  BY <1>9 DEF CloseNoConn
<1>10. ASSUME NEW p \in Procs, CloseAwait(p) PROVE PhaseInv' /\ CloserInv'
  BY <1>10 DEF CloseAwait
<1>11. ASSUME NEW p \in Procs, CloseReread(p) PROVE PhaseInv' /\ CloserInv'
  BY <1>11 DEF CloseReread
<1>12. ASSUME NEW p \in Procs, CloseCollect(p) PROVE PhaseInv' /\ CloserInv'
  BY <1>12 DEF CloseCollect
<1>13. ASSUME NEW p \in Procs, CloseRaw(p) PROVE PhaseInv' /\ CloserInv'
  BY <1>13 DEF CloseRaw
<1>14. ASSUME NEW p \in Procs, CloseDetach(p) PROVE PhaseInv' /\ CloserInv'
  BY <1>14 DEF CloseDetach, DrainOrSnapshot
<1>15. ASSUME NEW p \in Procs, CloseWake(p) PROVE PhaseInv' /\ CloserInv'
  BY <1>15 DEF CloseWake, DrainOrSnapshot
<1>16. ASSUME NEW p \in Procs, CloseReport(p) PROVE PhaseInv' /\ CloserInv'
  BY <1>16 DEF CloseReport
<1>17. ASSUME NEW p \in Procs, CallbackReturn(p) PROVE PhaseInv' /\ CloserInv'
  BY <1>17 DEF CallbackReturn
<1>18. ASSUME NEW p \in Procs, CloseSignal(p) PROVE PhaseInv' /\ CloserInv'
  BY <1>18 DEF CloseSignal
<1>19. ASSUME NEW p \in Procs, NEW k \in 0 .. MaxReconnects, SetReconnects(p, k) PROVE PhaseInv' /\ CloserInv'
  BY <1>19 DEF SetReconnects
<1>20. ASSUME NEW p \in Procs, DeadlineBegin(p) PROVE PhaseInv' /\ CloserInv'
  BY <1>20 DEF DeadlineBegin
<1>21. ASSUME NEW p \in Procs, DeadlineApply(p) PROVE PhaseInv' /\ CloserInv'
  BY <1>21 DEF DeadlineApply
<1>22. CASE ExternalClose
  BY <1>22 DEF ExternalClose
<1>23. CASE Tick
  BY <1>23 DEF Tick
<1>24. CASE UNCHANGED vars
  BY <1>24 DEF vars
<1>25. CASE ExternalDeadline
  BY <1>25 DEF ExternalDeadline
<1> QED
  BY ZenonT(30), <1>1, <1>2, <1>3, <1>4, <1>5, <1>6, <1>7, <1>8, <1>9, <1>10, <1>11, <1>12, <1>13,
     <1>14, <1>15, <1>16, <1>17, <1>18, <1>19, <1>20, <1>21, <1>22, <1>23, <1>24, <1>25
  DEF Next, Step

\* The drain loop sends the closer to its wait, or to its report with the
\* statistics of the moment; nobody's result of the raw Close changes.
LEMMA DrainControl ==
  ASSUME TypeOK, NEW p \in Procs, DrainOrSnapshot(p)
  PROVE  /\ \A q \in Procs : cl'[q].err = cl[q].err
         /\ \/ inFlight > 0 /\ pc' = [pc EXCEPT ![p] = "waiting"] /\ stats' = stats
            \/ inFlight = 0 /\ pc' = [pc EXCEPT ![p] = "report"] /\ cl'[p].snap.stats = stats'
<1> DEFINE snap == SnapshotOf(ApplyTCPInfo(stats, "Closed", cl[p].info, cl[p].infoErr))
<1>1. cl' = cl \/ cl' = [cl EXCEPT ![p].snap = snap]
  BY DEF DrainOrSnapshot
<1>2. \A q \in Procs : cl[q] \in CloseType
  BY DEF TypeOK
<1>3. snap.stats = ApplyTCPInfo(stats, "Closed", cl[p].info, cl[p].infoErr)
  BY DEF SnapshotOf
<1> HIDE DEF snap
<1>4. \A q \in Procs : cl'[q].err = cl[q].err
  <2>1. ASSUME cl' = [cl EXCEPT ![p].snap = snap], NEW q \in Procs PROVE cl'[q].err = cl[q].err
    <3>1. CASE q = p
      BY <1>2, <2>1, <3>1 DEF TypeOK, CloseType
    <3>2. CASE q # p
      BY <2>1, <3>2 DEF TypeOK
    <3> QED
      BY <3>1, <3>2
  <2> QED
    BY <1>1, <2>1
<1>5. cl' = [cl EXCEPT ![p].snap = snap] => cl'[p].snap = snap
  BY <1>2 DEF TypeOK, CloseType
<1>6. CASE inFlight > 0
  BY <1>4, <1>6 DEF DrainOrSnapshot, Goto
<1>7. CASE ~(inFlight > 0)
  <2>1. stats' = ApplyTCPInfo(stats, "Closed", cl[p].info, cl[p].infoErr) /\ cl' = [cl EXCEPT ![p].snap = snap]
    BY <1>7 DEF DrainOrSnapshot, snap
  <2> QED
    BY <1>3, <1>4, <1>5, <1>7, <2>1 DEF DrainOrSnapshot, Goto, TypeOK
<1> QED
  BY <1>6, <1>7

\* w.Conn, closeErr and the raw Close calls follow the closer.
LEMMA RawStep ==
  ASSUME TypeOK, PhaseInv, CloserInv, RawInv, [Next]_vars
  PROVE  RawInv'
<1>a. pc \in [Procs -> Pcs] /\ cl \in [Procs -> CloseType]
  BY SMTT(30) DEF TypeOK, Pcs
<1> USE <1>a
<1> USE DEF wrapVars, lifeVars, statVars, procVars, rawVars, Goto, Call,
            PhaseInv, CloserInv, RawInv, CloseType, IOPcs, SnapPcs, CloserPcs, WaiterPcs, DetachedPcs
<1>1. CASE WrapConn
  BY Zenon, <1>1 DEF WrapConn
<1>2. CASE OpenCallbackReturn
  BY Zenon, <1>2 DEF OpenCallbackReturn
<1>3. ASSUME NEW p \in Procs, NEW d \in Dirs, BeginIO(p, d) PROVE RawInv'
  BY <1>3 DEF BeginIO
<1>4. ASSUME NEW p \in Procs, IOReturn(p) PROVE RawInv'
  BY Zenon, <1>4 DEF IOReturn
<1>5. ASSUME NEW p \in Procs, Account(p) PROVE RawInv'
  BY Zenon, <1>5 DEF Account
<1>6. ASSUME NEW p \in Procs, FinishIO(p) PROVE RawInv'
  BY Zenon, <1>6 DEF FinishIO
<1>7. ASSUME NEW p \in Procs, CloseBegin(p) PROVE RawInv'
  BY <1>7 DEF CloseBegin
<1>8. ASSUME NEW p \in Procs, CloseJoin(p) PROVE RawInv'
  BY Zenon, <1>8 DEF CloseJoin
<1>9. ASSUME NEW p \in Procs, CloseNoConn(p) PROVE RawInv'
  BY Zenon, <1>9 DEF CloseNoConn
<1>10. ASSUME NEW p \in Procs, CloseAwait(p) PROVE RawInv'
  BY <1>10 DEF CloseAwait
<1>11. ASSUME NEW p \in Procs, CloseReread(p) PROVE RawInv'
  BY Zenon, <1>11 DEF CloseReread
<1>12. ASSUME NEW p \in Procs, CloseCollect(p) PROVE RawInv'
  BY <1>12 DEF CloseCollect
<1>13. ASSUME NEW p \in Procs, CloseRaw(p) PROVE RawInv'
  BY <1>13 DEF CloseRaw
<1>14. ASSUME NEW p \in Procs, CloseDetach(p) PROVE RawInv'
  <2>1. /\ \A q \in Procs : cl'[q].err = cl[q].err
        /\ \E l \in {"waiting", "report"} : pc' = [pc EXCEPT ![p] = l]
    BY Zenon, <1>14, DrainControl DEF CloseDetach
  <2> QED
    BY Zenon, <1>14, <2>1 DEF CloseDetach
<1>15. ASSUME NEW p \in Procs, CloseWake(p) PROVE RawInv'
  <2>1. /\ \A q \in Procs : cl'[q].err = cl[q].err
        /\ \E l \in {"waiting", "report"} : pc' = [pc EXCEPT ![p] = l]
    BY Zenon, <1>15, DrainControl DEF CloseWake
  <2> QED
    BY Zenon, <1>15, <2>1 DEF CloseWake
<1>16. ASSUME NEW p \in Procs, CloseReport(p) PROVE RawInv'
  BY Zenon, <1>16 DEF CloseReport
<1>17. ASSUME NEW p \in Procs, CallbackReturn(p) PROVE RawInv'
  BY Zenon, <1>17 DEF CallbackReturn
<1>18. ASSUME NEW p \in Procs, CloseSignal(p) PROVE RawInv'
  BY Zenon, <1>18 DEF CloseSignal
<1>19. ASSUME NEW p \in Procs, NEW k \in 0 .. MaxReconnects, SetReconnects(p, k) PROVE RawInv'
  BY Zenon, <1>19 DEF SetReconnects
<1>20. ASSUME NEW p \in Procs, DeadlineBegin(p) PROVE RawInv'
  BY Zenon, <1>20 DEF DeadlineBegin
<1>21. ASSUME NEW p \in Procs, DeadlineApply(p) PROVE RawInv'
  BY Zenon, <1>21 DEF DeadlineApply
<1>22. CASE ExternalClose
  BY Zenon, <1>22 DEF ExternalClose
<1>23. CASE Tick
  BY Zenon, <1>23 DEF Tick
<1>24. CASE UNCHANGED vars
  BY Zenon, <1>24 DEF vars
<1>25. CASE ExternalDeadline
  BY Zenon, <1>25 DEF ExternalDeadline
<1> QED
  BY ZenonT(30), <1>1, <1>2, <1>3, <1>4, <1>5, <1>6, <1>7, <1>8, <1>9, <1>10, <1>11, <1>12, <1>13,
     <1>14, <1>15, <1>16, <1>17, <1>18, <1>19, <1>20, <1>21, <1>22, <1>23, <1>24, <1>25
  DEF Next, Step

-----------------------------------------------------------------------------
\* Finitely many goroutines are inside Read or Write.
LEMMA InIOFinite == IsFiniteSet(InIO)
BY ProcsAssumption, FS_Subset DEF InIO

\* A goroutine in Read or Write is counted, so the snapshot is not taken yet.
LEMMA InIOCounted ==
  ASSUME CountInv, NEW p \in Procs, pc[p] \in IOPcs
  PROVE  inFlight \in Nat \ {0} /\ ~SnapshotTaken
<1>1. InIO # {}
  BY DEF InIO
<1>2. Cardinality(InIO) \in Nat /\ Cardinality(InIO) # 0
  BY <1>1, InIOFinite, FS_EmptySet, FS_CardinalityType
<1> QED
  BY <1>2 DEF CountInv, InFlightExact

\* The count stays exact, the wait guarded, the snapshot after the drain.
LEMMA CountStep ==
  ASSUME TypeOK, PhaseInv, CloserInv, CountInv, [Next]_vars
  PROVE  CountInv'
<1> DEFINE Kept == InIO' = InIO /\ inFlight' = inFlight /\ NoLostWakeup'
                   /\ (SnapshotTaken' => inFlight' = 0)
<1>a. pc \in [Procs -> Pcs] /\ inFlight \in Nat
  BY SMTT(30) DEF TypeOK, Pcs
<1> USE <1>a
<1> USE DEF wrapVars, lifeVars, statVars, procVars, rawVars, Goto, Call,
            PhaseInv, CloserInv, NoLostWakeup, SnapshotTaken, InIO,
            IOPcs, SnapPcs, CloserPcs, WaiterPcs
<1>0. Kept => CountInv'
  BY DEF CountInv, InFlightExact
<1>1. CASE WrapConn
  BY Zenon, <1>1, <1>0 DEF CountInv, WrapConn
<1>2. CASE OpenCallbackReturn
  BY Zenon, <1>2, <1>0 DEF CountInv, OpenCallbackReturn
<1>3. ASSUME NEW p \in Procs, NEW d \in Dirs, BeginIO(p, d) PROVE CountInv'
  <2>1. InIO' = InIO \cup {p} /\ p \notin InIO
    BY <1>3 DEF BeginIO
  <2>2. Cardinality(InIO \cup {p}) = Cardinality(InIO) + 1
    BY <2>1, InIOFinite, FS_AddElement, ZenonT(30)
  <2>3. InFlightExact'
    BY <1>3, <2>1, <2>2 DEF BeginIO, CountInv, InFlightExact
  <2>4. NoLostWakeup'
    BY <1>3 DEF BeginIO
  <2>5. ~SnapshotTaken'
    BY <1>3 DEF BeginIO
  <2> QED
    BY <2>3, <2>4, <2>5 DEF CountInv
<1>4. ASSUME NEW p \in Procs, IOReturn(p) PROVE CountInv'
  BY Zenon, <1>4, <1>0 DEF CountInv, IOReturn
<1>5. ASSUME NEW p \in Procs, Account(p) PROVE CountInv'
  BY Zenon, <1>5, <1>0 DEF CountInv, Account
<1>6. ASSUME NEW p \in Procs, FinishIO(p) PROVE CountInv'
  <2>1. InIO' = InIO \ {p} /\ p \in InIO
    BY Zenon, <1>6 DEF FinishIO
  <2>2. Cardinality(InIO \ {p}) = Cardinality(InIO) - 1
    BY <2>1, InIOFinite, FS_RemoveElement, ZenonT(30)
  <2>3. inFlight \in Nat \ {0} /\ ~SnapshotTaken
    BY Zenon, <1>6, InIOCounted DEF FinishIO
  <2>4. inFlight' = inFlight - 1
    BY <1>6, <2>3 DEF FinishIO
  <2>5. InFlightExact'
    BY Zenon, <2>1, <2>2, <2>4 DEF CountInv, InFlightExact
  <2>6. NoLostWakeup'
    BY <1>6, <2>3, <2>4 DEF FinishIO
  <2>7. ~SnapshotTaken'
    BY Zenon, <1>6, <2>3 DEF FinishIO
  <2> QED
    BY <2>5, <2>6, <2>7 DEF CountInv
<1>7. ASSUME NEW p \in Procs, CloseBegin(p) PROVE CountInv'
  BY <1>7, <1>0 DEF CountInv, CloseBegin
<1>8. ASSUME NEW p \in Procs, CloseJoin(p) PROVE CountInv'
  BY Zenon, <1>8, <1>0 DEF CountInv, CloseJoin
<1>9. ASSUME NEW p \in Procs, CloseNoConn(p) PROVE CountInv'
  BY Zenon, <1>9, <1>0 DEF CountInv, CloseNoConn
<1>10. ASSUME NEW p \in Procs, CloseAwait(p) PROVE CountInv'
  BY Zenon, <1>10, <1>0 DEF CountInv, CloseAwait
<1>11. ASSUME NEW p \in Procs, CloseReread(p) PROVE CountInv'
  BY Zenon, <1>11, <1>0 DEF CountInv, CloseReread
<1>12. ASSUME NEW p \in Procs, CloseCollect(p) PROVE CountInv'
  BY <1>12, <1>0 DEF CountInv, CloseCollect
<1>13. ASSUME NEW p \in Procs, CloseRaw(p) PROVE CountInv'
  BY <1>13, <1>0 DEF CountInv, CloseRaw
<1>14. ASSUME NEW p \in Procs, CloseDetach(p) PROVE CountInv'
  BY <1>14, <1>0 DEF CountInv, CloseDetach, DrainOrSnapshot
<1>15. ASSUME NEW p \in Procs, CloseWake(p) PROVE CountInv'
  BY <1>15, <1>0 DEF CountInv, CloseWake, DrainOrSnapshot
<1>16. ASSUME NEW p \in Procs, CloseReport(p) PROVE CountInv'
  BY Zenon, <1>16, <1>0 DEF CountInv, CloseReport
<1>17. ASSUME NEW p \in Procs, CallbackReturn(p) PROVE CountInv'
  BY Zenon, <1>17, <1>0 DEF CountInv, CallbackReturn
<1>18. ASSUME NEW p \in Procs, CloseSignal(p) PROVE CountInv'
  BY Zenon, <1>18, <1>0 DEF CountInv, CloseSignal
<1>19. ASSUME NEW p \in Procs, NEW k \in 0 .. MaxReconnects, SetReconnects(p, k) PROVE CountInv'
  BY Zenon, <1>19, <1>0 DEF CountInv, SetReconnects
<1>20. ASSUME NEW p \in Procs, DeadlineBegin(p) PROVE CountInv'
  BY Zenon, <1>20, <1>0 DEF CountInv, DeadlineBegin
<1>21. ASSUME NEW p \in Procs, DeadlineApply(p) PROVE CountInv'
  BY Zenon, <1>21, <1>0 DEF CountInv, DeadlineApply
<1>22. CASE ExternalClose
  BY Zenon, <1>22, <1>0 DEF CountInv, ExternalClose
<1>23. CASE Tick
  BY Zenon, <1>23, <1>0 DEF CountInv, Tick
<1>24. CASE UNCHANGED vars
  BY Zenon, <1>24, <1>0 DEF CountInv, vars
<1>25. CASE ExternalDeadline
  BY Zenon, <1>25, <1>0 DEF CountInv, ExternalDeadline
<1> QED
  BY Zenon, <1>1, <1>2, <1>3, <1>4, <1>5, <1>6, <1>7, <1>8, <1>9, <1>10, <1>11, <1>12, <1>13,
     <1>14, <1>15, <1>16, <1>17, <1>18, <1>19, <1>20, <1>21, <1>22, <1>23, <1>24, <1>25
  DEF Next, Step

-----------------------------------------------------------------------------
\* A report added at the end is the only change to the closed reports.
LEMMA AppendReport ==
  ASSUME TypeOK, NEW r \in ReportType, reports' = Append(reports, r)
  PROVE  /\ Len(reports') = Len(reports) + 1
         /\ reports'[Len(reports')] = r
         /\ ClosedReports' = IF r.state = "Closed" THEN ClosedReports \cup {Len(reports')}
                             ELSE ClosedReports
<1>1. reports \in Seq(ReportType)
  BY Zenon DEF TypeOK
<1> QED
  BY <1>1 DEF ClosedReports

\* A closed report is added to the closed ones, which stay as they were.
LEMMA AppendClosed ==
  ASSUME TypeOK, NEW s, [state |-> "Closed", snap |-> s] \in ReportType,
         reports' = Append(reports, [state |-> "Closed", snap |-> s])
  PROVE  /\ ClosedReports' = ClosedReports \cup {Len(reports')}
         /\ reports'[Len(reports')].snap = s
         /\ \A i \in ClosedReports : reports'[i] = reports[i]
<1> DEFINE r == [state |-> "Closed", snap |-> s]
<1>1. r.state = "Closed" /\ r.snap = s
  BY Zenon
<1>2. reports \in Seq(ReportType)
  BY Zenon DEF TypeOK
<1>3. r \in ReportType /\ reports' = Append(reports, r)
  BY Zenon
<1> HIDE DEF r
<1>4. \A i \in ClosedReports : reports'[i] = reports[i]
  BY <1>2, <1>3 DEF ClosedReports
<1> QED
  BY Zenon, <1>1, <1>3, <1>4, AppendReport

\* No closed report exists before its snapshot.
LEMMA NoReportYet ==
  ASSUME ReportInv, ~SnapshotTaken
  PROVE  ClosedReports = {}
BY DEF ReportInv, SnapshotTaken, ReportedPcs

\* A step that makes no report, keeps the statistics and moves no goroutine into
\* or out of the places the report depends on.
LEMMA ReportFrame ==
  ASSUME ReportInv, reports' = reports, stats' = stats, setup' = setup,
         closeDone' = "closed" <=> closeDone = "closed",
         \A q \in Procs : pc'[q] \in ReportedPcs <=> pc[q] \in ReportedPcs,
         \A q \in Procs : pc'[q] = "report" => pc[q] = "report" /\ cl'[q] = cl[q]
  PROVE  ReportInv'
<1>1. ClosedReports' = ClosedReports
  BY DEF ClosedReports
<1> QED
  BY Zenon, <1>1 DEF ReportInv

\* The closed report is last, made once, and never goes stale.
LEMMA ReportStep ==
  ASSUME TypeOK, PhaseInv, CloserInv, CountInv, ReportInv, TypeOK', [Next]_vars
  PROVE  ReportInv'
<1>a. pc \in [Procs -> Pcs] /\ cl \in [Procs -> CloseType]
  BY Zenon DEF TypeOK, Pcs
<1> USE <1>a
<1> USE DEF wrapVars, lifeVars, statVars, procVars, rawVars, Goto, Call,
            PhaseInv, CloserInv, IOPcs, SnapPcs, CloserPcs, WaiterPcs, ReportedPcs
<1>1. CASE WrapConn
  <2>1. ClosedReports = {}
    BY Zenon, <1>1, NoReportYet DEF WrapConn, SnapshotTaken
  <2>2. ClosedReports' = {}
    <3>1. CASE reports' = reports
      BY Zenon, <2>1, <3>1 DEF ClosedReports
    <3>2. CASE reports' # reports
      <4>1. reports' = Append(reports, [state |-> "Opened", snap |-> SnapshotOf(stats')])
        BY Zenon, <1>1, <3>2 DEF WrapConn
      <4>2. [state |-> "Opened", snap |-> SnapshotOf(stats')] \in ReportType
        BY Zenon DEF SnapshotOf, SnapshotType, ReportType, TypeOK
      <4> QED
        BY Zenon, <2>1, <4>1, <4>2, AppendReport
    <3> QED
      BY <3>1, <3>2
  <2> QED
    BY Zenon, <1>1, <2>2 DEF WrapConn, ReportInv
<1>2. CASE OpenCallbackReturn
  BY Zenon, <1>2, ReportFrame DEF OpenCallbackReturn
<1>3. ASSUME NEW p \in Procs, NEW d \in Dirs, BeginIO(p, d) PROVE ReportInv'
  BY <1>3, ReportFrame DEF BeginIO
<1>4. ASSUME NEW p \in Procs, IOReturn(p) PROVE ReportInv'
  BY Zenon, <1>4, ReportFrame DEF IOReturn
<1>5. ASSUME NEW p \in Procs, Account(p) PROVE ReportInv'
  <2>1. ~SnapshotTaken
    BY Zenon, <1>5, InIOCounted DEF Account
  <2>2. ClosedReports = {} /\ \A q \in Procs : pc[q] \notin SnapPcs
    BY Zenon, <2>1, NoReportYet DEF SnapshotTaken
  <2>3. ClosedReports' = {} /\ \A q \in Procs : pc'[q] \notin SnapPcs
    BY Zenon, <1>5, <2>2 DEF Account, ClosedReports
  <2>4. closeDone' # "closed"
    BY Zenon, <1>5, <2>1 DEF Account, SnapshotTaken
  <2> QED
    BY Zenon, <2>3, <2>4 DEF ReportInv
<1>6. ASSUME NEW p \in Procs, FinishIO(p) PROVE ReportInv'
  BY Zenon, <1>6, ReportFrame DEF FinishIO
<1>7. ASSUME NEW p \in Procs, CloseBegin(p) PROVE ReportInv'
  <2>1. ClosedReports = {}
    BY <1>7, NoReportYet DEF CloseBegin, SnapshotTaken
  <2>2. ClosedReports' = {} /\ \A q \in Procs : pc'[q] \notin SnapPcs
    BY <1>7, <2>1 DEF CloseBegin, ClosedReports
  <2> QED
    BY <1>7, <2>2 DEF CloseBegin, ReportInv
<1>8. ASSUME NEW p \in Procs, CloseJoin(p) PROVE ReportInv'
  BY Zenon, <1>8, ReportFrame DEF CloseJoin
<1>9. ASSUME NEW p \in Procs, CloseNoConn(p) PROVE ReportInv'
  BY Zenon, <1>9, ReportFrame DEF CloseNoConn
<1>10. ASSUME NEW p \in Procs, CloseAwait(p) PROVE ReportInv'
  BY Zenon, <1>10, ReportFrame DEF CloseAwait
<1>11. ASSUME NEW p \in Procs, CloseReread(p) PROVE ReportInv'
  BY Zenon, <1>11, ReportFrame DEF CloseReread
<1>12. ASSUME NEW p \in Procs, CloseCollect(p) PROVE ReportInv'
  BY <1>12, ReportFrame DEF CloseCollect
<1>13. ASSUME NEW p \in Procs, CloseRaw(p) PROVE ReportInv'
  BY <1>13, ReportFrame, SMTT(20) DEF CloseRaw
<1>14. ASSUME NEW p \in Procs, CloseDetach(p) PROVE ReportInv'
  <2>1. ClosedReports = {}
    BY Zenon, <1>14, NoReportYet DEF CloseDetach, SnapshotTaken
  <2>2. \/ pc' = [pc EXCEPT ![p] = "waiting"]
        \/ pc' = [pc EXCEPT ![p] = "report"] /\ cl'[p].snap.stats = stats'
    BY Zenon, <1>14, DrainControl DEF CloseDetach
  <2>3. ClosedReports' = {} /\ \A q \in Procs : q # p => pc'[q] \notin SnapPcs
    BY Zenon, <1>14, <2>1, <2>2 DEF CloseDetach, ClosedReports
  <2>4. pc'[p] \in {"waiting", "report"} /\ closeDone' # "closed"
    BY Zenon, <1>14, <2>2 DEF CloseDetach
  <2> QED
    BY Zenon, <2>2, <2>3, <2>4 DEF ReportInv
<1>15. ASSUME NEW p \in Procs, CloseWake(p) PROVE ReportInv'
  <2>1. ClosedReports = {}
    BY Zenon, <1>15, NoReportYet DEF CloseWake, SnapshotTaken
  <2>2. \/ pc' = [pc EXCEPT ![p] = "waiting"]
        \/ pc' = [pc EXCEPT ![p] = "report"] /\ cl'[p].snap.stats = stats'
    BY Zenon, <1>15, DrainControl DEF CloseWake
  <2>3. ClosedReports' = {} /\ \A q \in Procs : q # p => pc'[q] \notin SnapPcs
    BY Zenon, <1>15, <2>1, <2>2 DEF CloseWake, ClosedReports
  <2>4. pc'[p] \in {"waiting", "report"} /\ closeDone' # "closed"
    BY Zenon, <1>15, <2>2 DEF CloseWake
  <2> QED
    BY <2>2, <2>3, <2>4 DEF ReportInv
<1>16. ASSUME NEW p \in Procs, CloseReport(p) PROVE ReportInv'
  <2>1. ClosedReports = {} /\ \A q \in Procs : q # p => pc[q] \notin CloserPcs
    BY Zenon, <1>16 DEF CloseReport, ReportInv
  <2>2. CASE ~setup.report
    BY Zenon, <1>16, <2>1, <2>2 DEF CloseReport, ReportInv, ClosedReports
  <2>3. CASE setup.report
    <3>1. [state |-> "Closed", snap |-> cl[p].snap] \in ReportType
      BY Zenon DEF ReportType, CloseType, TypeOK
    <3>2. reports' = Append(reports, [state |-> "Closed", snap |-> cl[p].snap])
      BY Zenon, <1>16, <2>3 DEF CloseReport
    <3>3. ClosedReports' = {Len(reports')} /\ reports'[Len(reports')].snap = cl[p].snap
      BY Zenon, <2>1, <3>1, <3>2, AppendClosed
    <3>4. cl[p].snap.stats = stats /\ stats' = stats
      BY Zenon, <1>16 DEF CloseReport, ReportInv
    <3>5. pc' = [pc EXCEPT ![p] = "callback"]
      BY Zenon, <1>16, <2>3 DEF CloseReport
    <3> QED
      BY Zenon, <1>16, <2>1, <2>3, <3>3, <3>4, <3>5 DEF CloseReport, ReportInv
  <2> QED
    BY Zenon, <2>2, <2>3
<1>17. ASSUME NEW p \in Procs, CallbackReturn(p) PROVE ReportInv'
  BY Zenon, <1>17, ReportFrame DEF CallbackReturn
<1>18. ASSUME NEW p \in Procs, CloseSignal(p) PROVE ReportInv'
  <2>1. ClosedReports' = ClosedReports
    BY Zenon, <1>18 DEF CloseSignal, ClosedReports
  <2>2. /\ \A q \in Procs : q # p => pc'[q] = pc[q] /\ pc[q] \notin CloserPcs
        /\ pc'[p] = "idle"
    BY Zenon, <1>18 DEF CloseSignal
  <2> QED
    BY Zenon, <1>18, <2>1, <2>2 DEF CloseSignal, ReportInv
<1>19. ASSUME NEW p \in Procs, NEW k \in 0 .. MaxReconnects, SetReconnects(p, k) PROVE ReportInv'
  BY Zenon, <1>19, ReportFrame DEF SetReconnects
<1>20. ASSUME NEW p \in Procs, DeadlineBegin(p) PROVE ReportInv'
  BY Zenon, <1>20, ReportFrame DEF DeadlineBegin
<1>21. ASSUME NEW p \in Procs, DeadlineApply(p) PROVE ReportInv'
  BY Zenon, <1>21, ReportFrame DEF DeadlineApply
<1>22. CASE ExternalClose
  BY Zenon, <1>22, ReportFrame DEF ExternalClose
<1>23. CASE Tick
  BY Zenon, <1>23, ReportFrame DEF Tick
<1>24. CASE UNCHANGED vars
  BY Zenon, <1>24, ReportFrame DEF vars
<1>25. CASE ExternalDeadline
  BY Zenon, <1>25, ReportFrame DEF ExternalDeadline
<1> QED
  BY Zenon, <1>1, <1>2, <1>3, <1>4, <1>5, <1>6, <1>7, <1>8, <1>9, <1>10, <1>11, <1>12, <1>13,
     <1>14, <1>15, <1>16, <1>17, <1>18, <1>19, <1>20, <1>21, <1>22, <1>23, <1>24, <1>25
  DEF Next, Step

\* A step after which nobody has newly returned from Close or become the closer.
LEMMA AgreementFrame ==
  ASSUME CloseAgreement, setup' = setup, closeErr' = closeErr, closeDone' = closeDone,
         reports' = reports,
         \A q \in Procs : ret'[q] = ret[q] \/ ret'[q] = "none",
         \A q \in Procs : pc'[q] \in CloserPcs => pc[q] \in CloserPcs
  PROVE  CloseAgreement'
<1>1. ClosedReports' = ClosedReports
  BY DEF ClosedReports
<1> QED
  BY Zenon, <1>1 DEF CloseAgreement

\* A step taken before the done channel is closed, from which nobody returns.
LEMMA NoneReturned ==
  ASSUME CloseAgreement, setup' = setup, closeDone # "closed",
         \A q \in Procs : ret'[q] = ret[q] \/ ret'[q] = "none"
  PROVE  CloseAgreement'
  BY Zenon DEF CloseAgreement

\* All Close calls agree.
LEMMA AgreementStep ==
  ASSUME TypeOK, PhaseInv, CloserInv, RawInv, ReportInv, CloseAgreement,
         CloserInv', ReportInv', [Next]_vars
  PROVE  CloseAgreement'
<1>a. pc \in [Procs -> Pcs] /\ ret \in [Procs -> CloseErrs \cup {"none", "panic"}]
  BY DEF TypeOK, Pcs
<1>b. ASSUME NEW p \in Procs, pc[p] \in CloserPcs PROVE closeDone # "closed"
  BY <1>b, ZenonT(30) DEF CloserInv
<1> USE <1>a
<1> USE DEF wrapVars, lifeVars, statVars, procVars, rawVars, Goto, Call,
            IOPcs, SnapPcs, CloserPcs
<1>1. CASE WrapConn
  BY Zenon, <1>1, NoneReturned DEF WrapConn, PhaseInv
<1>2. CASE OpenCallbackReturn
  BY Zenon, <1>2, AgreementFrame DEF OpenCallbackReturn
<1>3. ASSUME NEW p \in Procs, NEW d \in Dirs, BeginIO(p, d) PROVE CloseAgreement'
  BY <1>3, AgreementFrame DEF BeginIO
<1>4. ASSUME NEW p \in Procs, IOReturn(p) PROVE CloseAgreement'
  BY Zenon, <1>4, AgreementFrame DEF IOReturn
<1>5. ASSUME NEW p \in Procs, Account(p) PROVE CloseAgreement'
  BY Zenon, <1>5, AgreementFrame DEF Account
<1>6. ASSUME NEW p \in Procs, FinishIO(p) PROVE CloseAgreement'
  BY Zenon, <1>6, AgreementFrame DEF FinishIO
<1>7. ASSUME NEW p \in Procs, CloseBegin(p) PROVE CloseAgreement'
  BY <1>7, NoneReturned DEF CloseBegin
<1>8. ASSUME NEW p \in Procs, CloseJoin(p) PROVE CloseAgreement'
  BY Zenon, <1>8, AgreementFrame DEF CloseJoin
<1>9. ASSUME NEW p \in Procs, CloseNoConn(p) PROVE CloseAgreement'
  <2>1. setup.kind = "nil"
    BY Zenon, <1>9 DEF CloseNoConn, CloserInv, RawInv, DetachedPcs
  <2> QED
    BY Zenon, <1>9, <2>1 DEF CloseNoConn, CloseAgreement
<1>10. ASSUME NEW p \in Procs, CloseAwait(p) PROVE CloseAgreement'
  BY Zenon, <1>10, AgreementFrame DEF CloseAwait
<1>11. ASSUME NEW p \in Procs, CloseReread(p) PROVE CloseAgreement'
  <2>1. closeDone = "closed" /\ \A q \in Procs : pc[q] \notin CloserPcs
    BY Zenon, <1>11 DEF CloseReread, CloserInv
  <2>2. setup.report => ClosedReports # {}
    BY <2>1, ZenonT(30) DEF ReportInv
  <2>3. ClosedReports' = ClosedReports
    BY <1>11, ZenonT(30) DEF CloseReread, ClosedReports
  <2> QED
    BY Zenon, <1>11, <2>1, <2>2, <2>3 DEF CloseReread, CloseAgreement
<1>12. ASSUME NEW p \in Procs, CloseCollect(p) PROVE CloseAgreement'
  BY <1>12, <1>b, NoneReturned DEF CloseCollect
<1>13. ASSUME NEW p \in Procs, CloseRaw(p) PROVE CloseAgreement'
  BY <1>13, <1>b, NoneReturned DEF CloseRaw
<1>14. ASSUME NEW p \in Procs, CloseDetach(p) PROVE CloseAgreement'
  BY <1>14, <1>b, NoneReturned DEF CloseDetach, DrainOrSnapshot
<1>15. ASSUME NEW p \in Procs, CloseWake(p) PROVE CloseAgreement'
  BY <1>15, <1>b, NoneReturned DEF CloseWake, DrainOrSnapshot
<1>16. ASSUME NEW p \in Procs, CloseReport(p) PROVE CloseAgreement'
  BY Zenon, <1>16, <1>b, NoneReturned DEF CloseReport
<1>17. ASSUME NEW p \in Procs, CallbackReturn(p) PROVE CloseAgreement'
  BY Zenon, <1>17, <1>b, NoneReturned DEF CallbackReturn
<1>18. ASSUME NEW p \in Procs, CloseSignal(p) PROVE CloseAgreement'
  <2>1. \A q \in Procs : ret[q] # "none" => setup.kind = "nil"
    BY Zenon, <1>18, <1>b DEF CloseSignal, CloseAgreement
  <2>2. ret'[p] \in {closeErr', "panic"} /\ \A q \in Procs : q # p => ret'[q] = ret[q]
    BY Zenon, <1>18 DEF CloseSignal, RawInv, DetachedPcs
  <2>3. closeDone' = "closed" /\ \A q \in Procs : pc'[q] \notin CloserPcs
    BY Zenon, <1>18 DEF CloseSignal, CloserInv
  <2>4. setup'.report => ClosedReports' # {}
    BY Zenon, <2>3 DEF ReportInv
  <2> QED
    BY Zenon, <1>18, <2>1, <2>2, <2>3, <2>4 DEF CloseSignal, CloseAgreement
<1>19. ASSUME NEW p \in Procs, NEW k \in 0 .. MaxReconnects, SetReconnects(p, k) PROVE CloseAgreement'
  BY Zenon, <1>19, AgreementFrame DEF SetReconnects
<1>20. ASSUME NEW p \in Procs, DeadlineBegin(p) PROVE CloseAgreement'
  BY Zenon, <1>20, AgreementFrame DEF DeadlineBegin
<1>21. ASSUME NEW p \in Procs, DeadlineApply(p) PROVE CloseAgreement'
  BY Zenon, <1>21, AgreementFrame DEF DeadlineApply
<1>22. CASE ExternalClose
  BY Zenon, <1>22, AgreementFrame DEF ExternalClose
<1>23. CASE Tick
  BY Zenon, <1>23, AgreementFrame DEF Tick
<1>24. CASE UNCHANGED vars
  BY Zenon, <1>24, AgreementFrame DEF vars
<1>25. CASE ExternalDeadline
  BY Zenon, <1>25, AgreementFrame DEF ExternalDeadline
<1> QED
  BY Zenon, <1>1, <1>2, <1>3, <1>4, <1>5, <1>6, <1>7, <1>8, <1>9, <1>10, <1>11, <1>12, <1>13,
     <1>14, <1>15, <1>16, <1>17, <1>18, <1>19, <1>20, <1>21, <1>22, <1>23, <1>24, <1>25
  DEF Next, Step

-----------------------------------------------------------------------------
\* A wrapper fresh from WrapConn satisfies the inductive invariant.
LEMMA InitIndInv == ASSUME Init, TypeOK PROVE IndInv
<1>1. InIO = {} /\ ClosedReports = {} /\ ~SnapshotTaken
  BY DEF Init, InIO, ClosedReports, SnapshotTaken, IOPcs, SnapPcs
<1>2. CountInv
  BY <1>1, FS_EmptySet DEF Init, CountInv, InFlightExact, NoLostWakeup
<1>3. PhaseInv /\ CloserInv /\ RawInv
  BY Zenon DEF Init, PhaseInv, CloserInv, RawInv, CloserPcs, WaiterPcs, SnapPcs, DetachedPcs
<1>4. ReportInv /\ CloseAgreement
  BY <1>1 DEF Init, ReportInv, CloseAgreement, ReportedPcs, SnapPcs
<1> QED
  BY <1>2, <1>3, <1>4 DEF IndInv

\* Every step of the wrapper keeps the inductive invariant.
LEMMA IndStep == ASSUME IndInv, [Next]_vars PROVE IndInv'
<1>1. TypeOK'
  BY TypeStep DEF IndInv
<1>2. PhaseInv' /\ CloserInv'
  BY ControlStep DEF IndInv
<1>3. RawInv'
  BY RawStep DEF IndInv
<1>4. CountInv'
  BY CountStep DEF IndInv
<1>5. ReportInv'
  BY <1>1, ReportStep DEF IndInv
<1>6. CloseAgreement'
  BY <1>2, <1>5, AgreementStep DEF IndInv
<1> QED
  BY <1>1, <1>2, <1>3, <1>4, <1>5, <1>6 DEF IndInv

\* The inductive invariant holds of every behaviour of the wrapper, for every
\* finite set of goroutines calling Read, Write, Close and the setters.
THEOREM Inductive == Spec => []IndInv
<1>1. Init /\ TypeOK => IndInv
  BY InitIndInv
<1>2. IndInv /\ [Next]_vars => IndInv'
  BY IndStep
<1> QED
  BY <1>1, <1>2, TypeCorrect, PTL DEF Spec

\* beginIO and finishIO count exactly the Reads and Writes under way: the
\* negative-count reset in finishIO can never run.
THEOREM InFlightCounted == Spec => []InFlightExact
<1>1. IndInv => InFlightExact
  BY DEF IndInv, CountInv
<1> QED
  BY <1>1, Inductive, PTL

\* Close never waits on ioDrained with nobody left to wake it.
THEOREM WakeupNeverLost == Spec => []NoLostWakeup
<1>1. IndInv => NoLostWakeup
  BY DEF IndInv, CountInv
<1> QED
  BY <1>1, Inductive, PTL

\* However many goroutines call Close, the raw connection is closed at most
\* once, and at most one closed report is made, after that.
THEOREM ClosesOnce == Spec => []ClosedOnce
<1>1. IndInv => ClosedOnce
  <2> SUFFICES ASSUME IndInv PROVE ClosedOnce
    OBVIOUS
  <2>1. rawCloses \in {0, 1}
    BY Zenon DEF IndInv, RawInv
  <2>2. CASE ClosedReports = {}
    BY <2>1, <2>2, FS_EmptySet DEF ClosedOnce
  <2>3. CASE ClosedReports # {}
    <3>1. ClosedReports = {Len(reports)}
      BY Zenon, <2>3 DEF IndInv, ReportInv
    <3>2. Cardinality(ClosedReports) = 1
      BY Zenon, <3>1, FS_Singleton
    <3>3. rawCloses = 1
      BY Zenon, <2>3 DEF IndInv, ReportInv, RawInv, ReportedPcs, DetachedPcs
    <3> QED
      BY <3>2, <3>3 DEF ClosedOnce
  <2> QED
    BY <2>2, <2>3
<1> QED
  BY <1>1, Inductive, PTL

\* Once the closed report's snapshot is taken no Read or Write is under way,
\* and the wrapper's statistics stay what the callback was given.
THEOREM ReportIsFinal == Spec => []ReportFinal
<1>1. IndInv => ReportFinal
  <2> SUFFICES ASSUME IndInv PROVE ReportFinal
    OBVIOUS
  <2>1. ASSUME SnapshotTaken PROVE InIO = {}
    BY <2>1, InIOFinite, FS_EmptySet DEF IndInv, CountInv, InFlightExact
  <2> QED
    BY Zenon, <2>1 DEF ReportFinal, IndInv, ReportInv
<1> QED
  BY <1>1, Inductive, PTL

\* Every Close of a wrapped connection returns the raw Close's error (or the
\* callback's panic), and only after the callback is over.
THEOREM ClosersAgree == Spec => []CloseAgreement
<1>1. IndInv => CloseAgreement
  BY DEF IndInv
<1> QED
  BY <1>1, Inductive, PTL

\* applyTCPInfo does not touch the close time ...
LEMMA ApplyKeepsClosedAt ==
  ASSUME NEW s \in StatsType, NEW state, NEW i, NEW e
  PROVE  ApplyTCPInfo(s, state, i, e).ClosedAt = s.ClosedAt
BY DEF ApplyTCPInfo, StatsType

\* ... nor does the accounting at the end of a Read or a Write ...
LEMMA AccountKeepsClosedAt ==
  ASSUME stats \in StatsType, NEW p \in Procs, Account(p)
  PROVE  stats'.ClosedAt = stats.ClosedAt
<1>1. stats' = RecordIO(stats, io[p].dir, io[p].n, io[p].err)
  BY Zenon DEF Account
<1> QED
  BY <1>1 DEF RecordIO, StatsType

\* ... nor does the drain loop of Close.
LEMMA DrainKeepsClosedAt ==
  ASSUME stats \in StatsType, NEW p \in Procs, DrainOrSnapshot(p)
  PROVE  stats'.ClosedAt = stats.ClosedAt
BY ApplyKeepsClosedAt DEF DrainOrSnapshot

\* What WindsDown says of one step.
Down == closeStarted =>
          /\ closeStarted'
          /\ InIO' \subseteq InIO /\ InDeadline' \subseteq InDeadline
          /\ conn' => conn
          /\ stats'.ClosedAt = stats.ClosedAt
          /\ ~conn => closeErr' = closeErr /\ deadline' = deadline

\* A step that lets nobody into Read, Write or a deadline call and keeps the rest.
LEMMA DownFrame ==
  ASSUME closeStarted' = closeStarted, conn' = conn, closeErr' = closeErr,
         stats'.ClosedAt = stats.ClosedAt, RawClosed => deadline' = deadline,
         closeStarted /\ ~conn => RawClosed,
         \A q \in Procs : pc'[q] \in IOPcs => pc[q] \in IOPcs,
         \A q \in Procs : pc'[q] = "deadline" => pc[q] = "deadline"
  PROVE  Down
  BY Zenon DEF Down, InIO, InDeadline

\* No step after Close has started undoes it: one case per action.
LEMMA DownStep ==
  ASSUME TypeOK, PhaseInv, CloserInv, RawInv, [Next]_vars
  PROVE  Down
<1>a. pc \in [Procs -> Pcs]
  BY Zenon DEF TypeOK, Pcs
<1> USE <1>a
<1> USE DEF wrapVars, lifeVars, statVars, procVars, rawVars, Goto, Call,
            IOPcs, SnapPcs, CloserPcs, DetachedPcs
<1>b. closeStarted /\ ~conn => RawClosed
  <2> SUFFICES ASSUME closeStarted, ~conn PROVE RawClosed
    OBVIOUS
  <2>1. closeDone = "closed" \/ \E p \in Procs : pc[p] \in DetachedPcs
    BY Zenon DEF CloserInv, RawInv
  <2>2. rawCloses = 1
    BY Zenon, <2>1 DEF RawInv
  <2> QED
    BY <2>2 DEF RawClosed
<1>0. stats \in StatsType
  BY Zenon DEF TypeOK
<1>1. CASE WrapConn
  <2>1. stats'.ClosedAt = stats.ClosedAt
    <3>1. PICK i, e : stats' = ApplyTCPInfo(stats, "Opened", i, e)
      BY Zenon, <1>1 DEF WrapConn
    <3> QED
      BY Zenon, <1>0, <3>1, ApplyKeepsClosedAt
  <2> QED
    BY Zenon, <1>1, <2>1, DownFrame, <1>b DEF WrapConn
<1>2. CASE OpenCallbackReturn
  BY Zenon, <1>2, DownFrame, <1>b DEF OpenCallbackReturn
<1>3. ASSUME NEW p \in Procs, NEW d \in Dirs, BeginIO(p, d) PROVE Down
  BY <1>3 DEF BeginIO, Down
<1>4. ASSUME NEW p \in Procs, IOReturn(p) PROVE Down
  BY Zenon, <1>4, DownFrame, <1>b DEF IOReturn
<1>5. ASSUME NEW p \in Procs, Account(p) PROVE Down
  <2>1. stats'.ClosedAt = stats.ClosedAt
    BY <1>5, <1>0, AccountKeepsClosedAt
  <2> QED
    BY Zenon, <1>5, <2>1, DownFrame, <1>b DEF Account
<1>6. ASSUME NEW p \in Procs, FinishIO(p) PROVE Down
  BY Zenon, <1>6, DownFrame, <1>b DEF FinishIO
<1>7. ASSUME NEW p \in Procs, CloseBegin(p) PROVE Down
  BY <1>7 DEF CloseBegin, CloserInv, Down
<1>8. ASSUME NEW p \in Procs, CloseJoin(p) PROVE Down
  BY Zenon, <1>8, DownFrame, <1>b DEF CloseJoin
<1>9. ASSUME NEW p \in Procs, CloseNoConn(p) PROVE Down
  BY Zenon, <1>9, DownFrame, <1>b DEF CloseNoConn
<1>10. ASSUME NEW p \in Procs, CloseAwait(p) PROVE Down
  BY Zenon, <1>10, DownFrame, <1>b DEF CloseAwait
<1>11. ASSUME NEW p \in Procs, CloseReread(p) PROVE Down
  BY Zenon, <1>11, DownFrame, <1>b DEF CloseReread
<1>12. ASSUME NEW p \in Procs, CloseCollect(p) PROVE Down
  BY <1>12, DownFrame, <1>b DEF CloseCollect
<1>13. ASSUME NEW p \in Procs, CloseRaw(p) PROVE Down
  BY <1>13, DownFrame, <1>b, SMTT(20) DEF CloseRaw
<1>14. ASSUME NEW p \in Procs, CloseDetach(p) PROVE Down
  <2>1. conn
    BY Zenon, <1>14 DEF CloseDetach, CloserInv, RawInv
  <2>2. pc'[p] \notin IOPcs /\ pc'[p] # "deadline" /\ \A q \in Procs : q # p => pc'[q] = pc[q]
    BY <1>14, SMTT(20) DEF CloseDetach, DrainOrSnapshot
  <2>3. stats'.ClosedAt = stats.ClosedAt
    BY Zenon, <1>14, <1>0, DrainKeepsClosedAt DEF CloseDetach
  <2> QED
    BY Zenon, <1>14, <2>1, <2>2, <2>3 DEF CloseDetach, Down, InIO, InDeadline
<1>15. ASSUME NEW p \in Procs, CloseWake(p) PROVE Down
  <2>1. stats'.ClosedAt = stats.ClosedAt
    BY Zenon, <1>15, <1>0, DrainKeepsClosedAt DEF CloseWake
  <2> QED
    BY <1>15, <2>1, DownFrame, <1>b, SMTT(20) DEF CloseWake, DrainOrSnapshot
<1>16. ASSUME NEW p \in Procs, CloseReport(p) PROVE Down
  BY Zenon, <1>16, DownFrame, <1>b DEF CloseReport
<1>17. ASSUME NEW p \in Procs, CallbackReturn(p) PROVE Down
  BY Zenon, <1>17, DownFrame, <1>b DEF CallbackReturn
<1>18. ASSUME NEW p \in Procs, CloseSignal(p) PROVE Down
  BY Zenon, <1>18, DownFrame, <1>b DEF CloseSignal
<1>19. ASSUME NEW p \in Procs, NEW k \in 0 .. MaxReconnects, SetReconnects(p, k) PROVE Down
  BY Zenon, <1>19, DownFrame, <1>b DEF SetReconnects
<1>20. ASSUME NEW p \in Procs, DeadlineBegin(p) PROVE Down
  BY Zenon, <1>20 DEF DeadlineBegin, Down
<1>21. ASSUME NEW p \in Procs, DeadlineApply(p) PROVE Down
  <2>1. RawClosed => deadline' = deadline
    <3>1. deadline \in [Dirs -> BOOLEAN]
      BY Zenon DEF TypeOK
    <3> QED
      BY <1>21, <3>1 DEF DeadlineApply
  <2> QED
    BY Zenon, <1>21, <2>1, DownFrame, <1>b DEF DeadlineApply
<1>22. CASE ExternalClose
  BY Zenon, <1>22, DownFrame, <1>b DEF ExternalClose
<1>23. CASE Tick
  BY Zenon, <1>23, DownFrame, <1>b DEF Tick
<1>24. CASE UNCHANGED vars
  BY Zenon, <1>24, DownFrame, <1>b DEF vars
<1>25. CASE ExternalDeadline
  BY Zenon, <1>25, DownFrame, <1>b DEF ExternalDeadline
<1> QED
  BY Zenon, <1>1, <1>2, <1>3, <1>4, <1>5, <1>6, <1>7, <1>8, <1>9, <1>10, <1>11, <1>12, <1>13,
     <1>14, <1>15, <1>16, <1>17, <1>18, <1>19, <1>20, <1>21, <1>22, <1>23, <1>24, <1>25
  DEF Next, Step

\* Once Close has started the wrapper only winds down: no Read, Write or deadline
\* call is admitted, w.Conn is not set again, ClosedAt and the error are settled,
\* and a deadline call that Close has overtaken changes no deadline.
THEOREM OnlyWindsDown == Spec => WindsDown
<1>1. IndInv /\ [Next]_vars => [Down]_vars
  BY DownStep DEF IndInv
<1> QED
  BY <1>1, Inductive, PTL DEF Spec, WindsDown, Down
=============================================================================
