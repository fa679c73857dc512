-------------------------- MODULE ConnSampleProofs --------------------------
(***************************************************************************)
(* Proofs about what the reports of Conn hold: the time stamps of Read and *)
(* Write, the bytes they moved, and the tcpinfo sample that Close takes.   *)
(* They rest on the inductive invariant of ConnProofs.                     *)
(***************************************************************************)
EXTENDS ConnProofs

\* collectTCPInfo gets as far as the socket.
Sampling == setup.supported /\ setup.kind = "tcp"

\* A sample is there, or an error says why not; neither where nothing is sampled.
Explained(info, err) ==
  IF Sampling THEN info = NoInfo => err # "nil" ELSE info = NoInfo /\ err = "nil"

\* The closer has its sample and has not applied it.
SampledPcs == {"rawclose", "detach", "waiting", "woken"}

\* The sample in the closer's locals, then in the statistics.
LocalSample(p) ==
  /\ Explained(cl[p].info, cl[p].infoErr)
  /\ cl[p].infoErr = "closed" => extClosed
  /\ setup.steady /\ cl[p].info # NoInfo => stats.ClosedAt <= cl[p].info

KeptSample ==
  /\ Explained(stats.ClosedInfo, stats.InfoErr)
  /\ setup.steady /\ stats.ClosedInfo # NoInfo => stats.ClosedAt <= stats.ClosedInfo

SampleInv ==
  /\ 0 < now /\ (setup.steady => stats.ClosedAt <= now)
  /\ stats.InfoErr = "closed" => extClosed
  /\ ~Sampling => stats.InfoErr = "nil" /\ stats.ClosedInfo = NoInfo
  /\ \A p \in Procs : pc[p] \in SampledPcs => LocalSample(p)
  /\ IF SnapshotTaken THEN KeptSample ELSE stats.ClosedInfo = NoInfo

\* The stamps of one direction, and those they are compared with.
StampsInv == StampsOrdered /\ 0 < now /\ (setup.steady => stats.OpenedAt <= now)

\* What a step does to the clock, which no method of the wrapper sets.
ClockStep == now' = now \/ (now' \in 1 .. MaxTime /\ (setup.steady => now' > now))

-----------------------------------------------------------------------------
\* What applyTCPInfoLocked changes and what it leaves.
LEMMA ApplyFields ==
  ASSUME NEW s \in StatsType, NEW state, NEW i \in Nat, NEW e \in InfoErrs
  PROVE  LET a == ApplyTCPInfo(s, state, i, e) IN
         /\ a.OpenedAt = s.OpenedAt /\ a.ClosedAt = s.ClosedAt
         /\ a.FirstAt = s.FirstAt /\ a.LastAt = s.LastAt /\ a.Bytes = s.Bytes
         /\ a.ClosedInfo = (IF state = "Closed" /\ i # NoInfo THEN i ELSE s.ClosedInfo)
         /\ a.InfoErr = (IF i # NoInfo \/ e # "nil" THEN e ELSE s.InfoErr)
BY DEF ApplyTCPInfo, StatsType

\* What Read and Write change and what they leave.
LEMMA RecordFields ==
  ASSUME NEW s \in StatsType, NEW d \in Dirs, NEW n \in Nat, NEW e \in IOErrs, now \in Nat
  PROVE  LET a == RecordIO(s, d, n, e)
             ok == e = "nil" /\ n > 0 IN
         /\ a.OpenedAt = s.OpenedAt /\ a.ClosedAt = s.ClosedAt
         /\ a.InfoErr = s.InfoErr /\ a.ClosedInfo = s.ClosedInfo
         /\ \A x \in Dirs :
              /\ a.FirstAt[x] = (IF x = d /\ ok /\ s.FirstAt[x] = 0 THEN now ELSE s.FirstAt[x])
              /\ a.LastAt[x] = (IF x = d /\ ok THEN now ELSE s.LastAt[x])
              /\ a.Bytes[x] = (IF x = d THEN s.Bytes[x] + n ELSE s.Bytes[x])
<1> DEFINE ok == e = "nil" /\ n > 0
           first == [s.FirstAt EXCEPT ![d] = IF ok /\ @ = 0 THEN now ELSE @]
           last == [s.LastAt EXCEPT ![d] = IF ok THEN now ELSE @]
           bytes == [s.Bytes EXCEPT ![d] = @ + n]
           errs == [s.Err EXCEPT ![d] = IF e = "neterr" THEN e ELSE @]
<1>1. \A x \in Dirs :
        /\ first[x] = (IF x = d /\ ok /\ s.FirstAt[x] = 0 THEN now ELSE s.FirstAt[x])
        /\ last[x] = (IF x = d /\ ok THEN now ELSE s.LastAt[x])
        /\ bytes[x] = (IF x = d THEN s.Bytes[x] + n ELSE s.Bytes[x])
  BY DEF StatsType
<1>2. RecordIO(s, d, n, e) =
        [s EXCEPT !.FirstAt = first, !.LastAt = last, !.Bytes = bytes, !.Err = errs]
  BY DEF RecordIO
<1> HIDE DEF first, last, bytes, errs, ok
<1>3. LET a == RecordIO(s, d, n, e) IN
      /\ a.OpenedAt = s.OpenedAt /\ a.ClosedAt = s.ClosedAt
      /\ a.InfoErr = s.InfoErr /\ a.ClosedInfo = s.ClosedInfo
      /\ a.FirstAt = first /\ a.LastAt = last /\ a.Bytes = bytes
  BY <1>2 DEF StatsType
<1> QED
  BY <1>1, <1>3 DEF ok

\* The bytes alone: those of the direction grow by the count, those of the other
\* stay.
LEMMA RecordBytes ==
  ASSUME NEW s \in StatsType, NEW d \in Dirs, NEW n \in Nat, NEW e \in IOErrs, now \in Nat
  PROVE  \A x \in Dirs :
           RecordIO(s, d, n, e).Bytes[x] = (IF x = d THEN s.Bytes[x] + n ELSE s.Bytes[x])
BY RecordFields

\* The types of what the steps below look at.
LEMMA Typed ==
  ASSUME TypeOK
  PROVE  /\ pc \in [Procs -> Pcs] /\ cl \in [Procs -> CloseType]
         /\ stats \in StatsType /\ now \in Nat
         /\ stats.OpenedAt \in Nat /\ stats.ClosedAt \in Nat /\ stats.ClosedInfo \in Nat
         /\ \A d \in Dirs : /\ stats.FirstAt[d] \in Nat /\ stats.LastAt[d] \in Nat
                            /\ stats.Bytes[d] \in Nat
         /\ \A p \in Procs : cl[p].info \in Nat /\ cl[p].infoErr \in InfoErrs
<1>1. pc \in [Procs -> Pcs] /\ cl \in [Procs -> CloseType] /\ stats \in StatsType /\ now \in Nat
  BY SMTT(30) DEF TypeOK, Pcs
<1>2. \A p \in Procs : cl[p].info \in Nat /\ cl[p].infoErr \in InfoErrs
  BY <1>1 DEF CloseType
<1>3. /\ stats.OpenedAt \in Nat /\ stats.ClosedAt \in Nat /\ stats.ClosedInfo \in Nat
      /\ \A d \in Dirs : /\ stats.FirstAt[d] \in Nat /\ stats.LastAt[d] \in Nat
                         /\ stats.Bytes[d] \in Nat
  BY <1>1 DEF StatsType
<1> QED
  BY <1>1, <1>2, <1>3

-----------------------------------------------------------------------------
\* The arguments of WrapConn do not change once it is called.
LEMMA SetupKept == ASSUME [Next]_vars PROVE setup' = setup
<1> USE DEF wrapVars
<1>1. ASSUME \/ WrapConn \/ OpenCallbackReturn \/ ExternalClose \/ ExternalDeadline \/ Tick
             \/ UNCHANGED vars
      PROVE  setup' = setup
  BY Zenon, <1>1 DEF WrapConn, OpenCallbackReturn, ExternalClose, ExternalDeadline, Tick, vars
<1>2. ASSUME NEW p \in Procs,
             (\E d \in Dirs : BeginIO(p, d)) \/ IOReturn(p) \/ Account(p) \/ FinishIO(p)
      PROVE  setup' = setup
  BY Zenon, <1>2 DEF BeginIO, IOReturn, Account, FinishIO
<1>3. ASSUME NEW p \in Procs,
             CloseBegin(p) \/ CloseJoin(p) \/ CloseNoConn(p) \/ CloseAwait(p) \/ CloseReread(p)
      PROVE  setup' = setup
  BY <1>3 DEF CloseBegin, CloseJoin, CloseNoConn, CloseAwait, CloseReread
<1>4. ASSUME NEW p \in Procs,
             CloseCollect(p) \/ CloseRaw(p) \/ CloseDetach(p) \/ CloseWake(p)
      PROVE  setup' = setup
  BY <1>4, SMTT(20) DEF CloseCollect, CloseRaw, CloseDetach, CloseWake
<1>5. ASSUME NEW p \in Procs, CloseReport(p) \/ CallbackReturn(p) \/ CloseSignal(p)
      PROVE  setup' = setup
  BY Zenon, <1>5 DEF CloseReport, CallbackReturn, CloseSignal
<1>6. ASSUME NEW p \in Procs, DeadlineBegin(p) \/ DeadlineApply(p)
                              \/ \E k \in 0 .. MaxReconnects : SetReconnects(p, k)
      PROVE  setup' = setup
  BY Zenon, <1>6 DEF DeadlineBegin, DeadlineApply, SetReconnects
<1> QED
  BY Zenon, <1>1, <1>2, <1>3, <1>4, <1>5, <1>6 DEF Next, Step

\* How a step may touch the stamps: not at all, or as Account does.
LEMMA StatsChange ==
  ASSUME TypeOK, [Next]_vars
  PROVE  \/ /\ stats'.OpenedAt = stats.OpenedAt /\ stats'.FirstAt = stats.FirstAt
            /\ stats'.LastAt = stats.LastAt /\ stats'.Bytes = stats.Bytes /\ ClockStep
         \/ \E p \in Procs : Account(p)
<1> USE DEF wrapVars, lifeVars, statVars, procVars, rawVars
<1> DEFINE Goal == /\ stats'.OpenedAt = stats.OpenedAt /\ stats'.FirstAt = stats.FirstAt
                   /\ stats'.LastAt = stats.LastAt /\ stats'.Bytes = stats.Bytes
                   /\ ClockStep
<1>1. CASE WrapConn
  <2>1. PICK r \in CollectTCPInfo : stats' = ApplyTCPInfo(stats, "Opened", r.info, r.err)
    BY <1>1 DEF WrapConn
  <2> QED
    BY <1>1, <2>1, CollectType, ApplyFields, Typed DEF WrapConn, ClockStep
<1>2. ASSUME NEW p \in Procs, CloseBegin(p) PROVE Goal
  BY <1>2, Typed DEF CloseBegin, StatsType, ClockStep
<1>3. ASSUME NEW p \in Procs, CloseDetach(p) \/ CloseWake(p) PROVE Goal
  <2>1. now' = now /\ stats' \in {stats, ApplyTCPInfo(stats, "Closed", cl[p].info, cl[p].infoErr)}
    BY <1>3 DEF CloseDetach, CloseWake, DrainOrSnapshot
  <2> QED
    BY <2>1, ApplyFields, Typed DEF ClockStep
<1>4. CASE UNCHANGED stats /\ ClockStep
  BY <1>4
<1> HIDE DEF Goal
<1> QED
  BY <1>1, <1>2, <1>3, <1>4, ZenonT(60)
  DEF Goal, Next, Step, vars, OpenCallbackReturn, BeginIO, IOReturn, FinishIO, CloseJoin, CloseNoConn,
      CloseAwait, CloseReread, CloseCollect, CloseRaw, CloseReport, CallbackReturn, CloseSignal,
      SetReconnects, DeadlineBegin, DeadlineApply, ExternalClose, ExternalDeadline, Tick, ClockStep

\* Every step keeps the stamps in order.
LEMMA StampsStep == TypeOK /\ StampsInv /\ [Next]_vars => StampsInv'
<1> SUFFICES ASSUME TypeOK, StampsInv, [Next]_vars PROVE StampsInv'
  BY ZenonT(30)
<1>0. setup' = setup
  BY Zenon, SetupKept
<1>1. CASE \E p \in Procs : Account(p)
  <2>1. PICK p \in Procs : Account(p)
    BY <1>1
  <2>2. io[p].dir \in Dirs /\ io[p].n \in Nat /\ io[p].err \in IOErrs
    BY DEF TypeOK
  <2>3. stats' = RecordIO(stats, io[p].dir, io[p].n, io[p].err) /\ now' = now
    BY <2>1 DEF Account
  <2>4. /\ stats'.OpenedAt = stats.OpenedAt
        /\ \A x \in Dirs :
             \/ /\ x = io[p].dir /\ io[p].n > 0
                /\ stats'.FirstAt[x] = (IF stats.FirstAt[x] = 0 THEN now ELSE stats.FirstAt[x])
                /\ stats'.LastAt[x] = now /\ stats'.Bytes[x] = stats.Bytes[x] + io[p].n
             \/ /\ stats'.FirstAt[x] = stats.FirstAt[x] /\ stats'.LastAt[x] = stats.LastAt[x]
                /\ stats'.Bytes[x] \in {stats.Bytes[x], stats.Bytes[x] + io[p].n}
    <3>1. stats \in StatsType /\ now \in Nat
      BY Typed
    <3>2. /\ stats'.OpenedAt = stats.OpenedAt
          /\ \A x \in Dirs :
               /\ stats'.FirstAt[x] = (IF x = io[p].dir /\ (io[p].err = "nil" /\ io[p].n > 0) /\ stats.FirstAt[x] = 0
                                        THEN now ELSE stats.FirstAt[x])
               /\ stats'.LastAt[x] = (IF x = io[p].dir /\ (io[p].err = "nil" /\ io[p].n > 0)
                                       THEN now ELSE stats.LastAt[x])
               /\ stats'.Bytes[x] = (IF x = io[p].dir THEN stats.Bytes[x] + io[p].n ELSE stats.Bytes[x])
      BY <2>2, <2>3, <3>1, RecordFields
    <3> QED
      BY <3>2, ZenonT(60)
  <2> QED
    <3>1. ASSUME NEW x \in Dirs
          PROVE  /\ stats'.FirstAt[x] = 0 <=> stats'.LastAt[x] = 0
                 /\ stats'.LastAt[x] # 0 => stats'.Bytes[x] > 0
                 /\ setup.steady /\ stats'.LastAt[x] # 0 =>
                      /\ stats'.OpenedAt <= stats'.FirstAt[x] /\ stats'.FirstAt[x] <= stats'.LastAt[x]
                      /\ stats'.LastAt[x] <= now
      <4>1. /\ now \in Nat /\ stats.OpenedAt \in Nat /\ stats.FirstAt[x] \in Nat
            /\ stats.LastAt[x] \in Nat /\ stats.Bytes[x] \in Nat
        BY Typed
      <4>2. /\ 0 < now /\ (setup.steady => stats.OpenedAt <= now)
            /\ stats.FirstAt[x] = 0 <=> stats.LastAt[x] = 0
            /\ stats.LastAt[x] # 0 => stats.Bytes[x] > 0
            /\ setup.steady /\ stats.LastAt[x] # 0 =>
                 /\ stats.OpenedAt <= stats.FirstAt[x] /\ stats.FirstAt[x] <= stats.LastAt[x]
                 /\ stats.LastAt[x] <= now
        BY DEF StampsInv, StampsOrdered
      <4> QED
        BY <2>2, <2>4, <4>1, <4>2
    <3> QED
      BY Zenon, <1>0, <2>3, <2>4, <3>1 DEF StampsInv, StampsOrdered
<1>2. CASE /\ stats'.OpenedAt = stats.OpenedAt /\ stats'.FirstAt = stats.FirstAt
           /\ stats'.LastAt = stats.LastAt /\ stats'.Bytes = stats.Bytes /\ ClockStep
  <2>1. /\ now \in Nat /\ stats.OpenedAt \in Nat
        /\ \A d \in Dirs : stats.LastAt[d] \in Nat
    BY Typed
  <2>2. 0 < now' /\ now' \in Nat /\ (setup.steady => now <= now')
    BY <1>2, <2>1, BoundsAssumption DEF ClockStep, StampsInv
  <2> QED
    BY <1>0, <1>2, <2>1, <2>2 DEF StampsInv, StampsOrdered
<1> QED
  BY <1>1, <1>2, StatsChange

\* The stamps of Read and Write are set together, only for bytes moved, and, as long
\* as the wall clock is not set back, in order, however the goroutines interleave.
THEOREM StampsAreOrdered == Spec => []StampsOrdered
<1>1. Init => StampsInv
  <2> SUFFICES ASSUME Init PROVE StampsInv
    OBVIOUS
  <2>1. /\ now \in Nat /\ 0 < now /\ stats.OpenedAt = now
        /\ \A d \in Dirs : stats.FirstAt[d] = 0 /\ stats.LastAt[d] = 0
    BY BoundsAssumption DEF Init, NoStats
  <2> QED
    BY <2>1 DEF StampsInv, StampsOrdered
<1>2. StampsInv => StampsOrdered
  BY DEF StampsInv
<1> QED
  BY <1>1, <1>2, StampsStep, TypeCorrect, PTL DEF Spec

-----------------------------------------------------------------------------
\* A step during which no time passes.
LEMMA ClockStill == ASSUME now' = now PROVE ClockStep
BY DEF ClockStep

\* A step that takes no snapshot, leaves the samples alone and lets nobody into the
\* part between sample and snapshot keeps what is said of them.
LEMMA SampleFrame ==
  ASSUME TypeOK, SampleInv, setup' = setup, ClockStep, extClosed => extClosed',
         stats'.ClosedAt = stats.ClosedAt, stats'.InfoErr = stats.InfoErr,
         stats'.ClosedInfo = stats.ClosedInfo,
         \A p \in Procs : pc'[p] \in SampledPcs =>
           pc[p] \in SampledPcs /\ cl'[p].info = cl[p].info /\ cl'[p].infoErr = cl[p].infoErr,
         SnapshotTaken' <=> SnapshotTaken
  PROVE  SampleInv'
<1>1. Sampling' <=> Sampling
  BY DEF Sampling
<1>2. 0 < now' /\ (setup'.steady => stats'.ClosedAt <= now')
  BY Typed, BoundsAssumption DEF SampleInv, ClockStep
<1>3. ASSUME NEW p \in Procs, pc'[p] \in SampledPcs PROVE LocalSample(p)'
  <2>1. LocalSample(p) /\ cl'[p].info = cl[p].info /\ cl'[p].infoErr = cl[p].infoErr
    BY <1>3 DEF SampleInv
  <2> QED
    BY <1>1, <2>1 DEF LocalSample, Explained
<1>4. KeptSample => KeptSample'
  BY <1>1 DEF KeptSample, Explained
<1> QED
  BY <1>1, <1>2, <1>3, <1>4 DEF SampleInv

\* What one collection returns while the wrapper has not closed the socket itself.
LEMMA Collected ==
  ASSUME TypeOK, 0 < now, rawCloses = 0, NEW r \in CollectTCPInfo
  PROVE  /\ r.info \in {NoInfo, now} /\ Explained(r.info, r.err)
         /\ r.err = "closed" => extClosed
<1>1. CASE ~Sampling
  BY <1>1 DEF CollectTCPInfo, Sampling, Explained
<1>2. CASE Sampling /\ RawClosed
  BY <1>2 DEF CollectTCPInfo, Sampling, Explained, RawClosed, TypeOK
<1>3. CASE Sampling /\ ~RawClosed
  BY <1>3, Typed DEF CollectTCPInfo, Sampling, Explained, NoInfo
<1> QED
  BY <1>1, <1>2, <1>3

\* The drain loop waits, or keeps the sample in the statistics.
LEMMA SampleDrain ==
  ASSUME TypeOK, CloserInv, SampleInv, NEW p \in Procs, pc[p] \in {"detach", "woken"},
         DrainOrSnapshot(p), UNCHANGED <<setup, now, extClosed, closeDone>>
  PROVE  SampleInv'
<1>a. /\ pc \in [Procs -> Pcs] /\ cl \in [Procs -> CloseType] /\ stats \in StatsType
      /\ cl[p].info \in Nat /\ cl[p].infoErr \in InfoErrs
  BY Typed
<1>b. closeDone = "made" /\ \A q \in Procs : q # p => pc[q] \notin CloserPcs
  BY DEF CloserInv, CloserPcs, SnapPcs
<1>c. ~SnapshotTaken /\ LocalSample(p)
  BY <1>b DEF SnapshotTaken, CloserPcs, SnapPcs, SampleInv, SampledPcs
<1>1. CASE inFlight > 0
  <2>1. pc' = [pc EXCEPT ![p] = "waiting"] /\ UNCHANGED <<stats, cl>>
    BY <1>1 DEF DrainOrSnapshot, Goto
  <2>2. SnapshotTaken' <=> SnapshotTaken
    BY <1>a, <1>b, <1>c, <2>1 DEF SnapshotTaken, SnapPcs, CloserPcs
  <2>3. \A q \in Procs : pc'[q] \in SampledPcs => pc[q] \in SampledPcs
    BY <1>a, <2>1 DEF SampledPcs
  <2> QED
    BY <2>1, <2>2, <2>3, SampleFrame, ClockStill
<1>2. CASE ~(inFlight > 0)
  <2>1. /\ pc' = [pc EXCEPT ![p] = "report"]
        /\ stats' = ApplyTCPInfo(stats, "Closed", cl[p].info, cl[p].infoErr)
    BY <1>2 DEF DrainOrSnapshot, Goto
  <2>2. /\ stats'.ClosedAt = stats.ClosedAt
        /\ stats'.ClosedInfo = (IF cl[p].info # NoInfo THEN cl[p].info ELSE stats.ClosedInfo)
        /\ stats'.InfoErr = (IF cl[p].info # NoInfo \/ cl[p].infoErr # "nil" THEN cl[p].infoErr
                              ELSE stats.InfoErr)
    BY <1>a, <2>1, ApplyFields
  <2>3. SnapshotTaken' /\ \A q \in Procs : pc'[q] \notin SampledPcs
    BY <1>a, <1>b, <2>1 DEF SnapshotTaken, SnapPcs, SampledPcs, CloserPcs
  <2>4. stats.ClosedInfo = NoInfo
    BY <1>c DEF SampleInv
  <2>5. Sampling' <=> Sampling
    BY DEF Sampling
  <2>6. KeptSample'
    BY Zenon, <1>c, <2>2, <2>4, <2>5 DEF KeptSample, LocalSample, Explained, SampleInv
  <2>7. stats'.InfoErr = "closed" => extClosed'
    BY Zenon, <1>c, <2>2 DEF LocalSample, SampleInv
  <2>8. ~Sampling' => stats'.InfoErr = "nil" /\ stats'.ClosedInfo = NoInfo
    BY <2>5, <2>6 DEF KeptSample, Explained
  <2> QED
    BY Zenon, <2>2, <2>3, <2>6, <2>7, <2>8 DEF SampleInv
<1> QED
  BY <1>1, <1>2

\* Every step keeps what is said of the samples.
LEMMA SampleStep == IndInv /\ SampleInv /\ [Next]_vars => SampleInv'
<1> SUFFICES ASSUME IndInv, SampleInv, [Next]_vars PROVE SampleInv'
  OBVIOUS
<1>a. /\ TypeOK /\ CloserInv /\ RawInv /\ PhaseInv
      /\ pc \in [Procs -> Pcs] /\ cl \in [Procs -> CloseType] /\ stats \in StatsType /\ now \in Nat
  BY Typed, SMTT(20) DEF IndInv
<1> USE DEF wrapVars, lifeVars, statVars, procVars, rawVars, Goto, Call
<1>1. CASE WrapConn
  <2>1. PICK r \in CollectTCPInfo : stats' = ApplyTCPInfo(stats, "Opened", r.info, r.err)
    BY <1>1 DEF WrapConn
  <2>2. closeDone = "nil" /\ \A p \in Procs : pc[p] = "idle"
    BY <1>1, <1>a DEF WrapConn, PhaseInv
  <2>3. rawCloses = 0 /\ ~SnapshotTaken
    BY <1>a, <2>2 DEF RawInv, DetachedPcs, SnapPcs, SnapshotTaken
  <2>4. Explained(r.info, r.err) /\ (r.err = "closed" => extClosed)
    BY <1>a, <2>3, Collected DEF SampleInv
  <2>5. /\ stats'.ClosedAt = stats.ClosedAt /\ stats'.ClosedInfo = stats.ClosedInfo
        /\ stats'.InfoErr = (IF r.info # NoInfo \/ r.err # "nil" THEN r.err ELSE stats.InfoErr)
    BY <1>a, <2>1, CollectType, ApplyFields
  <2>6. UNCHANGED <<setup, now, extClosed, pc, cl, closeDone>>
    BY <1>1 DEF WrapConn
  <2>7. ~SnapshotTaken' /\ \A p \in Procs : pc'[p] \notin SampledPcs
    BY <2>2, <2>6 DEF SnapshotTaken, SnapPcs, SampledPcs
  <2>8. Sampling' <=> Sampling
    BY <2>6 DEF Sampling
  <2> QED
    BY Zenon, <2>3, <2>4, <2>5, <2>6, <2>7, <2>8 DEF SampleInv, Explained
<1>2. ASSUME NEW p \in Procs, CloseBegin(p) PROVE SampleInv'
  <2>1. closeDone = "nil" /\ \A q \in Procs : pc[q] \notin CloserPcs
    BY <1>2, <1>a DEF CloseBegin, CloserInv
  <2>2. /\ stats'.ClosedAt = now /\ stats'.InfoErr = stats.InfoErr /\ stats'.ClosedInfo = stats.ClosedInfo
        /\ pc' = [pc EXCEPT ![p] = "collect"] /\ closeDone' = "made"
        /\ UNCHANGED <<setup, now, extClosed>>
    BY <1>2, <1>a DEF CloseBegin, StatsType
  <2>3. ~SnapshotTaken /\ ~SnapshotTaken' /\ \A q \in Procs : pc'[q] \notin SampledPcs
    BY <1>a, <2>1, <2>2 DEF SnapshotTaken, CloserPcs, SnapPcs, SampledPcs
  <2>4. Sampling' <=> Sampling
    BY <2>2 DEF Sampling
  <2> QED
    BY <1>a, <2>2, <2>3, <2>4 DEF SampleInv
<1>3. ASSUME NEW p \in Procs, CloseCollect(p) PROVE SampleInv'
  <2>1. PICK r \in CollectTCPInfo : cl' = [cl EXCEPT ![p].info = r.info, ![p].infoErr = r.err]
    BY <1>3, ZenonT(30) DEF CloseCollect
  <2>2. cl'[p].info = r.info /\ cl'[p].infoErr = r.err
    BY <1>a, <2>1 DEF CloseType
  <2>3. /\ pc[p] = "collect" /\ pc' = [pc EXCEPT ![p] = "rawclose"]
        /\ UNCHANGED <<setup, now, extClosed, stats, closeDone>>
    BY <1>3 DEF CloseCollect
  <2>4. closeDone = "made" /\ \A q \in Procs : q # p => pc[q] \notin CloserPcs
    BY <1>a, <2>3 DEF CloserInv, CloserPcs
  <2>5. rawCloses = 0
    BY <1>a, <2>3, <2>4 DEF RawInv, DetachedPcs, SnapPcs, CloserPcs
  <2>6. Explained(r.info, r.err) /\ (r.err = "closed" => extClosed) /\ r.info \in {NoInfo, now}
    BY <1>a, <2>5, Collected DEF SampleInv
  <2>7. (Sampling' <=> Sampling) /\ (setup.steady => stats.ClosedAt <= now)
    BY <2>3 DEF Sampling, SampleInv
  <2>8. LocalSample(p)'
    BY <2>2, <2>3, <2>6, <2>7 DEF LocalSample, Explained
  <2>9. ~SnapshotTaken /\ ~SnapshotTaken' /\ \A q \in Procs : pc'[q] \in SampledPcs => q = p
    BY <1>a, <2>3, <2>4 DEF SnapshotTaken, CloserPcs, SnapPcs, SampledPcs
  <2> QED
    BY <2>3, <2>7, <2>8, <2>9 DEF SampleInv
<1>4. ASSUME NEW p \in Procs, CloseRaw(p) PROVE SampleInv'
  <2>1. PICK e : cl' = [cl EXCEPT ![p].err = e]
    BY <1>4, ZenonT(30) DEF CloseRaw
  <2>2. \A q \in Procs : cl'[q].info = cl[q].info /\ cl'[q].infoErr = cl[q].infoErr
    <3>1. ASSUME NEW q \in Procs PROVE cl'[q].info = cl[q].info /\ cl'[q].infoErr = cl[q].infoErr
      <4>1. CASE q = p
        BY <1>a, <2>1, <4>1 DEF CloseType
      <4>2. CASE q # p
        BY <1>a, <2>1, <4>2
      <4> QED
        BY <4>1, <4>2
    <3> QED
      BY <3>1
  <2>3. /\ pc[p] = "rawclose" /\ pc' = [pc EXCEPT ![p] = "detach"]
        /\ UNCHANGED <<setup, now, extClosed, stats, closeDone>>
    BY <1>4 DEF CloseRaw
  <2>4. SnapshotTaken' <=> SnapshotTaken
    BY <1>a, <2>3 DEF SnapshotTaken, SnapPcs
  <2>5. \A q \in Procs : pc'[q] \in SampledPcs => pc[q] \in SampledPcs
    BY <1>a, <2>3 DEF SampledPcs
  <2> QED
    BY Zenon, <1>a, <2>2, <2>3, <2>4, <2>5, SampleFrame, ClockStill
<1>5. ASSUME NEW p \in Procs, CloseDetach(p) \/ CloseWake(p) PROVE SampleInv'
  <2>1. /\ pc[p] \in {"detach", "woken"} /\ DrainOrSnapshot(p)
        /\ UNCHANGED <<setup, now, extClosed, closeDone>>
    BY Zenon, <1>5 DEF CloseDetach, CloseWake
  <2> QED
    BY <1>a, <2>1, SampleDrain
<1>6. ASSUME NEW p \in Procs, Account(p) PROVE SampleInv'
  <2>1. io[p].dir \in Dirs /\ io[p].n \in Nat /\ io[p].err \in IOErrs
    BY <1>a DEF TypeOK
  <2>2. /\ stats'.ClosedAt = stats.ClosedAt /\ stats'.InfoErr = stats.InfoErr
        /\ stats'.ClosedInfo = stats.ClosedInfo
    BY <1>6, <1>a, <2>1, RecordFields DEF Account
  <2>3. /\ pc[p] = "account" /\ pc' = [pc EXCEPT ![p] = "finish"]
        /\ UNCHANGED <<setup, now, extClosed, cl, closeDone>>
    BY <1>6 DEF Account
  <2>4. SnapshotTaken' <=> SnapshotTaken
    BY <1>a, <2>3 DEF SnapshotTaken, SnapPcs
  <2>5. \A q \in Procs : pc'[q] \in SampledPcs => pc[q] \in SampledPcs
    BY <1>a, <2>3 DEF SampledPcs
  <2> QED
    BY <1>a, <2>2, <2>3, <2>4, <2>5, SampleFrame, ClockStill
<1>7. ASSUME NEW p \in Procs, FinishIO(p) PROVE SampleInv'
  <2>1. /\ pc[p] = "finish" /\ UNCHANGED <<setup, now, extClosed, cl, closeDone, stats>>
    BY <1>7 DEF FinishIO
  <2>0. \A q \in Procs : \/ pc'[q] = pc[q]
                         \/ q = p /\ pc'[q] = "idle"
                         \/ pc[q] = "waiting" /\ pc'[q] = "woken"
    <3>1. \E b \in BOOLEAN : pc' = [q \in Procs |-> IF q = p THEN "idle"
                                    ELSE IF b /\ pc[q] = "waiting" THEN "woken" ELSE pc[q]]
      BY Zenon, <1>7 DEF FinishIO
    <3> QED
      BY <3>1
  <2>2. SnapshotTaken' <=> SnapshotTaken
    BY <1>a, <2>0, <2>1 DEF SnapshotTaken, SnapPcs
  <2>3. \A q \in Procs : pc'[q] \in SampledPcs => pc[q] \in SampledPcs
    BY <2>0 DEF SampledPcs
  <2> QED
    BY <1>a, <2>1, <2>2, <2>3, SampleFrame, ClockStill
<1>8. ASSUME NEW p \in Procs, CloseReport(p) \/ CallbackReturn(p) \/ CloseSignal(p) PROVE SampleInv'
  <2>1. /\ UNCHANGED <<setup, now, extClosed, stats>>
        /\ pc[p] \in SnapPcs /\ \E l : l \notin SampledPcs /\ pc' = [pc EXCEPT ![p] = l]
                                  /\ (l \in SnapPcs \/ closeDone' = "closed")
    BY Zenon, <1>8 DEF CloseReport, CallbackReturn, CloseSignal, SnapPcs, SampledPcs
  <2>2. \A q \in Procs : q # p => pc[q] \notin CloserPcs
    BY <1>a, <2>1 DEF CloserInv, CloserPcs
  <2>3. SnapshotTaken' /\ SnapshotTaken
    BY <1>a, <2>1 DEF SnapshotTaken
  <2>4. \A q \in Procs : pc'[q] \notin SampledPcs
    BY <1>a, <2>1, <2>2 DEF SampledPcs, CloserPcs
  <2> QED
    BY Zenon, <1>a, <2>1, <2>3, <2>4, SampleFrame, ClockStill
<1>9. ASSUME NEW p \in Procs, NEW l, l \notin SampledPcs \cup SnapPcs, pc[p] \notin SnapPcs,
             pc' \in {pc, [pc EXCEPT ![p] = l]},
             UNCHANGED <<setup, now, extClosed, stats, cl, closeDone>>
      PROVE  SampleInv'
  <2>1. SnapshotTaken' <=> SnapshotTaken
    BY <1>9, <1>a DEF SnapshotTaken
  <2>2. \A q \in Procs : pc'[q] \in SampledPcs => pc[q] \in SampledPcs
    BY <1>9, <1>a
  <2> QED
    BY Zenon, <1>9, <1>a, <2>1, <2>2, SampleFrame, ClockStill
<1>10. ASSUME NEW p \in Procs,
              \/ \E d \in Dirs : BeginIO(p, d)
              \/ IOReturn(p) \/ CloseJoin(p) \/ CloseNoConn(p)
              \/ \E k \in 0 .. MaxReconnects : SetReconnects(p, k)
              \/ DeadlineBegin(p) \/ DeadlineApply(p) \/ CloseAwait(p) \/ CloseReread(p)
       PROVE  SampleInv'
  <2>1. /\ pc[p] \notin SnapPcs /\ UNCHANGED <<setup, now, extClosed, stats, cl, closeDone>>
        /\ \E l \in {"io", "account", "await", "reread", "deadline", "idle"} :
             pc' \in {pc, [pc EXCEPT ![p] = l]}
    BY Zenon, <1>10 DEF BeginIO, IOReturn, CloseJoin, CloseNoConn, SetReconnects, DeadlineBegin,
                 DeadlineApply, CloseAwait, CloseReread, SnapPcs
  <2> QED
    BY <1>9, <2>1, SMTT(20) DEF SampledPcs, SnapPcs
<1>11. CASE OpenCallbackReturn \/ ExternalClose \/ ExternalDeadline \/ Tick \/ UNCHANGED vars
  <2>1. /\ UNCHANGED <<setup, stats, pc, cl, closeDone>> /\ ClockStep
        /\ extClosed => extClosed'
    <3>1. UNCHANGED <<setup, stats, pc, cl, closeDone>>
      BY Zenon, <1>11 DEF OpenCallbackReturn, ExternalClose, ExternalDeadline, Tick, vars
    <3>2. ClockStep
      BY <1>11 DEF OpenCallbackReturn, ExternalClose, ExternalDeadline, Tick, vars, ClockStep
    <3>3. extClosed => extClosed'
      BY Zenon, <1>11 DEF OpenCallbackReturn, ExternalClose, ExternalDeadline, Tick, vars
    <3> QED
      BY <3>1, <3>2, <3>3
  <2>2. SnapshotTaken' <=> SnapshotTaken
    BY <2>1 DEF SnapshotTaken
  <2> QED
    BY <1>a, <2>1, <2>2, SampleFrame
<1> QED
  BY <1>1, <1>2, <1>3, <1>4, <1>5, <1>6, <1>7, <1>8, <1>10, <1>11, SMTT(20) DEF Next, Step

\* The samples are as described, always.
THEOREM SamplesKept == Spec => []SampleInv
<1>1. Init => SampleInv
  <2> SUFFICES ASSUME Init PROVE SampleInv
    OBVIOUS
  <2>1. /\ 0 < now /\ now \in Nat /\ closeDone = "nil" /\ \A p \in Procs : pc[p] = "idle"
        /\ stats.ClosedAt = 0 /\ stats.InfoErr = "nil" /\ stats.ClosedInfo = NoInfo
    BY BoundsAssumption DEF Init, NoStats
  <2> QED
    BY <2>1 DEF SampleInv, SnapshotTaken, SnapPcs, SampledPcs
<1> QED
  BY <1>1, SampleStep, Inductive, PTL DEF Spec

\* A closed report has the statistics of a snapshot that has been taken.
LEMMA ReportedSample ==
  ASSUME IndInv, SampleInv, NEW i \in ClosedReports
  PROVE  reports[i].snap.stats = stats /\ KeptSample
<1>1. reports[i].snap.stats = stats /\ (closeDone = "closed" \/ \E p \in Procs : pc[p] \in ReportedPcs)
  BY DEF IndInv, ReportInv
<1>2. SnapshotTaken
  BY <1>1 DEF SnapshotTaken, ReportedPcs
<1> QED
  BY <1>1, <1>2 DEF SampleInv

\* The closed report's sample was taken before the wrapper closed the socket and not
\* before Close was called, as far as the wall clock tells.
THEOREM SamplesBeforeClose == Spec => []SampledBeforeClose
<1>1. IndInv /\ SampleInv => SampledBeforeClose
  <2> SUFFICES ASSUME IndInv, SampleInv, NEW i \in ClosedReports
               PROVE  LET s == reports[i].snap.stats IN
                      /\ s.InfoErr = "closed" => extClosed
                      /\ setup.steady /\ s.ClosedInfo # NoInfo => s.ClosedInfo >= s.ClosedAt
    BY Zenon DEF SampledBeforeClose
  <2>1. reports[i].snap.stats = stats /\ KeptSample /\ (stats.InfoErr = "closed" => extClosed)
    BY Zenon, ReportedSample DEF SampleInv
  <2>2. stats.ClosedInfo \in Nat /\ stats.ClosedAt \in Nat
    BY Typed DEF IndInv
  <2> QED
    BY <2>1, <2>2 DEF KeptSample
<1> QED
  BY <1>1, SamplesKept, Inductive, PTL

\* A closed report without its sample says why, and never invents an error.
THEOREM MissingSamplesExplained == Spec => []MissingSampleExplained
<1>1. IndInv /\ SampleInv => MissingSampleExplained
  BY Zenon, ReportedSample DEF MissingSampleExplained, KeptSample, Explained, Sampling
<1> QED
  BY <1>1, SamplesKept, Inductive, PTL

-----------------------------------------------------------------------------
\* The bytes a raw Read or Write of direction d has moved and its goroutine has
\* not entered in the statistics yet, one element for each.
Unaccounted(d) ==
  UNION {{p} \X (1 .. io[p].n) : p \in {q \in Procs : pc[q] = "account" /\ io[q].dir = d}}

\* No byte is lost or counted twice on its way into the statistics.
BytesInv ==
  \A d \in Dirs : /\ IsFiniteSet(Unaccounted(d))
                  /\ moved[d] = stats.Bytes[d] + Cardinality(Unaccounted(d))

\* n bytes of one goroutine are n elements.
LEMMA BlockSize ==
  ASSUME NEW p, NEW n \in Nat
  PROVE  IsFiniteSet({p} \X (1 .. n)) /\ Cardinality({p} \X (1 .. n)) = n
<1> DEFINE P == {p}
           I == 1 .. n
<1>1. IsFiniteSet(P) /\ Cardinality(P) = 1
  BY Zenon, FS_Singleton
<1>2. IsFiniteSet(I) /\ Cardinality(I) = n
  BY FS_Interval
<1> HIDE DEF P, I
<1>3. IsFiniteSet(P \X I) /\ Cardinality(P \X I) = Cardinality(P) * Cardinality(I)
  BY <1>1, <1>2, FS_Product
<1>4. IsFiniteSet(P \X I) /\ Cardinality(P \X I) = n
  BY <1>1, <1>2, <1>3
<1> QED
  BY <1>4 DEF P, I

\* A finite set grows by the size of a block it has nothing in common with.
LEMMA AddBlock ==
  ASSUME NEW S, IsFiniteSet(S), NEW p, NEW n \in Nat, NEW T,
         T = S \cup ({p} \X (1 .. n)), \A k \in 1 .. n : <<p, k>> \notin S
  PROVE  IsFiniteSet(T) /\ Cardinality(T) = Cardinality(S) + n
<1> DEFINE B == {p} \X (1 .. n)
<1>1. IsFiniteSet(B) /\ Cardinality(B) = n
  BY Zenon, BlockSize
<1>2. Cardinality(S \cap B) = 0
  <2>1. S \cap B = {}
    OBVIOUS
  <2> QED
    BY <2>1, FS_EmptySet
<1>3. Cardinality(S) \in Nat
  BY FS_CardinalityType
<1> HIDE DEF B
<1>4. IsFiniteSet(S \cup B) /\ Cardinality(S \cup B) = Cardinality(S) + Cardinality(B) - Cardinality(S \cap B)
  BY <1>1, FS_Union
<1>5. IsFiniteSet(S \cup B) /\ Cardinality(S \cup B) = Cardinality(S) + n
  BY <1>1, <1>2, <1>3, <1>4
<1> QED
  BY <1>5 DEF B

\* A step that moves and enters no bytes.
LEMMA BytesFrame ==
  ASSUME BytesInv, moved' = moved, stats'.Bytes = stats.Bytes,
         \A q \in Procs : pc'[q] = "account" <=> pc[q] = "account",
         \A q \in Procs : pc[q] = "account" => io'[q] = io[q]
  PROVE  BytesInv'
<1>1. ASSUME NEW d \in Dirs PROVE Unaccounted(d)' = Unaccounted(d)
  BY DEF Unaccounted
<1> QED
  BY Zenon, <1>1 DEF BytesInv

\* The steps other than the return of a raw call and its accounting move and enter
\* no bytes.
LEMMA BytesOthers ==
  ASSUME TypeOK, [Next]_vars
  PROVE  \/ \E p \in Procs : IOReturn(p) \/ Account(p)
         \/ /\ moved' = moved
            /\ \A q \in Procs : pc'[q] = "account" <=> pc[q] = "account"
            /\ \A q \in Procs : pc[q] = "account" => io'[q] = io[q]
<1> USE DEF wrapVars, lifeVars, statVars, procVars, rawVars, Goto, Call
<1> DEFINE Goal == /\ moved' = moved
                   /\ \A q \in Procs : pc'[q] = "account" <=> pc[q] = "account"
                   /\ \A q \in Procs : pc[q] = "account" => io'[q] = io[q]
<1>a. pc \in [Procs -> Pcs] /\ io \in [Procs -> [dir : Dirs, n : Nat, err : IOErrs]]
  BY SMTT(30) DEF TypeOK, Pcs
<1>1. CASE UNCHANGED <<pc, io, moved>>
  BY <1>1
<1>2. ASSUME NEW p \in Procs, NEW l, l # "account", pc[p] # "account", moved' = moved,
             Goto(p, l), UNCHANGED io
      PROVE  Goal
  BY <1>2, <1>a
<1>3. ASSUME NEW p \in Procs, NEW d \in Dirs, BeginIO(p, d) PROVE Goal
  BY <1>3, <1>a DEF BeginIO
<1>4. ASSUME NEW p \in Procs, FinishIO(p) PROVE Goal
  BY Zenon, <1>4, <1>a DEF FinishIO
<1>5. ASSUME NEW p \in Procs, CloseBegin(p) \/ CloseJoin(p) PROVE Goal
  BY <1>5, <1>2 DEF CloseBegin, CloseJoin
<1>6. ASSUME NEW p \in Procs, CloseAwait(p) \/ CloseReread(p) \/ CloseCollect(p) \/ CloseRaw(p) PROVE Goal
  BY <1>6, <1>2 DEF CloseAwait, CloseReread, CloseCollect, CloseRaw
<1>7. ASSUME NEW p \in Procs, CloseDetach(p) \/ CloseWake(p) PROVE Goal
  BY <1>7, <1>2, SMTT(20) DEF CloseDetach, CloseWake, DrainOrSnapshot
<1>8. ASSUME NEW p \in Procs, CloseReport(p) \/ CallbackReturn(p) \/ CloseSignal(p) PROVE Goal
  BY ZenonT(30), <1>8, <1>2 DEF CloseReport, CallbackReturn, CloseSignal
<1>9. ASSUME NEW p \in Procs, DeadlineBegin(p) \/ DeadlineApply(p) PROVE Goal
  BY Zenon, <1>9, <1>2 DEF DeadlineBegin, DeadlineApply
<1>0. ASSUME \/ WrapConn \/ OpenCallbackReturn \/ ExternalClose \/ ExternalDeadline \/ Tick
             \/ UNCHANGED vars
      PROVE  Goal
  BY Zenon, <1>0, <1>1 DEF WrapConn, OpenCallbackReturn, ExternalClose, ExternalDeadline, Tick, vars
<1>10. ASSUME NEW p \in Procs, CloseNoConn(p) \/ \E k \in 0 .. MaxReconnects : SetReconnects(p, k)
       PROVE  Goal
  BY Zenon, <1>10, <1>1 DEF CloseNoConn, SetReconnects
<1> HIDE DEF Goal
<1>11. Goal \/ \E p \in Procs : IOReturn(p) \/ Account(p)
  BY Zenon, <1>0, <1>3, <1>4, <1>5, <1>6, <1>7, <1>8, <1>9, <1>10 DEF Next, Step
<1> QED
  BY <1>11 DEF Goal

\* Every step keeps count of the bytes.
LEMMA BytesStep == TypeOK /\ BytesInv /\ [Next]_vars => BytesInv'
<1> SUFFICES ASSUME TypeOK, BytesInv, [Next]_vars PROVE BytesInv'
  BY Zenon
<1>a. /\ pc \in [Procs -> Pcs] /\ io \in [Procs -> [dir : Dirs, n : Nat, err : IOErrs]]
      /\ moved \in [Dirs -> Nat] /\ MaxBytes \in Nat
  BY BoundsAssumption, SMTT(30) DEF TypeOK, Pcs
<1>b. \A d \in Dirs : /\ stats.Bytes[d] \in Nat /\ Cardinality(Unaccounted(d)) \in Nat
  BY Zenon, Typed, FS_CardinalityType DEF BytesInv
<1>1. ASSUME NEW p \in Procs, IOReturn(p) PROVE BytesInv'
  <2>d. PICK d \in Dirs : d = io[p].dir
    BY <1>a
  <2>0. PICK n \in 0 .. (MaxBytes - moved[d]), e \in IOErrs :
          /\ io' = [io EXCEPT ![p] = [dir |-> d, n |-> n, err |-> e]]
          /\ moved' = [moved EXCEPT ![d] = @ + n]
    BY Zenon, <1>1, <2>d DEF IOReturn
  <2>1. /\ n \in Nat /\ io'[p].dir = d /\ io'[p].n = n
        /\ moved' = [moved EXCEPT ![d] = @ + n]
    BY <2>0, <1>a
  <2>2. /\ stats' = stats /\ pc[p] = "io" /\ pc'[p] = "account"
        /\ \A q \in Procs : q # p => pc'[q] = pc[q] /\ io'[q] = io[q]
    BY Zenon, <1>1, <1>a DEF IOReturn, Goto, statVars
  <2>3. /\ Unaccounted(d)' = Unaccounted(d) \cup ({p} \X (1 .. n))
        /\ \A k \in 1 .. n : <<p, k>> \notin Unaccounted(d)
    BY <2>1, <2>2 DEF Unaccounted
  <2>4. \A x \in Dirs : x # d => Unaccounted(x)' = Unaccounted(x)
    BY Zenon, <2>1, <2>2, <2>d DEF Unaccounted
  <2>5. /\ IsFiniteSet(Unaccounted(d)')
        /\ Cardinality(Unaccounted(d)') = Cardinality(Unaccounted(d)) + n
    <3>1. IsFiniteSet(Unaccounted(d))
      BY DEF BytesInv
    <3>2. n \in Nat
      BY <2>1
    <3> QED
      BY ZenonT(30), <2>3, <3>1, <3>2, AddBlock
  <2>6. moved'[d] = moved[d] + n /\ \A x \in Dirs : x # d => moved'[x] = moved[x]
    BY Zenon, <2>1, <2>2, <1>a
  <2>7. moved'[d] = stats'.Bytes[d] + Cardinality(Unaccounted(d)')
    <3>1. moved[d] = stats.Bytes[d] + Cardinality(Unaccounted(d))
      BY Zenon DEF BytesInv
    <3>2. stats'.Bytes[d] = stats.Bytes[d]
      BY Zenon, <2>2
    <3>3. n \in Nat
      BY Zenon, <2>1
    <3> QED
      BY <1>b, <2>5, <2>6, <3>1, <3>2, <3>3
  <2> QED
    <3>1. \A x \in Dirs : x # d => /\ IsFiniteSet(Unaccounted(x)')
                                   /\ moved'[x] = stats'.Bytes[x] + Cardinality(Unaccounted(x)')
      BY Zenon, <2>2, <2>4, <2>6 DEF BytesInv
    <3> QED
      BY <2>5, <2>7, <3>1, Zenon DEF BytesInv
<1>2. ASSUME NEW p \in Procs, Account(p) PROVE BytesInv'
  <2>1. PICK d \in Dirs, n \in Nat : d = io[p].dir /\ n = io[p].n /\ io[p].err \in IOErrs
    BY <1>a
  <2>2. /\ moved' = moved /\ pc[p] = "account" /\ pc'[p] = "finish" /\ io' = io
        /\ \A q \in Procs : q # p => pc'[q] = pc[q]
    BY <1>2, <1>a, SMTT(20) DEF Account, Goto, rawVars
  <2>3. \A x \in Dirs : stats'.Bytes[x] = (IF x = d THEN stats.Bytes[x] + n ELSE stats.Bytes[x])
    <3>1. stats' = RecordIO(stats, d, n, io[p].err)
      BY Zenon, <1>2, <2>1 DEF Account
    <3>2. stats \in StatsType /\ now \in Nat /\ io[p].err \in IOErrs
      BY Zenon, <2>1, Typed
    <3>3. \A x \in Dirs : RecordIO(stats, d, n, io[p].err).Bytes[x] =
                           (IF x = d THEN stats.Bytes[x] + n ELSE stats.Bytes[x])
      BY <3>2, RecordBytes
    <3> QED
      BY Zenon, <3>1, <3>3
  <2>4. /\ Unaccounted(d) = Unaccounted(d)' \cup ({p} \X (1 .. n))
        /\ \A k \in 1 .. n : <<p, k>> \notin Unaccounted(d)'
    BY <2>1, <2>2 DEF Unaccounted
  <2>5. \A x \in Dirs : x # d => Unaccounted(x)' = Unaccounted(x)
    BY Zenon, <2>1, <2>2 DEF Unaccounted
  <2>6. IsFiniteSet(Unaccounted(d)')
    BY Zenon, <2>1, <2>4, FS_Subset DEF BytesInv
  <2>7. Cardinality(Unaccounted(d)') \in Nat
    BY <2>6, FS_CardinalityType
  <2>8. Cardinality(Unaccounted(d)) = Cardinality(Unaccounted(d)') + n
    BY Zenon, <2>1, <2>4, <2>6, AddBlock
  <2> QED
    <3>1. \A x \in Dirs : x # d => /\ IsFiniteSet(Unaccounted(x)')
                                   /\ moved'[x] = stats'.Bytes[x] + Cardinality(Unaccounted(x)')
      BY Zenon, <2>2, <2>3, <2>5 DEF BytesInv
    <3>2. stats'.Bytes[d] = stats.Bytes[d] + n /\ moved'[d] = moved[d]
      BY Zenon, <2>2, <2>3
    <3>3. moved[d] = stats.Bytes[d] + Cardinality(Unaccounted(d))
      BY Zenon DEF BytesInv
    <3>4. moved'[d] = stats'.Bytes[d] + Cardinality(Unaccounted(d)')
      BY <1>b, <2>7, <2>8, <3>2, <3>3
    <3> QED
      BY Zenon, <2>6, <3>1, <3>4 DEF BytesInv
<1>3. CASE ~\E p \in Procs : IOReturn(p) \/ Account(p)
  <2>1. stats'.Bytes = stats.Bytes
    BY Zenon, <1>3, StatsChange
  <2> QED
    BY Zenon, <1>3, <2>1, BytesOthers, BytesFrame
<1> QED
  BY <1>1, <1>2, <1>3

\* The bytes of the statistics are those the raw connection moved, less the ones
\* whose Read or Write has not come to its accounting.
THEOREM BytesCounted == Spec => []BytesInv
<1>1. Init => BytesInv
  <2> SUFFICES ASSUME Init PROVE BytesInv
    OBVIOUS
  <2>1. \A d \in Dirs : Unaccounted(d) = {} /\ moved[d] = 0 /\ stats.Bytes[d] = 0
    BY DEF Init, Unaccounted, NoStats
  <2> QED
    BY <2>1, FS_EmptySet DEF BytesInv
<1> QED
  BY <1>1, BytesStep, TypeCorrect, PTL DEF Spec

\* The closed report counts every byte the raw connection ever moved for a Read or
\* Write of the wrapper, whatever was in flight when Close was called.
THEOREM ReportIsComplete == Spec => []ReportComplete
<1>1. IndInv /\ BytesInv => ReportComplete
  <2> SUFFICES ASSUME IndInv, BytesInv, NEW i \in ClosedReports
               PROVE  reports[i].snap.stats.Bytes = moved
    BY DEF ReportComplete
  <2>1. reports[i].snap.stats = stats /\ SnapshotTaken
    BY Zenon DEF IndInv, ReportInv, SnapshotTaken, ReportedPcs
  <2>2. InIO = {}
    BY <2>1, InIOFinite, FS_EmptySet DEF IndInv, CountInv, InFlightExact
  <2>3. \A d \in Dirs : Unaccounted(d) = {}
    BY Zenon, <2>2 DEF Unaccounted, InIO, IOPcs
  <2>4. \A d \in Dirs : moved[d] = stats.Bytes[d]
    BY <2>3, FS_EmptySet, Typed DEF BytesInv, IndInv
  <2>5. stats.Bytes \in [Dirs -> Nat] /\ moved \in [Dirs -> Nat]
    BY Zenon DEF IndInv, TypeOK, StatsType
  <2> QED
    BY <2>1, <2>4, <2>5
<1> QED
  BY <1>1, Inductive, BytesCounted, PTL
=============================================================================
