-------------------------------- MODULE Conn --------------------------------
(***************************************************************************)
(* The connection wrapper of wrap.go: one *Conn shared by the goroutines   *)
(* Procs, over one raw net.Conn.  Every critical section of the wrapper's  *)
(* mutex is one action; whatever runs with the mutex released (the raw     *)
(* Read, Write and Close, the getsockopt, the user's callback, the wait    *)
(* for the done channel or the condition variable) lies between actions.   *)
(*                                                                         *)
(* Read and Write are the same code over different fields: Dirs indexes    *)
(* the Rx and the Tx half of the statistics.                               *)
(***************************************************************************)
EXTENDS Integers, Sequences, FiniteSets

CONSTANTS
  Procs,          \* goroutines that call methods of the wrapper
  Setups,         \* how WrapConn is called: raw connection, options, platform
  DeadlineCalls,  \* halves a deadline call may cover: Read, Write or both
  MaxBytes,       \* bound: bytes moved in one direction
  MaxTime,        \* bound: last reading of the wall clock
  MaxReconnects   \* bound: values passed to SetReconnects

Dirs == {"rx", "tx"}

Kinds == {"tcp", "other", "nil"}

\* kind: a *net.TCPConn, another net.Conn, or nil; supported: the result of
\* tcpinfo.Supported(); report: a callback was given; emitOpen: what the
\* options, applied in order, leave in emitOpenCallback; steady: the wall clock,
\* which all stamps are readings of, is not set back while the connection lives.
Setup == [kind : Kinds, supported : BOOLEAN, report : BOOLEAN, emitOpen : BOOLEAN,
          steady : BOOLEAN]

ASSUME ProcsAssumption == IsFiniteSet(Procs)

ASSUME SetupsAssumption == Setups \subseteq Setup

ASSUME DeadlineAssumption == DeadlineCalls \subseteq SUBSET Dirs

ASSUME BoundsAssumption ==
  MaxBytes \in Nat /\ MaxTime \in Nat /\ MaxReconnects \in Nat

VARIABLES
  setup, phase,              \* the call of WrapConn and how far it is
  conn,                      \* w.Conn # nil
  closeStarted, closeDone, closeErr, inFlight,
  stats, Reconnects,         \* the reported fields
  pc, io, cl, ret,           \* per goroutine: control, locals, result of Close
  extClosed, rawCloses, deadline, moved,   \* the raw connection
  reports,                   \* callbacks made so far, with their snapshots
  now                        \* the wall clock

wrapVars == <<setup, phase>>
lifeVars == <<conn, closeStarted, closeDone, closeErr>>
statVars == <<inFlight, stats, Reconnects>>
procVars == <<pc, io, cl, ret>>
rawVars == <<extClosed, rawCloses, deadline, moved>>
vars == <<wrapVars, lifeVars, statVars, procVars, rawVars, reports, now>>

-----------------------------------------------------------------------------
\* Errors, as far as the wrapper tells them apart: a net.Error that is a
\* timeout, any other net.Error, and an error that is no net.Error (io.EOF).
IOErrs == {"nil", "timeout", "neterr", "plain"}

CloseErrs == {"nil", "neterr", "ErrClosed"}

\* InfoErr: "closed" when the descriptor was closed before the getsockopt,
\* "sys" when a system call failed.
InfoErrs == {"nil", "closed", "sys"}

\* A tcpinfo sample stands for the time it was taken at; 0 is a nil *Info.
NoInfo == 0

NoIO == [dir |-> "rx", n |-> 0, err |-> "nil"]

NoStats == [OpenedAt |-> 0, ClosedAt |-> 0,
            FirstAt |-> [d \in Dirs |-> 0], LastAt |-> [d \in Dirs |-> 0],
            Bytes |-> [d \in Dirs |-> 0], Err |-> [d \in Dirs |-> "nil"],
            InfoErr |-> "nil", OpenedInfo |-> NoInfo, ClosedInfo |-> NoInfo]

NoSnapshot == [stats |-> NoStats, reconnects |-> 0]

NoClose == [err |-> "nil", info |-> NoInfo, infoErr |-> "nil", snap |-> NoSnapshot]

StatsType == [OpenedAt : Nat, ClosedAt : Nat,
              FirstAt : [Dirs -> Nat], LastAt : [Dirs -> Nat],
              Bytes : [Dirs -> Nat], Err : [Dirs -> IOErrs],
              InfoErr : InfoErrs, OpenedInfo : Nat, ClosedInfo : Nat]

SnapshotType == [stats : StatsType, reconnects : Nat]

ReportType == [state : {"Opened", "Closed"}, snap : SnapshotType]

CloseType == [err : CloseErrs, info : Nat, infoErr : InfoErrs, snap : SnapshotType]

\* Where a goroutine can be: between beginIO and the end of finishIO, in
\* Close as the goroutine that closes, in Close waiting for that goroutine.
IOPcs == {"io", "account", "finish"}
SnapPcs == {"report", "callback", "panicking", "signal"}
CloserPcs == {"collect", "rawclose", "detach", "waiting", "woken"} \cup SnapPcs
WaiterPcs == {"await", "reread"}

TypeOK ==
  /\ setup \in Setups
  /\ phase \in {"collect", "opencallback", "shared"}
  /\ conn \in BOOLEAN /\ closeStarted \in BOOLEAN
  /\ closeDone \in {"nil", "made", "closed"}
  /\ closeErr \in CloseErrs
  /\ inFlight \in Nat
  /\ stats \in StatsType
  /\ Reconnects \in Nat
  /\ pc \in [Procs -> {"idle", "deadline"} \cup IOPcs \cup CloserPcs \cup WaiterPcs]
  /\ io \in [Procs -> [dir : Dirs, n : Nat, err : IOErrs]]
  /\ cl \in [Procs -> CloseType]
  /\ ret \in [Procs -> CloseErrs \cup {"none", "panic"}]
  /\ extClosed \in BOOLEAN /\ rawCloses \in Nat
  /\ deadline \in [Dirs -> BOOLEAN] /\ moved \in [Dirs -> Nat]
  /\ reports \in Seq(ReportType)
  /\ now \in Nat

RawClosed == extClosed \/ rawCloses > 0

InIO == {p \in Procs : pc[p] \in IOPcs}

InDeadline == {p \in Procs : pc[p] = "deadline"}

Goto(p, l) == pc' = [pc EXCEPT ![p] = l]

-----------------------------------------------------------------------------
\* collectTCPInfo: what one collection can return.  GetTCPInfo may return a
\* sample together with an error.
CollectTCPInfo ==
  IF ~setup.supported \/ setup.kind # "tcp" THEN {[info |-> NoInfo, err |-> "nil"]}
  ELSE IF RawClosed THEN {[info |-> NoInfo, err |-> "closed"]}
  ELSE {[info |-> NoInfo, err |-> "sys"], [info |-> now, err |-> "nil"],
        [info |-> now, err |-> "sys"]}

\* Mutant: an error without a sample is not kept.
ApplyDropsError(s, state, info, err) ==
  [s EXCEPT
     !.OpenedInfo = IF state = "Opened" /\ info # NoInfo THEN info ELSE @,
     !.ClosedInfo = IF state = "Closed" /\ info # NoInfo THEN info ELSE @,
     !.InfoErr = IF info # NoInfo THEN err ELSE @]

\* applyTCPInfoLocked on the statistics s.
ApplyTCPInfo(s, state, info, err) ==
  [s EXCEPT
     !.OpenedInfo = IF state = "Opened" /\ info # NoInfo THEN info ELSE @,
     !.ClosedInfo = IF state = "Closed" /\ info # NoInfo THEN info ELSE @,
     !.InfoErr = IF info # NoInfo \/ err # "nil" THEN err ELSE @]

\* Mutant: Reconnects is not copied.
SnapshotWithoutReconnects(s) == [stats |-> s, reconnects |-> 0]

\* snapshotLocked: a copy of the reported fields.
SnapshotOf(s) == [stats |-> s, reconnects |-> Reconnects]

Init ==
  /\ setup \in Setups
  /\ phase = "collect"
  /\ conn = (setup.kind # "nil")
  /\ closeStarted = FALSE /\ closeDone = "nil" /\ closeErr = "nil"
  /\ inFlight = 0
  /\ now \in 1 .. MaxTime
  /\ stats = [NoStats EXCEPT !.OpenedAt = now]
  /\ Reconnects = 0
  /\ pc = [p \in Procs |-> "idle"]
  /\ io = [p \in Procs |-> NoIO]
  /\ cl = [p \in Procs |-> NoClose]
  /\ ret = [p \in Procs |-> "none"]
  /\ extClosed = FALSE /\ rawCloses = 0
  /\ deadline = [d \in Dirs |-> FALSE]
  /\ moved = [d \in Dirs |-> 0]
  /\ reports = <<>>

\* WrapConnWithContext from collectTCPInfo on, and reportState for Opened.
\* Nobody else has the wrapper yet, so collecting, applying the sample and
\* taking the snapshot are one step; the callback runs before w is returned.
WrapConn ==
  /\ phase = "collect"
  /\ \E r \in CollectTCPInfo :
       LET s == ApplyTCPInfo(stats, "Opened", r.info, r.err) IN
       /\ stats' = s
       /\ IF setup.emitOpen /\ setup.report
          THEN /\ phase' = "opencallback"
               /\ reports' = Append(reports, [state |-> "Opened", snap |-> SnapshotOf(s)])
          ELSE phase' = "shared" /\ UNCHANGED reports
  /\ UNCHANGED <<setup, lifeVars, inFlight, Reconnects, procVars, rawVars, now>>

OpenCallbackReturn ==
  /\ phase = "opencallback"
  /\ phase' = "shared"
  /\ UNCHANGED <<setup, lifeVars, statVars, procVars, rawVars, reports, now>>

-----------------------------------------------------------------------------
\* A method of the wrapper is called by a goroutine with nothing else to do.
Call(p) == phase = "shared" /\ pc[p] = "idle"

\* beginIO, entered from Read ("rx") or Write ("tx"): refused once Close has
\* started.
BeginIO(p, d) ==
  /\ Call(p)
  /\ ~closeStarted /\ conn
  /\ inFlight' = inFlight + 1
  /\ io' = [io EXCEPT ![p] = [NoIO EXCEPT !.dir = d]]
  /\ Goto(p, "io")
  /\ UNCHANGED <<wrapVars, lifeVars, stats, Reconnects, cl, ret, rawVars, reports, now>>

\* The raw Read or Write returns, with any count and error net.Conn allows; a
\* timeout needs a deadline.  While it is open the raw connection may also
\* block for ever, so no fairness is assumed of this action before RawClosed.
IOReturn(p) ==
  /\ pc[p] = "io"
  /\ LET d == io[p].dir IN
     \E n \in 0 .. (MaxBytes - moved[d]), e \in IOErrs :
       /\ e = "timeout" => deadline[d]
       /\ io' = [io EXCEPT ![p] = [dir |-> d, n |-> n, err |-> e]]
       /\ moved' = [moved EXCEPT ![d] = @ + n]
  /\ Goto(p, "account")
  /\ UNCHANGED <<wrapVars, lifeVars, statVars, cl, ret, extClosed, rawCloses, deadline, reports, now>>

\* Mutants: bytes that come with an error are lost; the last time stamp is set
\* also by a failure.
RecordOnSuccess(s, d, n, err) ==
  IF err = "nil" THEN [s EXCEPT !.Bytes[d] = @ + n] ELSE s

RecordStampsFailures(s, d, n, err) ==
  [s EXCEPT
     !.FirstAt[d] = IF err = "nil" /\ n > 0 /\ @ = 0 THEN now ELSE @,
     !.LastAt[d] = now,
     !.Bytes[d] = @ + n]

\* What Read and Write enter in the statistics for n bytes and the error err.
RecordIO(s, d, n, err) ==
  LET ok == err = "nil" /\ n > 0 IN
  [s EXCEPT
     !.FirstAt = [s.FirstAt EXCEPT ![d] = IF ok /\ @ = 0 THEN now ELSE @],
     !.LastAt = [s.LastAt EXCEPT ![d] = IF ok THEN now ELSE @],
     !.Bytes = [s.Bytes EXCEPT ![d] = @ + n],
     !.Err = [s.Err EXCEPT ![d] = IF err = "neterr" THEN err ELSE @]]

\* The first critical section after the raw call.
Account(p) ==
  /\ pc[p] = "account"
  /\ stats' = RecordIO(stats, io[p].dir, io[p].n, io[p].err)
  /\ Goto(p, "finish")
  /\ UNCHANGED <<wrapVars, lifeVars, inFlight, Reconnects, io, cl, ret, rawVars, reports, now>>

\* Mutant: no broadcast.
FinishSilently(p) ==
  /\ pc[p] = "finish"
  /\ inFlight' = inFlight - 1
  /\ Goto(p, "idle")
  /\ io' = [io EXCEPT ![p] = NoIO]
  /\ UNCHANGED <<wrapVars, lifeVars, stats, Reconnects, cl, ret, rawVars, reports, now>>

\* finishIO, the second one: the last I/O after Close has started wakes the
\* goroutine waiting on ioDrained.
FinishIO(p) ==
  /\ pc[p] = "finish"
  /\ LET left == inFlight - 1 IN
     /\ inFlight' = IF left < 0 THEN 0 ELSE left
     /\ pc' = [q \in Procs |->
                 IF q = p THEN "idle"
                 ELSE IF closeStarted /\ left = 0 /\ pc[q] = "waiting" THEN "woken"
                 ELSE pc[q]]
  /\ io' = [io EXCEPT ![p] = NoIO]
  /\ UNCHANGED <<wrapVars, lifeVars, stats, Reconnects, cl, ret, rawVars, reports, now>>

-----------------------------------------------------------------------------
\* Mutant: closeDone is not published to the other goroutines.
CloseBeginUnshared(p) ==
  /\ Call(p)
  /\ closeDone = "nil" /\ conn
  /\ closeStarted' = TRUE
  /\ stats' = [stats EXCEPT !.ClosedAt = now]
  /\ Goto(p, "collect")
  /\ ret' = [ret EXCEPT ![p] = "none"]
  /\ UNCHANGED <<wrapVars, conn, closeDone, closeErr, inFlight, Reconnects, io, cl, rawVars, reports, now>>

\* Mutant: a second Close does not wait for the first.
CloseJoinAtOnce(p) ==
  /\ Call(p)
  /\ closeDone # "nil"
  /\ ret' = [ret EXCEPT ![p] = closeErr]
  /\ UNCHANGED <<wrapVars, lifeVars, statVars, pc, io, cl, rawVars, reports, now>>

\* Close, first critical section: the goroutine that finds closeDone nil and a
\* connection closes it ...
CloseBegin(p) ==
  /\ Call(p)
  /\ closeDone = "nil" /\ conn
  /\ closeStarted' = TRUE
  /\ closeDone' = "made"
  /\ stats' = [stats EXCEPT !.ClosedAt = now]
  /\ Goto(p, "collect")
  /\ ret' = [ret EXCEPT ![p] = "none"]
  /\ UNCHANGED <<wrapVars, conn, closeErr, inFlight, Reconnects, io, cl, rawVars, reports, now>>

\* ... one that finds closeDone set waits for it ...
CloseJoin(p) ==
  /\ Call(p)
  /\ closeDone # "nil"
  /\ Goto(p, "await")
  /\ ret' = [ret EXCEPT ![p] = "none"]
  /\ UNCHANGED <<wrapVars, lifeVars, statVars, io, cl, rawVars, reports, now>>

\* ... and one that finds neither (WrapConn was given nil) returns at once.
CloseNoConn(p) ==
  /\ Call(p)
  /\ closeDone = "nil" /\ ~conn
  /\ ret' = [ret EXCEPT ![p] = IF closeErr # "nil" THEN closeErr ELSE "ErrClosed"]
  /\ UNCHANGED <<wrapVars, lifeVars, statVars, pc, io, cl, rawVars, reports, now>>

\* The receive from the done channel, and the critical section after it.
CloseAwait(p) ==
  /\ pc[p] = "await"
  /\ closeDone = "closed"
  /\ Goto(p, "reread")
  /\ UNCHANGED <<wrapVars, lifeVars, statVars, io, cl, ret, rawVars, reports, now>>

CloseReread(p) ==
  /\ pc[p] = "reread"
  /\ ret' = [ret EXCEPT ![p] = closeErr]
  /\ Goto(p, "idle")
  /\ UNCHANGED <<wrapVars, lifeVars, statVars, io, cl, rawVars, reports, now>>

\* collectTCPInfo while the raw connection is still open.
CloseCollect(p) ==
  /\ pc[p] = "collect"
  /\ \E r \in CollectTCPInfo :
       cl' = [cl EXCEPT ![p].info = r.info, ![p].infoErr = r.err]
  /\ Goto(p, "rawclose")
  /\ UNCHANGED <<wrapVars, lifeVars, statVars, io, ret, rawVars, reports, now>>

\* conn.Close(), which fails if the raw connection was closed behind the
\* wrapper's back and may fail anyway.
CloseRaw(p) ==
  /\ pc[p] = "rawclose"
  /\ \E e \in IF extClosed THEN {"neterr"} ELSE {"nil", "neterr"} :
       cl' = [cl EXCEPT ![p].err = e]
  /\ rawCloses' = rawCloses + 1
  /\ Goto(p, "detach")
  /\ UNCHANGED <<wrapVars, lifeVars, statVars, io, ret, extClosed, deadline, moved, reports, now>>

\* Mutant: the snapshot does not wait for the I/O in flight.
SnapshotNow(p) ==
  LET s == ApplyTCPInfo(stats, "Closed", cl[p].info, cl[p].infoErr) IN
  /\ stats' = s
  /\ cl' = [cl EXCEPT ![p].snap = SnapshotOf(s)]
  /\ Goto(p, "report")

\* The drain loop: wait on ioDrained while I/O is in flight, otherwise apply
\* the sample and take the snapshot in the same critical section.
DrainOrSnapshot(p) ==
  IF inFlight > 0
  THEN Goto(p, "waiting") /\ UNCHANGED <<stats, cl>>
  ELSE LET s == ApplyTCPInfo(stats, "Closed", cl[p].info, cl[p].infoErr) IN
       /\ stats' = s
       /\ cl' = [cl EXCEPT ![p].snap = SnapshotOf(s)]
       /\ Goto(p, "report")

CloseDetach(p) ==
  /\ pc[p] = "detach"
  /\ closeErr' = cl[p].err
  /\ conn' = FALSE
  /\ DrainOrSnapshot(p)
  /\ UNCHANGED <<wrapVars, closeStarted, closeDone, inFlight, Reconnects, io, ret, rawVars, reports, now>>

CloseWake(p) ==
  /\ pc[p] = "woken"
  /\ DrainOrSnapshot(p)
  /\ UNCHANGED <<wrapVars, lifeVars, inFlight, Reconnects, io, ret, rawVars, reports, now>>

\* The callback is made, if there is one, with the mutex released.
CloseReport(p) ==
  /\ pc[p] = "report"
  /\ IF setup.report
     THEN /\ reports' = Append(reports, [state |-> "Closed", snap |-> cl[p].snap])
          /\ Goto(p, "callback")
     ELSE Goto(p, "signal") /\ UNCHANGED reports
  /\ UNCHANGED <<wrapVars, lifeVars, statVars, io, cl, ret, rawVars, now>>

\* The user's callback returns or panics; the deferred close(done) runs anyway.
CallbackReturn(p) ==
  /\ pc[p] = "callback"
  /\ \E l \in {"signal", "panicking"} : Goto(p, l)
  /\ UNCHANGED <<wrapVars, lifeVars, statVars, io, cl, ret, rawVars, reports, now>>

\* Mutant: close(done) is not deferred, so a panic skips it.
SignalUndeferred(p) ==
  /\ pc[p] \in {"signal", "panicking"}
  /\ closeDone' = IF pc[p] = "panicking" THEN closeDone ELSE "closed"
  /\ ret' = [ret EXCEPT ![p] = IF pc[p] = "panicking" THEN "panic" ELSE cl[p].err]
  /\ cl' = [cl EXCEPT ![p] = NoClose]
  /\ Goto(p, "idle")
  /\ UNCHANGED <<wrapVars, conn, closeStarted, closeErr, statVars, io, rawVars, reports, now>>

CloseSignal(p) ==
  /\ pc[p] \in {"signal", "panicking"}
  /\ closeDone' = "closed"
  /\ ret' = [ret EXCEPT ![p] = IF pc[p] = "panicking" THEN "panic" ELSE cl[p].err]
  /\ cl' = [cl EXCEPT ![p] = NoClose]
  /\ Goto(p, "idle")
  /\ UNCHANGED <<wrapVars, conn, closeStarted, closeErr, statVars, io, rawVars, reports, now>>

-----------------------------------------------------------------------------
SetReconnects(p, k) ==
  /\ Call(p)
  /\ Reconnects' = k
  /\ UNCHANGED <<wrapVars, lifeVars, inFlight, stats, procVars, rawVars, reports, now>>

\* Mutant: withLiveConn only looks at w.Conn.
DeadlineWhileClosing(p) ==
  /\ Call(p)
  /\ conn
  /\ DeadlineCalls # {}
  /\ Goto(p, "deadline")
  /\ UNCHANGED <<wrapVars, lifeVars, statVars, io, cl, ret, rawVars, reports, now>>

\* SetDeadline, SetReadDeadline, SetWriteDeadline: withLiveConn reads w.Conn
\* under the mutex and calls it after releasing it, so Close may come between.
DeadlineBegin(p) ==
  /\ Call(p)
  /\ ~closeStarted /\ conn
  /\ DeadlineCalls # {}
  /\ Goto(p, "deadline")
  /\ UNCHANGED <<wrapVars, lifeVars, statVars, io, cl, ret, rawVars, reports, now>>

DeadlineApply(p) ==
  /\ pc[p] = "deadline"
  /\ \E D \in DeadlineCalls, set \in BOOLEAN :
       deadline' = [d \in Dirs |-> IF d \in D /\ ~RawClosed THEN set ELSE deadline[d]]
  /\ Goto(p, "idle")
  /\ UNCHANGED <<wrapVars, lifeVars, statVars, io, cl, ret, extClosed, rawCloses, moved, reports, now>>

\* The owner of the raw connection, who handed it to WrapConn or got it from
\* the open callback's snapshot, closes it directly, or sets or clears its
\* deadlines.
ExternalClose ==
  /\ setup.kind # "nil"
  /\ ~RawClosed
  /\ extClosed' = TRUE
  /\ UNCHANGED <<wrapVars, lifeVars, statVars, procVars, rawCloses, deadline, moved, reports, now>>

ExternalDeadline ==
  /\ setup.kind # "nil"
  /\ ~RawClosed
  /\ \E D \in DeadlineCalls, set \in BOOLEAN :
       deadline' = [d \in Dirs |-> IF d \in D THEN set ELSE deadline[d]]
  /\ UNCHANGED <<wrapVars, lifeVars, statVars, procVars, extClosed, rawCloses, moved, reports, now>>

\* time.Now().UnixNano() is a reading of the wall clock, which goes on by any
\* amount and, unless it is steady, may also be set back.
Tick ==
  /\ now' \in (1 .. MaxTime) \ {now}
  /\ setup.steady => now' > now
  /\ UNCHANGED <<wrapVars, lifeVars, statVars, procVars, rawVars, reports>>

-----------------------------------------------------------------------------
\* What a goroutine inside a method does next without being called and
\* without waiting for the peer.
Step(p) ==
  \/ Account(p) \/ FinishIO(p)
  \/ CloseAwait(p) \/ CloseReread(p)
  \/ CloseCollect(p) \/ CloseRaw(p) \/ CloseDetach(p) \/ CloseWake(p)
  \/ CloseReport(p) \/ CallbackReturn(p) \/ CloseSignal(p)
  \/ DeadlineApply(p)

Next ==
  \/ WrapConn \/ OpenCallbackReturn
  \/ \E p \in Procs :
       \/ \E d \in Dirs : BeginIO(p, d)
       \/ IOReturn(p)
       \/ CloseBegin(p) \/ CloseJoin(p) \/ CloseNoConn(p)
       \/ \E k \in 0 .. MaxReconnects : SetReconnects(p, k)
       \/ DeadlineBegin(p)
       \/ Step(p)
  \/ ExternalClose \/ ExternalDeadline
  \/ Tick

Spec == Init /\ [][Next]_vars

\* A goroutine that can run does run, and the callback returns; the raw
\* connection's Close unblocks its Reads and Writes, as net.Conn demands.
Fairness ==
  \A p \in Procs : WF_vars(Step(p)) /\ WF_vars(RawClosed /\ IOReturn(p))

FairSpec == Spec /\ Fairness

-----------------------------------------------------------------------------
\* The closed reports made so far.
ClosedReports == {i \in DOMAIN reports : reports[i].state = "Closed"}

\* A snapshot for the closed report has been taken.
SnapshotTaken == closeDone = "closed" \/ \E p \in Procs : pc[p] \in SnapPcs

\* beginIO and finishIO count exactly the goroutines inside Read or Write, so
\* the count never falls below zero and finishIO's reset to zero is dead code.
InFlightExact == inFlight = Cardinality(InIO)

\* No wake-up of the drain loop in Close is lost: a goroutine that waits on
\* ioDrained still has an I/O to wait for, whose finishIO will broadcast.
NoLostWakeup == \A p \in Procs : pc[p] = "waiting" => inFlight > 0

\* "Close closes the underlying connection once": concurrent Close calls never
\* make two raw Close calls, and one has been made before any closed report.
ClosedOnce ==
  /\ rawCloses <= 1
  /\ Cardinality(ClosedReports) <= rawCloses

\* The closed report is final: no Read or Write is inside the wrapper once its
\* snapshot is taken, and the wrapper's statistics never again differ from
\* what the callback was given.
ReportFinal ==
  /\ SnapshotTaken => InIO = {}
  /\ \A i \in ClosedReports : reports[i].snap.stats = stats

\* The closed report is complete: it counts every byte that the raw connection
\* ever moved for a Read or Write of the wrapper, those that were still blocked
\* when Close was called included.
ReportComplete ==
  \A i \in ClosedReports : reports[i].snap.stats.Bytes = moved

\* Every Close of a wrapped connection returns the one error of the raw Close,
\* and none returns (or panics) before the callback is over.
CloseAgreement ==
  \A p \in Procs : ret[p] # "none" /\ setup.kind # "nil" =>
    /\ ret[p] \in {closeErr, "panic"}
    /\ closeDone = "closed"
    /\ setup.report => ClosedReports # {}
    /\ \A q \in Procs : pc[q] \notin CloserPcs

\* The time stamps of one direction tell a consistent story whatever the order
\* in which concurrent Reads (or Writes) reach the mutex: first and last are set
\* together and only when bytes were moved; and on a machine whose wall clock is
\* not set back meanwhile, opened <= first <= last <= now.  (The stamps are
\* UnixNano readings, so a clock that is set back does put them out of order.)
StampsOrdered ==
  \A d \in Dirs :
    /\ stats.FirstAt[d] = 0 <=> stats.LastAt[d] = 0
    /\ stats.LastAt[d] # 0 => stats.Bytes[d] > 0
    /\ setup.steady /\ stats.LastAt[d] # 0 =>
         /\ stats.OpenedAt <= stats.FirstAt[d]
         /\ stats.FirstAt[d] <= stats.LastAt[d]
         /\ stats.LastAt[d] <= now

\* "using TCP info captured immediately before close": Close samples the socket
\* before it closes it, so the closed report blames a closed descriptor only
\* when someone else closed the raw connection, and its sample is not older
\* than ClosedAt, as far as the wall clock is not set back between the two.
SampledBeforeClose ==
  \A i \in ClosedReports :
    LET s == reports[i].snap.stats IN
    /\ s.InfoErr = "closed" => extClosed
    /\ setup.steady /\ s.ClosedInfo # NoInfo => s.ClosedInfo >= s.ClosedAt

\* A closed report that lacks the close-time sample says why: on a supported
\* platform a TCP connection without ClosedInfo has InfoErr set, and where
\* nothing can be sampled no error is invented.
MissingSampleExplained ==
  \A i \in ClosedReports :
    LET s == reports[i].snap.stats IN
    IF setup.supported /\ setup.kind = "tcp"
    THEN s.ClosedInfo = NoInfo => s.InfoErr # "nil"
    ELSE s.InfoErr = "nil" /\ s.ClosedInfo = NoInfo

\* Once Close has started the wrapper only winds down: no Read, no Write and no
\* deadline call is admitted, the close time is settled, and the connection is
\* not attached again.  Once it is detached the error is settled as well, and a
\* deadline call that withLiveConn had let through before Close, and that now
\* reaches the raw connection late, changes no deadline.
WindsDown ==
  [][closeStarted =>
       /\ closeStarted'
       /\ InIO' \subseteq InIO /\ InDeadline' \subseteq InDeadline
       /\ conn' => conn
       /\ stats'.ClosedAt = stats.ClosedAt
       /\ ~conn => closeErr' = closeErr /\ deadline' = deadline]_vars

\* Every Close returns, also the ones that wait for another goroutine's Close,
\* and also when the callback panics.
CloseReturns ==
  \A p \in Procs : pc[p] \in CloserPcs \cup WaiterPcs ~> pc[p] = "idle"

-----------------------------------------------------------------------------
\* The inductive invariant behind the safety properties, part by part.
\* Nobody is inside a method before WrapConn has returned the wrapper.
PhaseInv == phase # "shared" => closeDone = "nil" /\ \A p \in Procs : pc[p] = "idle"

\* One goroutine at most closes; it does so while the done channel is open.
CloserInv ==
  /\ \A p, q \in Procs : pc[p] \in CloserPcs /\ pc[q] \in CloserPcs => p = q
  /\ closeStarted <=> closeDone # "nil"
  /\ closeDone = "made" <=> \E p \in Procs : pc[p] \in CloserPcs
  /\ \A p \in Procs : pc[p] \in WaiterPcs => closeDone # "nil"
  /\ \A p \in Procs : pc[p] = "reread" => closeDone = "closed"

\* The closer past the point where it sets closeErr and clears w.Conn, and
\* past the callback's start.
DetachedPcs == {"waiting", "woken"} \cup SnapPcs
ReportedPcs == SnapPcs \ {"report"}

\* w.Conn, closeErr and the raw Close calls follow the closer's position.
RawInv ==
  /\ closeDone # "nil" => setup.kind # "nil"
  /\ conn <=> /\ setup.kind # "nil"
              /\ closeDone # "closed"
              /\ \A p \in Procs : pc[p] \notin DetachedPcs
  /\ rawCloses = IF closeDone = "closed" \/ \E p \in Procs : pc[p] \in DetachedPcs \cup {"detach"}
                 THEN 1 ELSE 0
  /\ \A p \in Procs : pc[p] \in DetachedPcs => closeErr = cl[p].err

\* The count is exact, guards the wait and is zero from the snapshot on.
CountInv == InFlightExact /\ NoLostWakeup /\ (SnapshotTaken => inFlight = 0)

\* The closed report is the last one, is made exactly when the closer passes
\* the callback, and holds the statistics the wrapper still has.
ReportInv ==
  /\ ClosedReports # {} <=>
       setup.report /\ (closeDone = "closed" \/ \E p \in Procs : pc[p] \in ReportedPcs)
  /\ \A i \in ClosedReports : i = Len(reports) /\ reports[i].snap.stats = stats
  /\ \A p \in Procs : pc[p] = "report" => cl[p].snap.stats = stats

\* All of it, for the goroutines of any finite set and any bounds.
IndInv ==
  TypeOK /\ PhaseInv /\ CloserInv /\ RawInv /\ CountInv /\ ReportInv /\ CloseAgreement
=============================================================================
