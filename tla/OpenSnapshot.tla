---------------------------- MODULE OpenSnapshot ----------------------------
(***************************************************************************)
(* What the open callback is given: a second *Conn, made by snapshotLocked *)
(* and then handed the raw connection (reportState, "legacy behavior for   *)
(* open callbacks that unwrap tic.Conn").  Its methods are those of        *)
(* wrap.go, run by the goroutines Users over the raw connection that the   *)
(* wrapper of Conn uses too.  snapshotLocked leaves reportStats, ioDrained *)
(* and closeDone nil and inFlight 0: the snapshot makes no report and has  *)
(* no condition variable, so waiting on it or waking it panics.  A panic   *)
(* is survived by the program when the goroutine recovers it.              *)
(***************************************************************************)
EXTENDS Conn

CONSTANT Users   \* goroutines that call methods of the snapshot

ASSUME UsersAssumption == IsFiniteSet(Users)

VARIABLES
  snap,      \* the snapshot's fields; locked: a panic left its mutex held, for ever
  spc,       \* where each user is
  panics     \* the users whose call has panicked

svars == <<snap, spc, panics>>
allVars == <<vars, svars>>

SInit ==
  /\ Init
  /\ snap = [Conn |-> setup.kind # "nil", closeStarted |-> FALSE, closeDone |-> "nil",
             inFlight |-> 0, locked |-> FALSE]
  /\ spc = [u \in Users |-> "idle"]
  /\ panics = {}

SGoto(u, l) == spc' = [spc EXCEPT ![u] = l]

\* The open callback has been given the snapshot and may keep it.
SCall(u) == reports # <<>> /\ reports[1].state = "Opened" /\ spc[u] = "idle"

\* A call that finds the mutex held for ever.
SStuck(u) ==
  /\ SCall(u) /\ snap.locked
  /\ SGoto(u, "stuck")
  /\ UNCHANGED <<vars, snap, panics>>

\* Mutants: the count is the wrapper's; I/O is admitted while closing.
SBeginShared(u) ==
  /\ SCall(u) /\ ~snap.locked
  /\ ~snap.closeStarted /\ snap.Conn
  /\ inFlight' = inFlight + 1
  /\ SGoto(u, "io")
  /\ UNCHANGED <<wrapVars, lifeVars, stats, Reconnects, procVars, rawVars, reports, now, snap, panics>>

SBeginWhileClosing(u) ==
  /\ SCall(u) /\ ~snap.locked
  /\ snap.Conn
  /\ snap' = [snap EXCEPT !.inFlight = @ + 1]
  /\ SGoto(u, "io")
  /\ UNCHANGED <<vars, panics>>

\* beginIO of a Read or Write of the snapshot.
SBeginIO(u) ==
  /\ SCall(u) /\ ~snap.locked
  /\ ~snap.closeStarted /\ snap.Conn
  /\ snap' = [snap EXCEPT !.inFlight = @ + 1]
  /\ SGoto(u, "io")
  /\ UNCHANGED <<vars, panics>>

\* The raw call returns.
SIOReturn(u) ==
  /\ spc[u] = "io"
  /\ SGoto(u, "account")
  /\ UNCHANGED <<vars, snap, panics>>

\* The bytes go into the snapshot's own statistics, which nobody is given.
SAccount(u) ==
  /\ spc[u] = "account" /\ ~snap.locked
  /\ SGoto(u, "finish")
  /\ UNCHANGED <<vars, snap, panics>>

\* finishIO: the last I/O after Close has started calls Broadcast on the nil
\* ioDrained and panics; the deferred Unlock still releases the mutex.
SFinishIO(u) ==
  /\ spc[u] = "finish" /\ ~snap.locked
  /\ snap' = [snap EXCEPT !.inFlight = IF @ > 0 THEN @ - 1 ELSE 0]
  /\ panics' = IF snap.closeStarted /\ snap.inFlight = 1 THEN panics \cup {u} ELSE panics
  /\ SGoto(u, "idle")
  /\ UNCHANGED vars

\* Close, first critical section.  collectTCPInfo follows and only fills locals.
SCloseBegin(u) ==
  /\ SCall(u) /\ ~snap.locked
  /\ snap.closeDone = "nil" /\ snap.Conn
  /\ snap' = [snap EXCEPT !.closeStarted = TRUE, !.closeDone = "made"]
  /\ SGoto(u, "rawclose")
  /\ UNCHANGED <<vars, panics>>

SCloseJoin(u) ==
  /\ SCall(u) /\ ~snap.locked
  /\ snap.closeDone # "nil"
  /\ SGoto(u, "await")
  /\ UNCHANGED <<vars, snap, panics>>

\* The done channel is closed; the mutex is taken once more.
SCloseAwait(u) ==
  /\ spc[u] = "await" /\ snap.closeDone = "closed"
  /\ SGoto(u, IF snap.locked THEN "stuck" ELSE "idle")
  /\ UNCHANGED <<vars, snap, panics>>

\* conn.Close() on the raw connection of the wrapper.
SCloseRaw(u) ==
  /\ spc[u] = "rawclose"
  /\ extClosed' = (extClosed \/ ~RawClosed)
  /\ SGoto(u, "detach")
  /\ UNCHANGED <<wrapVars, lifeVars, statVars, procVars, rawCloses, deadline, moved, reports, now, snap, panics>>

\* Mutant: close(done) is forgotten.
SDetachUnsignalled(u) ==
  /\ spc[u] = "detach" /\ ~snap.locked
  /\ snap' = [snap EXCEPT !.Conn = FALSE, !.locked = snap.inFlight > 0]
  /\ panics' = IF snap.inFlight > 0 THEN panics \cup {u} ELSE panics
  /\ SGoto(u, "idle")
  /\ UNCHANGED vars

\* The second critical section of Close.  With I/O in flight it calls Wait on
\* the nil ioDrained and panics between w.Lock() and w.Unlock(); without, it
\* ends, there being no callback.  The deferred close(done) runs either way.
SDetach(u) ==
  /\ spc[u] = "detach" /\ ~snap.locked
  /\ snap' = [snap EXCEPT !.Conn = FALSE, !.closeDone = "closed", !.locked = snap.inFlight > 0]
  /\ panics' = IF snap.inFlight > 0 THEN panics \cup {u} ELSE panics
  /\ SGoto(u, "idle")
  /\ UNCHANGED vars

\* SetDeadline, SetReadDeadline and SetWriteDeadline of the snapshot: withLiveConn
\* looks at the snapshot's fields, and the call that follows sets a deadline of
\* the raw connection, whose Reads and Writes the wrapper makes too.
SDeadlineBegin(u) ==
  /\ SCall(u) /\ ~snap.locked
  /\ ~snap.closeStarted /\ snap.Conn
  /\ DeadlineCalls # {}
  /\ SGoto(u, "deadline")
  /\ UNCHANGED <<vars, snap, panics>>

SDeadlineApply(u) ==
  /\ spc[u] = "deadline"
  /\ \E D \in DeadlineCalls, set \in BOOLEAN :
       deadline' = [d \in Dirs |-> IF d \in D /\ ~RawClosed THEN set ELSE deadline[d]]
  /\ SGoto(u, "idle")
  /\ UNCHANGED <<wrapVars, lifeVars, statVars, procVars, extClosed, rawCloses, moved, reports, now, snap, panics>>

-----------------------------------------------------------------------------
SStep(u) ==
  \/ SAccount(u) \/ SFinishIO(u) \/ SCloseAwait(u) \/ SCloseRaw(u) \/ SDetach(u)
  \/ SDeadlineApply(u)

SNext ==
  \/ Next /\ UNCHANGED svars
  \/ \E u \in Users :
       \/ SStuck(u) \/ SBeginIO(u) \/ SIOReturn(u) \/ SCloseBegin(u) \/ SCloseJoin(u)
       \/ SDeadlineBegin(u) \/ SStep(u)

SSpec == SInit /\ [][SNext]_allVars

\* The wrapper's goroutines as in Conn; a user that can run does run, and the
\* raw Close unblocks the raw calls.
SFairSpec ==
  /\ SSpec /\ Fairness
  /\ \A u \in Users : WF_allVars(SStep(u)) /\ WF_allVars(RawClosed /\ SIOReturn(u))

\* Whatever is done with the open callback's snapshot, its Close, its deadline
\* calls and its panics included, the wrapper behaves as if the owner of the raw
\* connection had used it directly: the composition implements Conn, fairness included,
\* so all that holds of the wrapper alone still holds.
WrapperUnaffected == FairSpec

\* Of all the goroutines that use the snapshot one at most panics in the life
\* of the snapshot: either the closer, which takes the mutex with it, or the
\* last I/O, after which the closer finds nothing in flight.
OnePanicAtMost == Cardinality(panics) <= 1

\* Every call of a method of the snapshot returns or panics, unless a panic of
\* its Close has left the mutex held.
SnapshotCallsReturn ==
  \A u \in Users : spc[u] \notin {"idle", "io"} ~> spc[u] = "idle" \/ snap.locked

\* "Close ... waits for in-flight wrapper I/O to finish updating stats"
\* (wrap.go:289): no Close, and no Read or Write that a Close overlaps,
\* panics instead.
CloseWaitsForIO == panics = {}
=============================================================================
