------------------------------ MODULE Callback ------------------------------
(***************************************************************************)
(* The closed callback as a user of the wrapper.  Close calls it with the  *)
(* mutex released but before it closes the done channel, so a callback     *)
(* that kept the wrapper may call its methods: Read, Write and the         *)
(* deadline calls are refused at once (no connection is left), accessors   *)
(* answer, SetReconnects stores its argument, and Close finds closeDone    *)
(* set and waits for the Close that is waiting for the callback.           *)
(***************************************************************************)
EXTENDS Conn

VARIABLES
  nested,      \* the goroutine whose callback called Close, if any
  sinceClose   \* the values Reconnects has had from Close to the snapshot

hvars == <<nested, sinceClose>>
bvars == <<vars, hvars>>

BInit == Init /\ nested = {} /\ sinceClose = {}

Track ==
  sinceClose' = IF closeStarted' /\ ~SnapshotTaken THEN sinceClose \cup {Reconnects'} ELSE sinceClose

\* The callback calls Close, which waits for the done channel of its caller.
CallbackCloses(p) ==
  /\ pc[p] = "callback" /\ p \notin nested
  /\ closeDone # "nil"
  /\ nested' = nested \cup {p}
  /\ UNCHANGED <<vars, sinceClose>>

CallbackSetsReconnects(p, k) ==
  /\ pc[p] = "callback" /\ p \notin nested
  /\ Reconnects' = k
  /\ UNCHANGED <<wrapVars, lifeVars, inFlight, stats, procVars, rawVars, reports, now, nested>>
  /\ Track

\* The callback returns only after the calls it made have.
CallbackOver(p) == p \in nested => closeDone = "closed"

\* A step of Conn.
Wrapper(A) == A /\ UNCHANGED nested /\ Track

BStep(p) == Wrapper(Step(p) /\ (pc[p] = "callback" => CallbackOver(p)))

BNext ==
  \/ Wrapper(Next /\ \A p \in Procs : pc[p] = "callback" => (pc'[p] = "callback" \/ CallbackOver(p)))
  \/ \E p \in Procs :
       CallbackCloses(p) \/ \E k \in 0 .. MaxReconnects : CallbackSetsReconnects(p, k)

BSpec == BInit /\ [][BNext]_bvars

BFairSpec ==
  BSpec /\ \A p \in Procs : WF_bvars(BStep(p)) /\ WF_bvars(Wrapper(RawClosed /\ IOReturn(p)))

\* The only way to hang Close is to call it from the callback it makes: all
\* Close calls return unless one of them waits for itself.
HangsOnlyOnItself ==
  \A p \in Procs : pc[p] \in CloserPcs \cup WaiterPcs ~> pc[p] = "idle" \/ nested # {}

\* "reported in the final stats" (SetReconnects): the number reported is one
\* that was in force between the start of Close and the drain; a call made
\* before Close is never missed, one made from the callback is never in it.
ReconnectsReported ==
  \A i \in ClosedReports : reports[i].snap.reconnects \in sinceClose
=============================================================================
