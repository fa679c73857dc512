-------------------------------- MODULE Get ---------------------------------
(***************************************************************************)
(* cmd/get: one request with net/http's client over wrapped connections,   *)
(* whose closed callback prints a report.  The client follows redirects by *)
(* itself and keeps a connection for reuse when its response has been      *)
(* read; a connection whose response was not read, or which the server     *)
(* ends, is closed by a goroutine of the transport.  Its lock makes a      *)
(* second close of a connection wait for the first.                        *)
(***************************************************************************)
EXTENDS Integers, FiniteSets

CONSTANT MaxHops   \* requests cl.Get makes, redirects included

ASSUME HopsAssumption == MaxHops \in Nat \ {0}

Ids == 1..MaxHops

VARIABLES
  at,         \* main: "get", "body", "idle", "closing", "exit", "fatal"
  hop,        \* requests answered so far
  current,    \* the connection of the request in progress; 0 before the first
  conns,      \* "none", "used", "idle", "left" (to the transport's goroutine), which
              \* closes a "leaving" and an "ending" (idle) one, and "closed"
  toClose,    \* the connections CloseIdleConnections still has to close
  reports     \* how often the callback printed a report, per connection

getVars == <<at, hop, current, conns, toClose, reports>>

GetInit ==
  /\ at = "get" /\ hop = 0 /\ current = 0 /\ toClose = {}
  /\ conns = [c \in Ids |-> "none"] /\ reports = [c \in Ids |-> 0]

Ended == {"exit", "fatal"}

-----------------------------------------------------------------------------
\* A request gets an idle connection to the same host, or DialContext dials and
\* wraps a new one.
Dial ==
  /\ at = "get" /\ current = 0 /\ hop < MaxHops
  /\ \E c \in Ids :
       /\ \/ conns[c] = "idle"
          \/ conns[c] = "none" /\ (\A d \in 1..c - 1 : conns[d] # "none")
       /\ current' = c /\ conns' = [conns EXCEPT ![c] = "used"]
  /\ UNCHANGED <<at, hop, toClose, reports>>

\* A redirect: the client reads a short body and lets the connection go idle, or
\* leaves a long one.
Redirect ==
  /\ at = "get" /\ current # 0 /\ hop + 1 < MaxHops
  /\ \E l \in {"idle", "left"} : conns' = [conns EXCEPT ![current] = l]
  /\ current' = 0 /\ hop' = hop + 1
  /\ UNCHANGED <<at, toClose, reports>>

\* cl.Get returns the last response; if it has no body the connection is idle, or
\* left, should the server want it closed.
Respond ==
  /\ at = "get" /\ current # 0
  /\ \E l \in {"idle", "used", "left"} : conns' = [conns EXCEPT ![current] = l]
  /\ hop' = hop + 1 /\ at' = "body"
  /\ UNCHANGED <<current, toClose, reports>>

\* Dialling, the handshake or a request fails: log.Fatalf.
GetFails == at = "get" /\ at' = "fatal" /\ UNCHANGED <<hop, current, conns, toClose, reports>>

\* resp.Body.Close(): the transport gives up a connection whose body has not been
\* read, but the call returns before it is closed.
CloseBody ==
  /\ at = "body" /\ at' = "idle"
  /\ conns' = [conns EXCEPT ![current] = IF @ = "used" THEN "left" ELSE @]
  /\ UNCHANGED <<hop, current, toClose, reports>>

\* Mutant: main returns without CloseIdleConnections.
ReturnAtOnce == at = "idle" /\ at' = "exit" /\ UNCHANGED <<hop, current, conns, toClose, reports>>

\* cl.CloseIdleConnections() takes the transport's list, where a connection stays
\* until it has been closed,
CloseIdle ==
  /\ at = "idle" /\ at' = "closing"
  /\ toClose' = {c \in Ids : conns[c] \in {"idle", "ending"}}
  /\ UNCHANGED <<hop, current, conns, reports>>

\* closes one after the other, running the callback in this goroutine unless the
\* transport's was first,
CloseNext ==
  /\ at = "closing"
  /\ \E c \in toClose :
       /\ conns[c] # "ending"
       /\ toClose' = toClose \ {c}
       /\ conns' = [conns EXCEPT ![c] = "closed"]
       /\ reports' = [reports EXCEPT ![c] = IF conns[c] = "idle" THEN @ + 1 ELSE @]
  /\ UNCHANGED <<at, hop, current>>

\* and main returns.
Return ==
  /\ at = "closing" /\ toClose = {} /\ at' = "exit"
  /\ UNCHANGED <<hop, current, conns, toClose, reports>>

\* The transport's goroutine begins to close the connection it was left, or an idle
\* one that the server ended,
BeginClose(c) ==
  /\ at \notin Ended /\ conns[c] \in {"left", "idle"}
  /\ conns' = [conns EXCEPT ![c] = IF @ = "left" THEN "leaving" ELSE "ending"]
  /\ UNCHANGED <<at, hop, current, toClose, reports>>

\* and the wrapper calls back there, if the program lasts as long.
FinishClose(c) ==
  /\ at \notin Ended /\ conns[c] \in {"leaving", "ending"}
  /\ conns' = [conns EXCEPT ![c] = "closed"]
  /\ reports' = [reports EXCEPT ![c] = @ + 1]
  /\ UNCHANGED <<at, hop, current, toClose>>

GetNext ==
  \/ Dial \/ Redirect \/ Respond \/ GetFails \/ CloseBody \/ CloseIdle \/ CloseNext \/ Return
  \/ \E c \in Ids : BeginClose(c) \/ FinishClose(c)

GetSpec == GetInit /\ [][GetNext]_getVars

-----------------------------------------------------------------------------
\* No connection is reported twice, whoever closes it; and when main returns, every
\* connection that was dialled has been reported once, but for those left to the
\* transport's goroutines, which may not have come to their callbacks.
OnlyLeftUnreported ==
  /\ \A c \in Ids : reports[c] <= 1
  /\ at = "exit" =>
       \A c \in Ids : reports[c] = IF conns[c] \in {"none", "left", "leaving"} THEN 0 ELSE 1

=============================================================================
