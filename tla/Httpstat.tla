------------------------------ MODULE Httpstat ------------------------------
(***************************************************************************)
(* cmd/httpstat: visit fetches a URL, prints the time its parts took and   *)
(* the statistics of a closed connection, and follows redirects.  The      *)
(* goroutine that closes a connection belongs to net/http; it hands the    *)
(* closed snapshot over in the global connConn while visit goes on.        *)
(***************************************************************************)
EXTENDS Integers, Sequences

CONSTANT maxRedirects   \* 10 in the code

ASSUME MaxAssumption == maxRedirects \in Nat

Visits == 1 .. maxRedirects + 1

Stamps == 0 .. 7

Responses == {"none", "final", "redirect", "noLocation", "badLocation"}

VARIABLES
  pc,                  \* where the main goroutine is in visit
  follow, scheme,      \* the -L flag; the scheme of the URL being visited
  visit, redirectsFollowed,
  resp,                \* what client.Do returned
  t, now,              \* t[i] is the variable ti, 0 the zero time; stamps so far
  conns,               \* the wrapped connection of each visit
  racing,              \* visits with a second connection attempt under way
  connConn,            \* the global: visit and ClosedInfo # nil
  shown                \* visits whose connection was printed; 0 for none

progVars == <<follow, visit, redirectsFollowed>>
timeVars == <<t, now>>
netVars == <<conns, racing>>
vars == <<pc, progVars, scheme, resp, timeVars, netVars, connConn, shown>>

Ended == {"over", "fatal"}

Steps == {"request", "dial", "connecting", "tls", "gotconn", "wait", "body", "print", "redirect"}

NoSnapshot == [visit |-> 0, info |-> FALSE]

TypeOK ==
  /\ pc \in Steps \cup Ended
  /\ follow \in BOOLEAN /\ scheme \in {"http", "https"}
  /\ visit \in Visits /\ redirectsFollowed \in 0 .. maxRedirects + 1
  /\ resp \in Responses
  /\ t \in [Stamps -> Nat] /\ now \in Nat
  /\ conns \in [Visits -> {"none", "open", "released", "closed"}]
  /\ racing \subseteq Visits
  /\ connConn \in [visit : Visits, info : BOOLEAN] \cup {NoSnapshot}
  /\ shown \in Seq({0} \cup Visits)

Init ==
  /\ pc = "request"
  /\ follow \in BOOLEAN /\ scheme \in {"http", "https"}
  /\ visit = 1 /\ redirectsFollowed = 0
  /\ resp = "none"
  /\ t = [i \in Stamps |-> 0] /\ now = 0
  /\ conns = [v \in Visits |-> "none"]
  /\ racing = {}
  /\ connConn = NoSnapshot
  /\ shown = <<>>

-----------------------------------------------------------------------------
\* log.Fatalf, from whichever goroutine.
Fatal ==
  /\ pc' = "fatal"
  /\ UNCHANGED <<progVars, scheme, resp, timeVars, netVars, connConn, shown>>

\* A trace callback stores the present time in ti and visit goes on at l.
Stamp(i, l) ==
  /\ now' = now + 1
  /\ t' = [t EXCEPT ![i] = now + 1]
  /\ pc' = l

\* DNSStart and DNSDone, which a literal address skips.
Resolve ==
  /\ pc = "request"
  /\ \/ pc' = "dial" /\ UNCHANGED timeVars
     \/ /\ now' = now + 2
        /\ t' = [t EXCEPT ![0] = now + 1, ![1] = now + 2]
        /\ pc' = "dial"
  /\ UNCHANGED <<progVars, scheme, resp, netVars, connConn, shown>>

\* ConnectStart.  The dialer may try a second address family meanwhile.
ConnectStart ==
  /\ pc = "dial"
  /\ IF t[1] = 0 THEN Stamp(1, "connecting") ELSE pc' = "connecting" /\ UNCHANGED timeVars
  /\ racing' \in {racing, racing \cup {visit}}
  /\ UNCHANGED <<progVars, scheme, resp, conns, connConn, shown>>

\* ConnectDone without an error; dialContext wraps the connection.
ConnectDone ==
  /\ pc = "connecting"
  /\ Stamp(2, IF scheme = "https" THEN "tls" ELSE "gotconn")
  /\ conns' = [conns EXCEPT ![visit] = "open"]
  /\ UNCHANGED <<progVars, scheme, resp, racing, connConn, shown>>

\* The other attempt ends too, at any time: with an error, for it is cancelled
\* when the first succeeds, or just in time to set t2 again.
OtherConnectDone(v) ==
  /\ pc \notin Ended
  /\ v \in racing
  /\ v = visit => pc # "connecting"
  /\ \/ Fatal
     \/ /\ racing' = racing \ {v}
        /\ IF v = visit THEN Stamp(2, pc) ELSE UNCHANGED <<pc, timeVars>>
        /\ UNCHANGED <<progVars, scheme, resp, conns, connConn, shown>>

TLSHandshake ==
  /\ pc = "tls"
  /\ now' = now + 2
  /\ t' = [t EXCEPT ![5] = now + 1, ![6] = now + 2]
  /\ pc' = "gotconn"
  /\ UNCHANGED <<progVars, scheme, resp, netVars, connConn, shown>>

GotConn ==
  /\ pc = "gotconn"
  /\ Stamp(3, "wait")
  /\ UNCHANGED <<progVars, scheme, resp, netVars, connConn, shown>>

\* GotFirstResponseByte, and client.Do returns.  A response without a body
\* lets go of the connection at once: keep-alives are disabled.
Respond ==
  /\ pc = "wait"
  /\ Stamp(4, "body")
  /\ resp' \in Responses \ {"none"}
  /\ \E l \in {"open", "released"} : conns' = [conns EXCEPT ![visit] = l]
  /\ UNCHANGED <<progVars, scheme, racing, connConn, shown>>

\* A lookup, a connection attempt, a handshake or the request fails.
RequestFails ==
  /\ pc \in {"request", "connecting", "tls", "gotconn", "wait"}
  /\ Fatal

\* Mutant: t0 stays zero when the lookup was skipped.
BodyKeepsT0 ==
  /\ pc = "body"
  /\ Stamp(7, "print")
  /\ conns' = [conns EXCEPT ![visit] = IF @ = "open" THEN "released" ELSE @]
  /\ UNCHANGED <<progVars, scheme, resp, racing, connConn, shown>>

\* readResponseBody, resp.Body.Close() and t7.
ReadBody ==
  /\ pc = "body"
  /\ now' = now + 1
  /\ t' = [t EXCEPT ![7] = now + 1, ![0] = IF @ = 0 THEN t[1] ELSE @]
  /\ pc' = "print"
  /\ conns' = [conns EXCEPT ![visit] = IF @ = "open" THEN "released" ELSE @]
  /\ UNCHANGED <<progVars, scheme, resp, racing, connConn, shown>>

BodyFails == pc = "body" /\ resp = "final" /\ Fatal

\* The transport's goroutine closes the connection it was left with; the
\* wrapper's callback calls setConniver.
CloseConn(v) ==
  /\ pc \notin Ended
  /\ conns[v] = "released"
  /\ conns' = [conns EXCEPT ![v] = "closed"]
  /\ \E info \in BOOLEAN : connConn' = [visit |-> v, info |-> info]
  /\ UNCHANGED <<pc, progVars, scheme, resp, timeVars, racing, shown>>

\* Mutant: printing waits for a snapshot with a sample.
PrintWaits ==
  /\ pc = "print"
  /\ connConn.info
  /\ shown' = Append(shown, connConn.visit)
  /\ pc' = "redirect"
  /\ UNCHANGED <<progVars, scheme, resp, timeVars, netVars, connConn>>

\* CloseIdleConnections finds no idle connection; then the times and, if
\* getConniver has one with a sample, the statistics are printed.
PrintResult ==
  /\ pc = "print"
  /\ shown' = Append(shown, IF connConn.info THEN connConn.visit ELSE 0)
  /\ pc' = "redirect"
  /\ UNCHANGED <<progVars, scheme, resp, timeVars, netVars, connConn>>

\* visit(loc): the locals start afresh.
NextVisit ==
  /\ pc' = "request"
  /\ visit' = visit + 1
  /\ scheme' \in {"http", "https"}
  /\ resp' = "none"
  /\ t' = [i \in Stamps |-> 0] /\ now' = 0

\* The end of visit, up to the recursive call.
Follow ==
  /\ pc = "redirect"
  /\ IF follow /\ resp = "redirect"
     THEN /\ redirectsFollowed' = redirectsFollowed + 1
          /\ IF redirectsFollowed' > maxRedirects
             THEN pc' = "fatal" /\ UNCHANGED <<visit, scheme, resp, timeVars>>
             ELSE NextVisit
     ELSE /\ pc' = IF follow /\ resp = "badLocation" THEN "fatal" ELSE "over"
          /\ UNCHANGED <<redirectsFollowed, visit, scheme, resp, timeVars>>
  /\ UNCHANGED <<follow, netVars, connConn, shown>>

-----------------------------------------------------------------------------
\* What the main goroutine does without waiting for the server's answer.
Main ==
  \/ Resolve \/ ConnectStart \/ ConnectDone \/ TLSHandshake \/ GotConn
  \/ PrintResult \/ Follow

Next ==
  \/ Main \/ Respond \/ RequestFails \/ ReadBody \/ BodyFails
  \/ \E v \in Visits : CloseConn(v) \/ OtherConnectDone(v)

Spec == Init /\ [][Next]_vars

\* Lookup and connection attempt are limited to 30 seconds and the handshake to
\* 10, so each ends; the answer has no such limit, and no fairness.
FairSpec == Spec /\ WF_vars(Main) /\ \A v \in Visits : WF_vars(CloseConn(v))

-----------------------------------------------------------------------------
\* visit is entered once per followed redirect, and at most maxRedirects
\* redirects are followed, whatever the servers answer; the program gives up
\* exactly when one more would be.
RedirectsBounded ==
  /\ redirectsFollowed > maxRedirects => pc = "fatal"
  /\ pc # "fatal" => visit = redirectsFollowed + 1
  /\ Len(shown) <= maxRedirects + 1

\* Whenever visit prints its table every time it subtracts has been taken and no
\* printed duration is negative, with a looked-up or a literal address and with
\* a second connection attempt that ends late.
DurationsMakeSense ==
  pc = "print" =>
    /\ 0 < t[0] /\ t[0] <= t[1] /\ t[1] <= t[3] /\ t[3] <= t[4] /\ t[4] <= t[7]
    /\ scheme = "https" => t[1] <= t[2] /\ 0 < t[5] /\ t[5] <= t[6] /\ t[6] <= t[3]

\* The program ends, or it waits for ever for an answer from the server.
Terminates == <>(pc \in Ended) \/ <>[](pc \in {"wait", "body"})

=============================================================================
