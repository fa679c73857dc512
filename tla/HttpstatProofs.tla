--------------------------- MODULE HttpstatProofs ---------------------------
(***************************************************************************)
(* visit, for any bound on redirects: its types, the count of redirects,   *)
(* and that no printed duration is negative.                               *)
(***************************************************************************)
EXTENDS Httpstat, TLAPS

USE MaxAssumption

\* visit counts the redirects, and prints once per visit.
Counted ==
  /\ redirectsFollowed > maxRedirects => pc = "fatal"
  /\ pc # "fatal" => visit = redirectsFollowed + 1
  /\ Len(shown) <= visit
  /\ pc \in Steps \ {"redirect"} => Len(shown) = visit - 1
  /\ pc = "redirect" => Len(shown) = visit

Inv == TypeOK /\ Counted

-----------------------------------------------------------------------------
\* The initial states are of the right types.
LEMMA InitInv == Init => Inv
<1>. SUFFICES ASSUME Init PROVE Inv
  OBVIOUS
<1>1. 1 \in Visits
  BY DEF Visits
<1>2. TypeOK
  BY <1>1 DEF Init, TypeOK, Steps, Ended, Responses, NoSnapshot
<1>3. Counted
  BY <1>1 DEF Init, Counted, Steps
<1>4. QED
  BY <1>2, <1>3 DEF Inv

\* The times are t0 to t7.
LEMMA Times == \A i \in {0, 1, 2, 3, 4, 5, 6, 7} : i \in Stamps
BY DEF Stamps

\* Two of the times may be set at once.
LEMMA TwoTimes ==
  ASSUME NEW f \in [Stamps -> Nat], NEW i \in Stamps, NEW j \in Stamps, NEW a \in Nat, NEW b \in Nat
  PROVE  [f EXCEPT ![i] = a, ![j] = b] \in [Stamps -> Nat]
OBVIOUS

\* So may one, with the program counter.
LEMMA OneTime ==
  ASSUME t \in [Stamps -> Nat], now \in Nat, NEW i \in Stamps, NEW l, Stamp(i, l)
  PROVE  t' \in [Stamps -> Nat] /\ now' \in Nat /\ pc' = l
<1>1. now + 1 \in Nat /\ now' = now + 1 /\ pc' = l /\ t' = [t EXCEPT ![i] = now + 1]
  BY DEF Stamp
<1>2. QED
  BY <1>1

\* The state of a connection may change.
LEMMA OneConn ==
  ASSUME NEW f \in [Visits -> {"none", "open", "released", "closed"}], NEW v \in Visits,
         NEW l \in {"none", "open", "released", "closed"}
  PROVE  [f EXCEPT ![v] = l] \in [Visits -> {"none", "open", "released", "closed"}]
OBVIOUS

\* A step that leaves the visit and what is printed alone keeps the types if what
\* it changes has them.
LEMMA TypeFrame ==
  ASSUME TypeOK, UNCHANGED <<progVars, scheme, connConn, shown>>,
         pc' \in Steps \cup Ended, resp' \in Responses,
         t' \in [Stamps -> Nat] /\ now' \in Nat,
         conns' \in [Visits -> {"none", "open", "released", "closed"}], racing' \subseteq Visits
  PROVE  TypeOK'
<1>1. /\ follow' = follow /\ visit' = visit /\ redirectsFollowed' = redirectsFollowed
      /\ scheme' = scheme /\ connConn' = connConn /\ shown' = shown
  BY DEF progVars
<1>2. QED
  BY <1>1, Zenon DEF TypeOK

\* Every step keeps the types.
LEMMA TypeStep == Inv /\ [Next]_vars => TypeOK'
<1>. SUFFICES ASSUME Inv, [Next]_vars PROVE TypeOK'
  OBVIOUS
<1>. USE DEF timeVars, netVars
<1>0. TypeOK /\ Counted
  BY DEF Inv
<1>a. /\ t \in [Stamps -> Nat] /\ now \in Nat /\ resp \in Responses
      /\ conns \in [Visits -> {"none", "open", "released", "closed"}] /\ racing \subseteq Visits
      /\ visit \in Visits /\ pc \in Steps \cup Ended
  BY <1>0 DEF TypeOK
<1>b. "fatal" \in Steps \cup Ended /\ "over" \in Steps \cup Ended
  BY DEF Ended
<1>c. {"request", "dial", "connecting", "tls", "gotconn", "wait", "body", "print", "redirect"} \subseteq Steps \cup Ended
  BY DEF Steps
<1>d. 0 \in Stamps /\ 1 \in Stamps /\ 2 \in Stamps /\ 3 \in Stamps /\ 4 \in Stamps
      /\ 5 \in Stamps /\ 6 \in Stamps /\ 7 \in Stamps /\ now + 1 \in Nat /\ now + 2 \in Nat
  BY <1>a, Times
<1>1. CASE Resolve
  <2>1. t' \in [Stamps -> Nat] /\ now' \in Nat
    <3>1. CASE UNCHANGED timeVars
      BY <1>a, <3>1
    <3>2. CASE now' = now + 2 /\ t' = [t EXCEPT ![0] = now + 1, ![1] = now + 2]
      BY <1>a, <1>d, <3>2, TwoTimes
    <3>3. QED
      BY <1>1, <3>1, <3>2 DEF Resolve
  <2>2. pc' = "dial" /\ UNCHANGED <<progVars, scheme, resp, conns, racing, connConn, shown>>
    BY <1>1 DEF Resolve
  <2>3. QED
    BY <1>0, <1>a, <1>c, <2>1, <2>2, TypeFrame
<1>2. CASE ConnectStart
  <2>1. t' \in [Stamps -> Nat] /\ now' \in Nat /\ pc' = "connecting"
    <3>1. CASE Stamp(1, "connecting")
      BY <1>a, <1>d, <3>1, OneTime
    <3>2. CASE pc' = "connecting" /\ UNCHANGED timeVars
      BY <1>a, <3>2
    <3>3. QED
      BY <1>2, <3>1, <3>2 DEF ConnectStart
  <2>2. racing' \subseteq Visits /\ UNCHANGED <<progVars, scheme, resp, conns, connConn, shown>>
    BY <1>2, <1>a DEF ConnectStart
  <2>3. QED
    BY <1>0, <1>a, <1>c, <2>1, <2>2, TypeFrame
<1>3. CASE ConnectDone
  <2>1. /\ Stamp(2, IF scheme = "https" THEN "tls" ELSE "gotconn")
        /\ conns' = [conns EXCEPT ![visit] = "open"]
        /\ UNCHANGED <<progVars, scheme, resp, racing, connConn, shown>>
    BY <1>3 DEF ConnectDone
  <2>2. t' \in [Stamps -> Nat] /\ now' \in Nat /\ pc' = IF scheme = "https" THEN "tls" ELSE "gotconn"
    BY <1>a, <1>d, <2>1, OneTime
  <2>3. conns' \in [Visits -> {"none", "open", "released", "closed"}]
    BY <1>a, <2>1, OneConn
  <2>4. pc' \in Steps \cup Ended
    BY <1>c, <2>2
  <2>5. QED
    BY <1>0, <1>a, <2>1, <2>2, <2>3, <2>4, TypeFrame
<1>4. CASE TLSHandshake
  <2>1. /\ now' = now + 2 /\ t' = [t EXCEPT ![5] = now + 1, ![6] = now + 2] /\ pc' = "gotconn"
        /\ UNCHANGED <<progVars, scheme, resp, conns, racing, connConn, shown>>
    BY <1>4 DEF TLSHandshake
  <2>2. t' \in [Stamps -> Nat] /\ now' \in Nat
    BY <1>a, <1>d, <2>1, TwoTimes
  <2>3. QED
    BY <1>0, <1>a, <1>c, <2>1, <2>2, TypeFrame
<1>5. CASE GotConn
  <2>1. Stamp(3, "wait") /\ UNCHANGED <<progVars, scheme, resp, conns, racing, connConn, shown>>
    BY <1>5 DEF GotConn
  <2>2. t' \in [Stamps -> Nat] /\ now' \in Nat /\ pc' = "wait"
    BY <1>a, <1>d, <2>1, OneTime
  <2>3. QED
    BY <1>0, <1>a, <1>c, <2>1, <2>2, TypeFrame
<1>6. CASE PrintResult
  <2>1. (IF connConn.info THEN connConn.visit ELSE 0) \in {0} \cup Visits
    BY <1>0 DEF TypeOK, NoSnapshot
  <2>2. shown' \in Seq({0} \cup Visits)
    BY <1>0, <1>6, <2>1 DEF PrintResult, TypeOK
  <2>3. pc' = "redirect" /\ UNCHANGED <<progVars, scheme, resp, t, now, conns, racing, connConn>>
    BY <1>6 DEF PrintResult
  <2>4. QED
    BY <1>0, <1>c, <2>2, <2>3 DEF TypeOK, progVars
<1>7. CASE Follow
  <2>1. CASE UNCHANGED <<redirectsFollowed, visit, scheme, resp, timeVars>> /\ pc' \in {"fatal", "over"}
    <3>1. UNCHANGED <<progVars, scheme, resp, t, now, conns, racing, connConn, shown>>
      BY <1>7, <2>1 DEF Follow, progVars
    <3>2. QED
      BY <1>0, <1>a, <1>b, <2>1, <3>1, TypeFrame
  <2>2. CASE follow /\ resp = "redirect" /\ redirectsFollowed' > maxRedirects
    <3>1. redirectsFollowed' \in 0 .. maxRedirects + 1
      BY <1>0, <1>7, <2>2 DEF Follow, Counted, TypeOK
    <3>2. /\ pc' = "fatal"
          /\ UNCHANGED <<follow, visit, scheme, resp, t, now, conns, racing, connConn, shown>>
      BY <1>7, <2>2 DEF Follow
    <3>3. QED
      BY <1>0, <1>b, <3>1, <3>2 DEF TypeOK
  <2>3. CASE follow /\ resp = "redirect" /\ ~(redirectsFollowed' > maxRedirects)
    <3>1. visit' \in Visits /\ redirectsFollowed' \in 0 .. maxRedirects + 1
      BY <1>0, <1>7, <2>3 DEF Follow, NextVisit, Counted, Visits, TypeOK
    <3>2. /\ pc' = "request" /\ scheme' \in {"http", "https"} /\ resp' = "none" /\ now' = 0
          /\ t' = [i \in Stamps |-> 0]
          /\ UNCHANGED <<follow, conns, racing, connConn, shown>>
      BY <1>7, <2>3 DEF Follow, NextVisit
    <3>3. t' \in [Stamps -> Nat] /\ resp' \in Responses
      BY <3>2 DEF Responses
    <3>4. QED
      BY <1>0, <1>c, <3>1, <3>2, <3>3 DEF TypeOK
  <2>4. QED
    BY <1>7, <2>1, <2>2, <2>3 DEF Follow
<1>8. CASE Respond
  <2>1. /\ Stamp(4, "body") /\ resp' \in Responses
        /\ UNCHANGED <<progVars, scheme, racing, connConn, shown>>
    BY <1>8 DEF Respond
  <2>2. t' \in [Stamps -> Nat] /\ now' \in Nat /\ pc' = "body"
    BY <1>a, <1>d, <2>1, OneTime
  <2>3. conns' \in [Visits -> {"none", "open", "released", "closed"}]
    BY <1>8, <1>a, OneConn DEF Respond
  <2>4. QED
    BY <1>0, <1>a, <1>c, <2>1, <2>2, <2>3, TypeFrame
<1>9. CASE Fatal
  BY <1>0, <1>a, <1>b, <1>9, TypeFrame DEF Fatal
<1>10. CASE ReadBody
  <2>1. /\ t' = [t EXCEPT ![7] = now + 1, ![0] = IF t[0] = 0 THEN t[1] ELSE t[0]]
        /\ now' = now + 1 /\ pc' = "print"
        /\ conns' = [conns EXCEPT ![visit] = IF conns[visit] = "open" THEN "released" ELSE conns[visit]]
        /\ UNCHANGED <<progVars, scheme, resp, racing, connConn, shown>>
    BY <1>10 DEF ReadBody
  <2>2. (IF t[0] = 0 THEN t[1] ELSE t[0]) \in Nat
    BY <1>a, <1>d
  <2>3. t' \in [Stamps -> Nat] /\ now' \in Nat
    BY <1>a, <1>d, <2>1, <2>2, TwoTimes
  <2>4. (IF conns[visit] = "open" THEN "released" ELSE conns[visit]) \in {"none", "open", "released", "closed"}
    BY <1>a
  <2>5. conns' \in [Visits -> {"none", "open", "released", "closed"}]
    BY <1>a, <2>1, <2>4, OneConn
  <2>6. QED
    BY <1>0, <1>a, <1>c, <2>1, <2>3, <2>5, TypeFrame
<1>11. ASSUME NEW v \in Visits, CloseConn(v) PROVE TypeOK'
  <2>1. /\ conns' = [conns EXCEPT ![v] = "closed"]
        /\ UNCHANGED <<pc, progVars, scheme, resp, t, now, racing, shown>>
    BY <1>11 DEF CloseConn
  <2>2. connConn' \in [visit : Visits, info : BOOLEAN]
    BY <1>11 DEF CloseConn
  <2>3. conns' \in [Visits -> {"none", "open", "released", "closed"}]
    BY <1>a, <2>1, OneConn
  <2>4. QED
    BY <1>0, <2>1, <2>2, <2>3 DEF TypeOK, progVars
<1>12. ASSUME NEW v \in Visits, OtherConnectDone(v) PROVE TypeOK'
  <2>1. CASE racing' = racing \ {v} /\ UNCHANGED <<progVars, scheme, resp, conns, connConn, shown>>
             /\ (Stamp(2, pc) \/ UNCHANGED <<pc, t, now>>)
    <3>1. t' \in [Stamps -> Nat] /\ now' \in Nat /\ pc' = pc
      <4>1. CASE Stamp(2, pc)
        BY <1>a, <1>d, <4>1, OneTime
      <4>2. CASE UNCHANGED <<pc, t, now>>
        BY <1>a, <4>2
      <4>3. QED
        BY <2>1, <4>1, <4>2
    <3>2. racing' \subseteq Visits
      BY <1>a, <2>1
    <3>3. QED
      BY <1>0, <1>a, <2>1, <3>1, <3>2, TypeFrame
  <2>2. QED
    BY <1>9, <1>12, <2>1 DEF OtherConnectDone
<1>13. CASE UNCHANGED vars
  BY <1>0, <1>a, <1>13, TypeFrame DEF vars
<1>14. QED
  BY <1>1, <1>2, <1>3, <1>4, <1>5, <1>6, <1>7, <1>8, <1>9, <1>10, <1>11, <1>12, <1>13
  DEF Next, Main, RequestFails, BodyFails

\* Every step keeps the count.
LEMMA CountStep == Inv /\ [Next]_vars => Counted'
<1>. SUFFICES ASSUME Inv, [Next]_vars PROVE Counted'
  OBVIOUS
<1>. USE DEF Counted, progVars, Steps
<1>. /\ Counted /\ shown \in Seq({0} \cup Visits)
     /\ visit \in Nat /\ redirectsFollowed \in Nat
  BY DEF Inv, TypeOK, Visits
<1>1. CASE Resolve
  BY <1>1 DEF Resolve
<1>2. CASE ConnectStart
  BY <1>2 DEF ConnectStart, Stamp
<1>3. CASE ConnectDone
  BY <1>3 DEF ConnectDone, Stamp
<1>4. CASE TLSHandshake
  BY <1>4 DEF TLSHandshake
<1>5. CASE GotConn
  BY <1>5 DEF GotConn, Stamp
<1>6. CASE PrintResult
  <2>1. Len(shown') = Len(shown) + 1
    BY <1>6 DEF PrintResult
  <2>2. QED
    BY <1>6, <2>1 DEF PrintResult
<1>7. CASE Follow
  <2>1. CASE ~(follow /\ resp = "redirect")
    <3>1. pc = "redirect" /\ pc' \in {"fatal", "over"}
      BY <1>7, <2>1 DEF Follow
    <3>2. UNCHANGED <<redirectsFollowed, visit, shown>>
      BY <1>7, <2>1 DEF Follow
    <3>3. QED
      BY <3>1, <3>2
  <2>2. CASE follow /\ resp = "redirect" /\ redirectsFollowed' > maxRedirects
    BY <1>7, <2>2 DEF Follow
  <2>3. CASE follow /\ resp = "redirect" /\ ~(redirectsFollowed' > maxRedirects)
    <3>1. /\ pc = "redirect" /\ pc' = "request" /\ visit' = visit + 1
          /\ redirectsFollowed' = redirectsFollowed + 1 /\ shown' = shown
      BY <1>7, <2>3 DEF Follow, NextVisit
    <3>2. redirectsFollowed' <= maxRedirects
      BY <2>3, <3>1
    <3>3. Len(shown) = visit
      BY <3>1
    <3>4. QED
      BY <3>1, <3>2, <3>3
  <2>4. QED
    BY <2>1, <2>2, <2>3
<1>8. CASE Respond
  BY <1>8 DEF Respond, Stamp
<1>9. CASE RequestFails \/ BodyFails
  BY <1>9 DEF RequestFails, BodyFails, Fatal
<1>10. CASE ReadBody
  BY <1>10 DEF ReadBody
<1>11. ASSUME NEW v \in Visits, CloseConn(v) PROVE Counted'
  BY <1>11 DEF CloseConn
<1>12. ASSUME NEW v \in Visits, OtherConnectDone(v) PROVE Counted'
  BY <1>12 DEF OtherConnectDone, Fatal, Stamp
<1>13. CASE UNCHANGED vars
  BY <1>13 DEF vars
<1>14. QED
  BY <1>1, <1>2, <1>3, <1>4, <1>5, <1>6, <1>7, <1>8, <1>9, <1>10, <1>11, <1>12, <1>13 DEF Next, Main

-----------------------------------------------------------------------------
\* The invariant holds always.
THEOREM Invariant == Spec => []Inv
<1>1. Inv /\ [Next]_vars => Inv'
  BY TypeStep, CountStep DEF Inv
<1>2. QED
  BY <1>1, InitInv, PTL DEF Spec

\* The variables of visit have their types.
THEOREM TypeCorrect == Spec => []TypeOK
<1>1. Inv => TypeOK
  BY DEF Inv
<1>2. QED
  BY <1>1, Invariant, PTL

\* At most maxRedirects redirects are followed, whatever the servers answer.
THEOREM RedirectsAreBounded == Spec => []RedirectsBounded
<1>1. Inv => RedirectsBounded
  BY DEF Inv, TypeOK, Counted, RedirectsBounded, Visits
<1>2. QED
  BY <1>1, Invariant, PTL

-----------------------------------------------------------------------------
\* How far the times have been taken, and that each is later than those before it.
\* t2 may be set again at any time after the connection.
Timed ==
  /\ \A i \in Stamps : t[i] <= now
  /\ t[0] <= t[1]
  /\ pc \in Steps \ {"request", "dial"} => 0 < t[1]
  /\ pc \in {"tls", "gotconn", "wait", "body", "print"} => t[1] <= t[2]
  /\ (pc \in {"gotconn", "wait", "body", "print"} /\ scheme = "https") => 0 < t[5] /\ t[5] <= t[6]
  /\ pc \in {"wait", "body", "print"} => t[1] <= t[3] /\ (scheme = "https" => t[6] <= t[3])
  /\ pc \in {"body", "print"} => t[3] <= t[4]
  /\ pc = "print" => t[4] <= t[7] /\ 0 < t[0]

\* A step after which no time has changed, and which takes visit no further than
\* to its end, keeps the times in order.
LEMMA TimedFrame ==
  ASSUME Timed, UNCHANGED <<t, now, scheme>>, pc' \in {pc, "redirect", "over", "fatal"},
         pc' = "redirect" => pc = "print" \/ pc = "redirect"
  PROVE  Timed'
BY DEF Timed, Steps

\* Every step keeps the times in order.
LEMMA TimedStep == TypeOK /\ Timed /\ [Next]_vars => Timed'
<1>. SUFFICES ASSUME TypeOK, Timed, [Next]_vars PROVE Timed'
  OBVIOUS
<1>. USE DEF timeVars
<1>0. /\ t \in [Stamps -> Nat] /\ now \in Nat /\ scheme \in {"http", "https"}
      /\ 0 \in Stamps /\ 1 \in Stamps /\ 2 \in Stamps /\ 3 \in Stamps
      /\ 4 \in Stamps /\ 5 \in Stamps /\ 6 \in Stamps /\ 7 \in Stamps
  BY Times DEF TypeOK
<1>a. \A i \in Stamps : t[i] \in Nat /\ t[i] <= now
  BY <1>0 DEF Timed
<1>1. CASE Resolve
  <2>1. pc' = "dial" /\ pc = "request"
    BY <1>1 DEF Resolve
  <2>2. CASE UNCHANGED timeVars
    BY <2>1, <2>2 DEF Timed, Steps
  <2>3. CASE now' = now + 2 /\ t' = [t EXCEPT ![0] = now + 1, ![1] = now + 2]
    <3>1. \A i \in Stamps : t'[i] = IF i = 1 THEN now + 2 ELSE IF i = 0 THEN now + 1 ELSE t[i]
      BY <1>0, <2>3
    <3>2. QED
      BY <1>0, <1>a, <2>1, <2>3, <3>1 DEF Timed, Steps
  <2>4. QED
    BY <1>1, <2>2, <2>3 DEF Resolve
<1>2. CASE ConnectStart
  <2>1. pc' = "connecting"
    BY <1>2 DEF ConnectStart, Stamp
  <2>2. CASE t[1] = 0
    <3>1. now' = now + 1 /\ \A i \in Stamps : t'[i] = IF i = 1 THEN now + 1 ELSE t[i]
      BY <1>0, <1>2, <2>2 DEF ConnectStart, Stamp
    <3>2. QED
      BY <1>0, <1>a, <2>1, <3>1 DEF Timed, Steps
  <2>3. CASE t[1] # 0
    <3>1. UNCHANGED <<t, now>>
      BY <1>2, <2>3 DEF ConnectStart
    <3>2. 0 < t[1]
      BY <1>0, <1>a, <2>3
    <3>3. QED
      BY <2>1, <3>1, <3>2 DEF Timed, Steps
  <2>4. QED
    BY <2>2, <2>3
<1>3. CASE ConnectDone
  <2>1. /\ pc = "connecting" /\ pc' = (IF scheme = "https" THEN "tls" ELSE "gotconn")
        /\ scheme' = scheme /\ now' = now + 1
        /\ \A i \in Stamps : t'[i] = IF i = 2 THEN now + 1 ELSE t[i]
    BY <1>0, <1>3 DEF ConnectDone, Stamp
  <2>2. QED
    BY <1>0, <1>a, <2>1 DEF Timed, Steps
<1>4. CASE TLSHandshake
  <2>1. /\ pc = "tls" /\ pc' = "gotconn" /\ scheme' = scheme /\ now' = now + 2
        /\ \A i \in Stamps : t'[i] = IF i = 6 THEN now + 2 ELSE IF i = 5 THEN now + 1 ELSE t[i]
    BY <1>0, <1>4 DEF TLSHandshake
  <2>2. QED
    BY <1>0, <1>a, <2>1 DEF Timed, Steps
<1>5. CASE GotConn
  <2>1. /\ pc = "gotconn" /\ pc' = "wait" /\ scheme' = scheme /\ now' = now + 1
        /\ \A i \in Stamps : t'[i] = IF i = 3 THEN now + 1 ELSE t[i]
    BY <1>0, <1>5 DEF GotConn, Stamp
  <2>2. QED
    BY <1>0, <1>a, <2>1 DEF Timed, Steps
<1>6. CASE PrintResult
  BY <1>6, TimedFrame DEF PrintResult
<1>7. CASE Follow
  <2>1. CASE NextVisit
    <3>1. pc' = "request" /\ now' = 0 /\ \A i \in Stamps : t'[i] = 0
      BY <2>1 DEF NextVisit
    <3>2. QED
      BY <1>0, <3>1 DEF Timed, Steps
  <2>2. CASE UNCHANGED <<scheme, timeVars>> /\ pc' \in {"fatal", "over"}
    BY <2>2, TimedFrame
  <2>3. QED
    BY <1>7, <2>1, <2>2 DEF Follow
<1>8. CASE Respond
  <2>1. /\ pc = "wait" /\ pc' = "body" /\ scheme' = scheme /\ now' = now + 1
        /\ \A i \in Stamps : t'[i] = IF i = 4 THEN now + 1 ELSE t[i]
    BY <1>0, <1>8 DEF Respond, Stamp
  <2>2. QED
    BY <1>0, <1>a, <2>1 DEF Timed, Steps
<1>9. CASE RequestFails \/ BodyFails
  BY <1>9, TimedFrame DEF RequestFails, BodyFails, Fatal
<1>10. CASE ReadBody
  <2>1. t' = [t EXCEPT ![7] = now + 1, ![0] = IF t[0] = 0 THEN t[1] ELSE t[0]]
    BY <1>10 DEF ReadBody
  <2>2. /\ pc = "body" /\ pc' = "print" /\ scheme' = scheme /\ now' = now + 1
        /\ \A i \in Stamps : t'[i] = IF i = 0 THEN (IF t[0] = 0 THEN t[1] ELSE t[0])
                                      ELSE IF i = 7 THEN now + 1 ELSE t[i]
    BY <1>0, <1>10, <2>1 DEF ReadBody
  <2>3. QED
    BY <1>0, <1>a, <2>2 DEF Timed, Steps
<1>11. ASSUME NEW v \in Visits, CloseConn(v) PROVE Timed'
  BY <1>11, TimedFrame DEF CloseConn
<1>12. ASSUME NEW v \in Visits, OtherConnectDone(v) PROVE Timed'
  <2>1. CASE Fatal
    BY <2>1, TimedFrame DEF Fatal
  <2>2. CASE Stamp(2, pc) /\ scheme' = scheme
    <3>1. /\ pc' = pc /\ now' = now + 1
          /\ \A i \in Stamps : t'[i] = IF i = 2 THEN now + 1 ELSE t[i]
      BY <1>0, <2>2 DEF Stamp
    <3>2. QED
      BY <1>0, <1>a, <2>2, <3>1 DEF Timed, Steps
  <2>3. CASE UNCHANGED <<pc, timeVars, scheme>>
    BY <2>3, TimedFrame
  <2>4. QED
    BY <1>12, <2>1, <2>2, <2>3 DEF OtherConnectDone
<1>13. CASE UNCHANGED vars
  BY <1>13, TimedFrame DEF vars
<1>14. QED
  BY <1>1, <1>2, <1>3, <1>4, <1>5, <1>6, <1>7, <1>8, <1>9, <1>10, <1>11, <1>12, <1>13 DEF Next, Main

\* Every duration that is printed has both its ends, and is not negative.
THEOREM DurationsAreSensible == Spec => []DurationsMakeSense
<1>1. Init => Timed
  <2>. SUFFICES ASSUME Init PROVE Timed
    OBVIOUS
  <2>1. pc = "request" /\ now = 0 /\ \A i \in Stamps : t[i] = 0
    BY DEF Init
  <2>2. 0 \in Stamps /\ 1 \in Stamps
    BY Times
  <2>3. QED
    BY <2>1, <2>2 DEF Timed, Steps
<1>2. TypeOK /\ Timed => DurationsMakeSense
  <2>. SUFFICES ASSUME TypeOK, Timed, pc = "print" PROVE DurationsMakeSense
    BY DEF DurationsMakeSense
  <2>1. \A i \in {0, 1, 2, 3, 4, 5, 6, 7} : t[i] \in Nat
    BY Times, SMTT(20) DEF TypeOK
  <2>2. QED
    BY <2>1 DEF Timed, DurationsMakeSense, Steps
<1>3. QED
  BY <1>1, <1>2, TimedStep, TypeCorrect, PTL DEF Spec
=============================================================================
