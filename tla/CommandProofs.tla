--------------------------- MODULE CommandProofs ----------------------------
(***************************************************************************)
(* The commands, whatever is asked of them and whatever the server says:   *)
(* headers.Less orders the names of any response, so that sort.Sort may be *)
(* used with it, and the printed order is the documented one; cmd/get      *)
(* reports no connection twice; cmd/httpstat saves one body, in place.     *)
(***************************************************************************)
EXTENDS HttpstatCli, HttpHeaders, Get, WellFoundedInduction, SequenceTheorems, TLAPS

\* Of two different names exactly one is less than the other.
THEOREM LessTotal ==
  ASSUME NEW a \in Names, NEW b \in Names, a # b
  PROVE  Less(a, b) <=> ~Less(b, a)
<1>1. rank[a] \in Nat /\ rank[b] \in Nat /\ rank[a] # rank[b]
  BY NamesAssumption
<1>2. CASE a = Server \/ b = Server
  BY <1>2 DEF Less
<1>3. CASE a # Server /\ b # Server /\ (endtoend(a) <=> endtoend(b))
  BY <1>1, <1>3 DEF Less, endtoend
<1>4. CASE a # Server /\ b # Server /\ ~(endtoend(a) <=> endtoend(b))
  BY <1>4 DEF Less, endtoend
<1>5. QED
  BY <1>2, <1>3, <1>4

\* Less is transitive on different names.
THEOREM LessTransitive ==
  ASSUME NEW a \in Names, NEW b \in Names, NEW c \in Names,
         a # b, b # c, a # c, Less(a, b), Less(b, c)
  PROVE  Less(a, c)
<1>1. rank[a] \in Nat /\ rank[b] \in Nat /\ rank[c] \in Nat
  BY NamesAssumption
<1>2. CASE a = Server
  BY <1>2 DEF Less
<1>3. CASE a # Server
  <2>1. b # Server /\ c # Server
    BY <1>3 DEF Less
  <2>2. IF endtoend(a) = endtoend(b) THEN rank[a] < rank[b] ELSE endtoend(a)
    BY <1>3, <2>1 DEF Less
  <2>3. IF endtoend(b) = endtoend(c) THEN rank[b] < rank[c] ELSE endtoend(b)
    BY <2>1 DEF Less
  <2>4. IF endtoend(a) = endtoend(c) THEN rank[a] < rank[c] ELSE endtoend(a)
    BY <1>1, <2>2, <2>3 DEF endtoend
  <2>5. QED
    BY <1>3, <2>1, <2>4 DEF Less
<1>4. QED
  BY <1>2, <1>3

-----------------------------------------------------------------------------
\* The list holds each of its names once, and once sorted has no pair that is out
\* of order.
IInv ==
  /\ names \in Seq(Names)
  /\ \A i, j \in DOMAIN names : names[i] = names[j] => i = j
  /\ sorted \in BOOLEAN
  /\ sorted => \A i, j \in DOMAIN names : i < j => ~Less(names[j], names[i])

\* A swap keeps a list of different names one.
LEMMA SwapKeeps ==
  ASSUME NEW s \in Seq(Names), NEW i \in DOMAIN s, NEW j \in DOMAIN s,
         \A k, l \in DOMAIN s : s[k] = s[l] => k = l
  PROVE  /\ Swap(s, i, j) \in Seq(Names)
         /\ \A k, l \in DOMAIN Swap(s, i, j) : Swap(s, i, j)[k] = Swap(s, i, j)[l] => k = l
<1>1. DOMAIN Swap(s, i, j) = DOMAIN s
  BY DEF Swap
<1>2. \A k \in DOMAIN s : Swap(s, i, j)[k] = IF k = j THEN s[i] ELSE IF k = i THEN s[j] ELSE s[k]
  BY DEF Swap
<1>3. Swap(s, i, j) \in Seq(Names)
  BY DEF Swap
<1>4. QED
  BY <1>1, <1>2, <1>3

\* A map lists each of its names once.
LEMMA InitIInv == Init => IInv
<1>. SUFFICES ASSUME Init PROVE IInv
  OBVIOUS
<1>1. names \in Listings /\ sorted = FALSE
  BY DEF Init
<1>2. PICK n \in 0..Cardinality(Names) : names \in [1..n -> Names]
  BY <1>1 DEF Listings
<1>3. names \in Seq(Names)
  BY <1>2
<1>4. QED
  BY Zenon, <1>1, <1>3 DEF IInv, Listings

\* Every step of the sort keeps it.
LEMMA NextIInv == IInv /\ [Next]_vars => IInv'
<1>. SUFFICES ASSUME IInv, [Next]_vars PROVE IInv'
  OBVIOUS
<1>1. CASE SortStep
  <2>1. PICK i \in DOMAIN names, j \in DOMAIN names : names' = Swap(names, i, j)
    BY <1>1 DEF SortStep
  <2>2. sorted = FALSE /\ sorted' = FALSE
    BY <1>1 DEF SortStep, IInv
  <2>3. QED
    BY Zenon, <2>1, <2>2, SwapKeeps DEF IInv
<1>2. CASE SortDone
  BY <1>2 DEF SortDone, IInv
<1>3. CASE UNCHANGED vars
  BY <1>3 DEF IInv, vars
<1>4. QED
  BY <1>1, <1>2, <1>3 DEF Next

\* Whatever the response, its headers are printed in the documented order.
THEOREM HeadersInOrder == Spec => []PrintedInOrder
<1>1. IInv => PrintedInOrder
  <2>. SUFFICES ASSUME IInv, sorted, NEW i \in DOMAIN names, NEW j \in DOMAIN names, i < j
                PROVE  /\ names[j] # Server
                       /\ endtoend(names[j]) => endtoend(names[i])
                       /\ (names[i] # Server /\ (endtoend(names[i]) <=> endtoend(names[j])))
                            => rank[names[i]] < rank[names[j]]
    BY DEF PrintedInOrder
  <2>1. names[i] \in Names /\ names[j] \in Names /\ names[i] # names[j]
    BY DEF IInv
  <2>2. Less(names[i], names[j]) /\ ~Less(names[j], names[i])
    BY <2>1, LessTotal DEF IInv
  <2>3. names[j] # Server
    BY <2>2 DEF Less
  <2>4. names[i] = Server => endtoend(names[i])
    BY NamesAssumption DEF endtoend
  <2>5. names[i] # Server =>
          IF endtoend(names[i]) = endtoend(names[j]) THEN rank[names[i]] < rank[names[j]]
          ELSE endtoend(names[i])
    BY <2>2, <2>3 DEF Less
  <2>6. QED
    BY <2>3, <2>4, <2>5 DEF endtoend
<1>2. QED
  BY <1>1, InitIInv, NextIInv, PTL DEF Spec

-----------------------------------------------------------------------------
\* cmd/get: the connection of the request in progress is in use and no other is; a
\* connection has been reported, once, exactly if it is closed; while main closes the
\* idle ones, those that are idle are on its list, and when it returns there is none.
GetInv ==
  /\ at \in {"get", "body", "idle", "closing", "exit", "fatal"} /\ current \in 0..MaxHops
  /\ conns \in [Ids -> {"none", "used", "idle", "left", "leaving", "ending", "closed"}]
  /\ toClose \subseteq Ids
  /\ reports = [c \in Ids |-> IF conns[c] = "closed" THEN 1 ELSE 0]
  /\ \A c \in Ids : conns[c] = "used" => c = current /\ at \in {"get", "body", "fatal"}
  /\ at = "get" /\ current # 0 => conns[current] = "used"
  /\ \A c \in toClose : at = "closing" /\ conns[c] \in {"idle", "ending", "closed"}
  /\ \A c \in Ids : conns[c] \in {"idle", "ending"} => at # "exit" /\ (at = "closing" => c \in toClose)

\* Every step of get keeps it.
LEMMA GetStep == ASSUME GetInv, [GetNext]_getVars PROVE GetInv'
<1>1. CASE UNCHANGED getVars
  BY <1>1 DEF GetInv, getVars
<1>2. CASE Dial
  BY <1>2 DEF Dial, GetInv, Ids
<1>3. CASE Redirect
  <2>1. PICK l \in {"idle", "left"} : conns' = [conns EXCEPT ![current] = l]
    BY Zenon, <1>3 DEF Redirect
  <2>2. /\ at = "get" /\ at' = "get" /\ current \in Ids /\ current' = 0 /\ reports' = reports
        /\ conns[current] = "used" /\ toClose' = toClose
    BY <1>3 DEF Redirect, GetInv, Ids
  <2>3. 0 \in 0..MaxHops
    BY HopsAssumption
  <2>4. /\ conns' \in [Ids -> {"none", "used", "idle", "left", "leaving", "ending", "closed"}]
        /\ \A c \in Ids : /\ conns'[c] # "used"
                          /\ conns'[c] = "closed" <=> conns[c] = "closed"
    BY <2>1, <2>2 DEF GetInv
  <2>5. reports' = [c \in Ids |-> IF conns'[c] = "closed" THEN 1 ELSE 0]
    BY <2>2, <2>4 DEF GetInv
  <2> QED
    BY <2>2, <2>3, <2>4, <2>5 DEF GetInv
<1>4. CASE Respond
  BY <1>4 DEF Respond, GetInv, Ids
<1>5. CASE GetFails
  BY <1>5 DEF GetFails, GetInv
<1>6. CASE CloseBody
  BY Zenon, <1>6 DEF CloseBody, GetInv
<1>7. CASE CloseIdle
  BY <1>7 DEF CloseIdle, GetInv
<1>8. CASE CloseNext
  BY <1>8 DEF CloseNext, GetInv
<1>9. CASE Return
  BY <1>9 DEF Return, GetInv
<1>10. ASSUME NEW c \in Ids, BeginClose(c) PROVE GetInv'
  BY <1>10 DEF BeginClose, GetInv, Ended
<1>11. ASSUME NEW c \in Ids, FinishClose(c) PROVE GetInv'
  BY <1>11 DEF FinishClose, GetInv, Ended
<1> QED
  BY <1>1, <1>2, <1>3, <1>4, <1>5, <1>6, <1>7, <1>8, <1>9, <1>10, <1>11 DEF GetNext

\* However many hops the request takes and whoever closes its connections, none is
\* reported twice, and when main returns only those left to the transport's
\* goroutines can be unreported.
THEOREM OnlyLeftIsUnreported == GetSpec => []OnlyLeftUnreported
<1>1. GetInit => GetInv
  BY HopsAssumption DEF GetInit, GetInv, Ids
<1>2. GetInv => OnlyLeftUnreported
  BY DEF GetInv, OnlyLeftUnreported
<1> QED
  BY <1>1, <1>2, GetStep, PTL DEF GetSpec

-----------------------------------------------------------------------------
\* httpstat: no file exists before a body has been read, and from then on there is
\* one exactly if it was asked for and the response had a body for it.
SaveInv ==
  /\ Len(files) <= 1
  /\ files # <<>> => last = "final"
  /\ pc \in {"main", "visit", "body"} => files = <<>>
  /\ pc \in {"redirect", "over"} => (Len(files) = 1 <=> (Saving /\ ~SkipsBody))

\* What is appended to files makes the only entry; who appends decides its name.
LEMMA SaveStep ==
  ASSUME SaveInv, [CliNext]_cliVars
  PROVE  SaveInv'
<1>1. CASE UNCHANGED cliVars
  BY <1>1 DEF SaveInv, cliVars, Saving, SkipsBody
<1>2. CASE Main
  <2>1. pc' \notin {"redirect", "over"} /\ files' = files /\ files = <<>>
    BY Zenon, <1>2 DEF Main, Verdict, SaveInv
  <2> QED
    BY <2>1 DEF SaveInv
<1>3. CASE Send
  <2>1. pc' = "body" /\ files' = files /\ files = <<>>
    BY <1>3 DEF Send, SaveInv
  <2> QED
    BY <2>1 DEF SaveInv
<1>4. CASE SendFails \/ CreateFails
  <2>1. pc' = "fatal" /\ files' = files /\ last' = last
    BY <1>4 DEF SendFails, CreateFails, Same
  <2> QED
    BY <2>1 DEF SaveInv
<1>5. CASE ReadBody
  <2>1. /\ pc = "body" /\ files = <<>> /\ pc' \in {"redirect", "fatal"}
        /\ last' = last /\ opts' = opts /\ method' = method
    BY <1>5 DEF ReadBody, SaveInv, Same
  <2>2. (Saving' <=> Saving) /\ (SkipsBody' <=> SkipsBody)
    BY <2>1 DEF Saving, SkipsBody
  <2>3. CASE files' = files /\ (SkipsBody \/ ~Saving)
    BY <2>1, <2>2, <2>3 DEF SaveInv
  <2>4. CASE ~SkipsBody /\ Saving /\ \E name : files' = Append(files, name)
    <3>1. PICK name : files' = <<name>>
      BY <2>1, <2>4
    <3>2. Len(files') = 1 /\ files' # <<>> /\ last' = "final"
      BY <2>1, <2>4, <3>1 DEF SkipsBody
    <3> QED
      BY <2>1, <2>2, <2>4, <3>2 DEF SaveInv
  <2> QED
    BY <1>5, <2>3, <2>4 DEF ReadBody, Same
<1>6. CASE Follow
  <2>1. /\ pc = "redirect" /\ files' = files /\ last' = last /\ opts' = opts /\ method' = method
    BY <1>6 DEF Follow
  <2>2. (Saving' <=> Saving) /\ (SkipsBody' <=> SkipsBody)
    BY <2>1 DEF Saving, SkipsBody
  <2>3. CASE opts.L /\ last = "redirect"
    <3>1. pc' \in {"fatal", "visit"} /\ files = <<>>
      BY <1>6, <2>1, <2>3 DEF Follow, SaveInv
    <3> QED
      BY <2>1, <3>1 DEF SaveInv
  <2>4. CASE ~(opts.L /\ last = "redirect")
    <3>1. pc' \in {"fatal", "over"}
      BY <1>6, <2>4 DEF Follow
    <3> QED
      BY <2>1, <2>2, <3>1 DEF SaveInv
  <2> QED
    BY <2>3, <2>4
<1> QED
  BY <1>1, <1>2, <1>3, <1>4, <1>5, <1>6 DEF CliNext

\* Whatever redirects the server sends, one body is saved, the last one.
THEOREM BodySavedOnce == CliSpec => []SavedOnce
<1>1. CliInit => SaveInv
  <2> SUFFICES ASSUME CliInit PROVE SaveInv
    OBVIOUS
  <2>1. files = <<>> /\ pc = "main"
    BY Zenon DEF CliInit
  <2>2. Len(files) = 0
    BY <2>1
  <2> QED
    BY <2>1, <2>2 DEF SaveInv
<1>2. SaveInv => SavedOnce
  BY DEF SaveInv, SavedOnce, SkipsBody
<1> QED
  BY <1>1, <1>2, SaveStep, PTL DEF CliSpec

\* A set of natural numbers with an upper bound has a greatest member, and Max is it.
LEMMA MaxIsGreatest ==
  ASSUME NEW n \in Nat, NEW S \in SUBSET (0..n), S # {}
  PROVE  Max(S) \in S /\ \A y \in S : y <= Max(S)
<1> DEFINE R == {ss \in Nat \X Nat : ss[1] < ss[2]}
           T == {n - x : x \in S}
<1>1. IsWellFoundedOn(R, Nat)
  BY NatLessThanWellFounded DEF OpToRel
<1>2. \A x, y \in Nat : <<x, y>> \in R <=> x < y
  OBVIOUS
<1>3. \A x \in S : x \in Nat /\ x <= n
  OBVIOUS
<1>4. T \subseteq Nat /\ T # {}
  <2>1. \A x \in S : n - x \in Nat
    BY <1>3
  <2> QED
    BY <2>1, Zenon
<1> HIDE DEF R
<1>5. PICK t \in T : \A y \in T : ~(<<y, t>> \in R)
  BY Zenon, <1>1, <1>4, WFMin
<1>6. PICK m \in S : t = n - m
  OBVIOUS
<1>7. ASSUME NEW y \in S PROVE m >= y
  <2>1. n - y \in T /\ n - y \in Nat /\ n - m \in Nat
    BY <1>3
  <2>2. ~(n - y < n - m)
    BY Zenon, <1>2, <1>5, <1>6, <2>1
  <2> QED
    BY <1>3, <2>2
<1>8. Max(S) \in S /\ \A y \in S : Max(S) >= y
  BY Zenon, <1>7 DEF Max
<1> QED
  BY <1>3, <1>8

\* A sequence of one is not empty.
LEMMA OneIsSome == ASSUME NEW c PROVE <<c>> # <<>>
<1>1. <<c>> \in Seq({c})
  OBVIOUS
<1>2. Len(<<c>>) = 1 /\ Len(<<>>) = 0
  BY <1>1, EmptySeq
<1> QED
  BY <1>1, <1>2

\* path.Base gives one name: it is not empty, and it has no slash unless it is the
\* slash that stands for the root.
LEMMA BaseIsOneName ==
  ASSUME NEW p \in Seq(STRING)
  PROVE  /\ Base(p) # <<>>
         /\ Base(p) = <<"/">> \/ "/" \notin Range(Base(p))
<1> DEFINE named == {i \in DOMAIN p : p[i] # "/"}
<1>1. CASE p = <<>>
  <2>1. Base(p) = <<".">>
    BY <1>1 DEF Base
  <2>2. <<".">> # <<>>
    BY OneIsSome, Zenon
  <2>3. "/" \notin Range(<<".">>)
    BY DEF Range
  <2> QED
    BY <2>1, <2>2, <2>3
<1>2. CASE p # <<>> /\ named = {}
  <2>1. Base(p) = <<"/">>
    BY <1>2 DEF Base
  <2>2. <<"/">> # <<>>
    BY OneIsSome, Zenon
  <2> QED
    BY <2>1, <2>2
<1>3. CASE p # <<>> /\ named # {}
  <2>1. PICK n \in Nat : n = Len(p)
    OBVIOUS
  <2>2. named \in SUBSET (0..n) /\ DOMAIN p = 1..n
    BY <2>1
  <2>3. PICK m : m = Max(named)
    BY Zenon
  <2>4. m \in named
    BY Zenon, <1>3, <2>2, <2>3, MaxIsGreatest
  <2>5. m \in 1..n /\ p[m] # "/"
    BY <2>2, <2>4
  <2>6. PICK cut \in Seq(STRING) : /\ cut = SubSeq(p, 1, m) /\ Len(cut) = m
                                   /\ \A i \in 1..m : cut[i] = p[i]
    <3>1. m \in Int /\ \A i \in 1..m : p[i] \in STRING
      BY <2>1, <2>5
    <3>2. /\ SubSeq(p, 1, m) \in Seq(STRING) /\ Len(SubSeq(p, 1, m)) = m
          /\ \A i \in 1..m : SubSeq(p, 1, m)[i] = p[i]
      BY <2>5, <3>1, SubSeqProperties
    <3> QED
      BY Zenon, <3>2
  <2> DEFINE slashes == {i \in DOMAIN cut : cut[i] = "/"}
  <2>7. {0} \cup slashes \in SUBSET (0..m) /\ m \notin slashes /\ DOMAIN cut = 1..m
    BY <2>5, <2>6
  <2>8. PICK s : s = Max({0} \cup slashes)
    BY Zenon
  <2>9. s \in {0} \cup slashes /\ \A y \in slashes : y <= s
    <3>1. m \in Nat /\ {0} \cup slashes # {}
      BY <2>5
    <3> HIDE DEF slashes
    <3> QED
      BY Zenon, <2>7, <2>8, <3>1, MaxIsGreatest
  <2>10. s \in 0..m /\ s # m
    BY <2>5, <2>7, <2>9
  <2>11. Base(p) = SubSeq(cut, s + 1, Len(cut))
    BY Zenon, <1>3, <2>3, <2>6, <2>8 DEF Base
  <2>12. PICK b \in Seq(STRING) : /\ b = SubSeq(cut, s + 1, m) /\ Len(b) = m - s
                                  /\ \A j \in 1..m - s : b[j] = cut[s + j]
    <3>1. s + 1 \in Int /\ m \in Int /\ s + 1 <= m /\ \A i \in s + 1..m : cut[i] \in STRING
      BY <2>5, <2>6, <2>10
    <3>2. /\ SubSeq(cut, s + 1, m) \in Seq(STRING) /\ Len(SubSeq(cut, s + 1, m)) = m - (s + 1) + 1
          /\ \A j \in 1..m - (s + 1) + 1 : SubSeq(cut, s + 1, m)[j] = cut[s + 1 + j - 1]
      BY <3>1, SubSeqProperties
    <3>3. m - (s + 1) + 1 = m - s /\ \A j \in 1..m - s : s + 1 + j - 1 = s + j
      BY <2>5, <2>10
    <3>4. /\ SubSeq(cut, s + 1, m) \in Seq(STRING) /\ Len(SubSeq(cut, s + 1, m)) = m - s
          /\ \A j \in 1..m - s : SubSeq(cut, s + 1, m)[j] = cut[s + j]
      BY <3>2, <3>3
    <3> QED
      BY <3>4, Zenon
  <2>13. ASSUME NEW j \in DOMAIN b, b[j] = "/" PROVE FALSE
    <3>1. j \in 1..m - s /\ s + j \in 1..m /\ s + j > s
      BY <2>5, <2>10, <2>12, SMTT(20)
    <3>2. s + j \in slashes
      BY <2>7, <2>12, <2>13, <3>1
    <3> QED
      BY <2>5, <2>9, <2>10, <3>1, <3>2
  <2>14. "/" \notin Range(b)
    BY <2>13 DEF Range
  <2>15. b # <<>>
    <3>1. Len(b) # 0
      BY <2>5, <2>10, <2>12
    <3> QED
      BY <3>1
  <2> QED
    BY <2>6, <2>11, <2>12, <2>14, <2>15
<1> QED
  BY <1>1, <1>2, <1>3

\* Every name that is saved to is the one ReadBody decided on, for the same options.
HereInv == SaveInv /\ SavedHere

\* Whatever the header and the URL say, -O saves under a name of its own, with no
\* separator where the slash is the only one (everywhere but on Windows), and -o
\* under the user's.
THEOREM SavedInPlace == CliSpec => []SavedHere
<1>1. CliInit => HereInv
  <2> SUFFICES ASSUME CliInit PROVE HereInv
    OBVIOUS
  <2>1. files = <<>> /\ pc = "main"
    BY Zenon DEF CliInit
  <2>2. Len(files) = 0 /\ DOMAIN files = {}
    BY <2>1
  <2> QED
    BY <2>1, <2>2 DEF HereInv, SaveInv, SavedHere
<1>2. ASSUME HereInv, [CliNext]_cliVars PROVE HereInv'
  <2>1. SaveInv'
    BY <1>2, SaveStep DEF HereInv
  <2>2. opts' = opts
    BY <1>2 DEF CliNext, cliVars, Main, Send, SendFails, ReadBody, CreateFails, Follow, Same
  <2>3. CASE files' = files
    BY <1>2, <2>1, <2>2, <2>3 DEF HereInv, SavedHere, Separators
  <2>4. CASE files' # files
    <3>1. ReadBody
      BY <1>2, <2>4 DEF CliNext, cliVars, Main, Send, SendFails, CreateFails, Follow, Same
    <3>2. files = <<>>
      BY <1>2, <3>1 DEF ReadBody, HereInv, SaveInv
    <3>3. PICK header \in PathNames, uri \in PathNames :
            LET name == IF opts.O THEN RemoteName(header, uri) ELSE opts.o
            IN ~(opts.O /\ name \in NoName) /\ files' = Append(files, name)
      BY <2>4, <3>1 DEF ReadBody, Same
    <3>4. PICK name : /\ name = IF opts.O THEN RemoteName(header, uri) ELSE opts.o
                      /\ ~(opts.O /\ name \in NoName) /\ files' = Append(files, name)
      BY <3>3
    <3>5. DOMAIN files' = {1} /\ files'[1] = name
      BY <3>2, <3>4
    <3>6. opts.O => name # <<>> /\ name \notin NoName /\ "/" \notin Range(name)
      <4> SUFFICES ASSUME opts.O
                   PROVE  name # <<>> /\ name \notin NoName /\ "/" \notin Range(name)
        OBVIOUS
      <4>1. PICK p \in PathNames : name = Base(p)
        BY <3>4 DEF RemoteName
      <4>2. p \in Seq(STRING)
        BY CliAssumption
      <4>3. name # <<>> /\ (name = <<"/">> \/ "/" \notin Range(name))
        BY <4>1, <4>2, BaseIsOneName
      <4> QED
        BY <3>4, <4>3 DEF NoName
    <3>7. opts.O /\ ~opts.windows => Range(name) \cap Separators = {}
      BY <3>6 DEF Separators
    <3> QED
      BY <2>1, <2>2, <3>4, <3>5, <3>6, <3>7 DEF HereInv, SavedHere, Separators
  <2> QED
    BY <2>3, <2>4
<1>3. HereInv => SavedHere
  BY DEF HereInv
<1> QED
  BY <1>1, <1>2, <1>3, PTL DEF CliSpec
=============================================================================
