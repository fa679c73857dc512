---------------------------- MODULE TcpInfoProofs ----------------------------
(***************************************************************************)
(* Proofs about TcpInfoLinux, for every set of hosts and overrides, and    *)
(* about the samples of TcpInfo, for every struct a kernel may fill in.    *)
(***************************************************************************)
EXTENDS TcpInfoLinux, TcpInfo, FiniteSetTheorems, TLAPS

\* CompareKernelVersion answers -1, 0 or 1, and 0 only for equal versions.
LEMMA CompareValues ==
  ASSUME NEW a \in Version, NEW b \in Version
  PROVE  /\ CompareKernelVersion(a, b) \in {-1, 0, 1}
         /\ CompareKernelVersion(a, b) = 0 <=> a = b
         /\ CompareKernelVersion(a, b) = -CompareKernelVersion(b, a)
  BY DEF CompareKernelVersion, Version

\* AtLeast is transitive, so a version that reaches a row reaches every row
\* older than it.
LEMMA AtLeastTransitive ==
  ASSUME NEW a \in Version, NEW b \in Version, NEW c \in Version,
         AtLeast(a, b), AtLeast(b, c)
  PROVE  AtLeast(a, c)
  BY DEF AtLeast, CompareKernelVersion, Version

\* Of two versions, one is at least the other.
LEMMA AtLeastTotal ==
  ASSUME NEW a \in Version, NEW b \in Version
  PROVE  AtLeast(a, b) \/ AtLeast(b, a)
  BY DEF AtLeast, CompareKernelVersion, Version

\* Every row of tcpInfoSizes has a version and at least the 104 bytes of 2.6.2.
LEMMA RowType ==
  ASSUME NEW i \in Rows
  PROVE  /\ tcpInfoSizes[i].Version \in Version
         /\ tcpInfoSizes[i].Size \in Nat
         /\ tcpInfoSizes[i].Size >= 104
<1>1. i \in {1, 2, 3, 4, 5, 6, 7, 8, 9, 10, 11, 12, 13}
  BY DEF Rows
<1> QED
  BY <1>1 DEF tcpInfoSizes, V, Version

\* tcpInfoSizes is sorted: the next row is never older.
LEMMA NextRow ==
  ASSUME NEW i \in 1 .. 12
  PROVE  AtLeast(tcpInfoSizes[i + 1].Version, tcpInfoSizes[i].Version)
<1>1. i \in {1, 2, 3, 4, 5, 6, 7, 8, 9, 10, 11, 12}
  OBVIOUS
<1> QED
  BY <1>1 DEF tcpInfoSizes, V, AtLeast, CompareKernelVersion

\* A version that reaches a row reaches every older row: scanning from the
\* newest row and raising all flags below the first hit is the same as comparing
\* with each row.
LEMMA ReachedDownwards ==
  ASSUME NEW v \in Version, NEW i \in Rows, NEW j \in Rows, i <= j, Reached(v, j)
  PROVE  Reached(v, i)
<1> DEFINE P(k) == Reached(v, k)
<1>1. \A k \in 1 .. 12 : P(k + 1) => P(k)
  <2> SUFFICES ASSUME NEW k \in 1 .. 12, P(k + 1)
               PROVE  P(k)
    OBVIOUS
  <2>1. k \in Rows /\ k + 1 \in Rows
    BY DEF Rows
  <2> QED
    BY <2>1, RowType, NextRow, AtLeastTransitive DEF Reached
<1> HIDE DEF P
<1>2. /\ (P(2) => P(1)) /\ (P(3) => P(2)) /\ (P(4) => P(3)) /\ (P(5) => P(4))
      /\ (P(6) => P(5)) /\ (P(7) => P(6)) /\ (P(8) => P(7)) /\ (P(9) => P(8))
      /\ (P(10) => P(9)) /\ (P(11) => P(10)) /\ (P(12) => P(11)) /\ (P(13) => P(12))
  BY <1>1
<1>3. P(j) => P(i)
  BY <1>2, i <= j DEF Rows
<1> QED
  BY <1>3 DEF P

\* adaptToKernelVersion sets every flag to what its name says.
LEMMA AdaptedExact ==
  ASSUME NEW v \in Version, NEW i \in Rows
  PROVE  AdaptedFlags(v)[i] <=> Reached(v, i)
<1>1. AdaptedFlags(v)[i] <=> \E j \in Rows : j >= i /\ Reached(v, j)
  BY DEF AdaptedFlags
<1>2. ASSUME NEW j \in Rows, j >= i, Reached(v, j)
      PROVE  Reached(v, i)
  BY <1>2, ReachedDownwards DEF Rows
<1>3. i >= i
  BY DEF Rows
<1> QED
  BY <1>1, <1>2, <1>3

\* The strengthening FlagsExact needs: the version in force is a version.
FlagsInv == linuxKernelVersion \in Version /\ FlagsExact

\* After init() and after every override of the kernel version each
\* kernelVersionIsAtLeast flag is exact, whatever the host and the overrides.
THEOREM FlagsAlwaysExact == Spec => []FlagsExact
<1>1. Init => FlagsInv
  <2> SUFFICES ASSUME Init
               PROVE  FlagsInv
    OBVIOUS
  <2>1. linuxKernelVersion \in Version
    BY VersionsAssumption DEF Init, V, Version
  <2> QED
    BY <2>1, AdaptedExact DEF Init, FlagsInv, FlagsExact, Reached
<1>2. FlagsInv /\ [Next]_vars => FlagsInv'
  <2> SUFFICES ASSUME FlagsInv, [Next]_vars
               PROVE  FlagsInv'
    OBVIOUS
  <2>1. CASE GetTCPInfo
    BY Zenon, <2>1 DEF GetTCPInfo, FlagsInv, FlagsExact
  <2>2. ASSUME NEW v \in Overrides, Override(v)
        PROVE  FlagsInv'
    <3>1. linuxKernelVersion' = v /\ v \in Version
      BY <2>2, VersionsAssumption DEF Override
    <3> QED
      BY <2>2, <3>1, AdaptedExact DEF Override, FlagsInv, FlagsExact, Reached
  <2>3. CASE UNCHANGED vars
    BY <2>3 DEF vars, FlagsInv, FlagsExact
  <2> QED
    BY <2>1, <2>2, <2>3 DEF Next
<1>3. FlagsInv => FlagsExact
  BY DEF FlagsInv
<1> QED
  BY <1>1, <1>2, <1>3, PTL DEF Spec

\* Exactly one row is the newest reached, when any is.
LEMMA NewestReached ==
  ASSUME NEW v \in Version, NEW k \in Rows, Reached(v, k)
  PROVE  \E i \in Rows : Reached(v, i) /\ \A j \in Rows : j > i => ~Reached(v, j)
<1> DEFINE P(n) == Reached(v, n)
<1> HIDE DEF P
<1>1. P(k)
  BY DEF P
<1>2. \E i \in Rows : P(i) /\ \A j \in Rows : j > i => ~P(j)
  <2>1. k \in {1, 2, 3, 4, 5, 6, 7, 8, 9, 10, 11, 12, 13}
    BY DEF Rows
  <2>2. ASSUME \A i \in Rows : P(i) => \E j \in Rows : j > i /\ P(j)
        PROVE  FALSE
    <3>1. ~P(13)
      BY <2>2 DEF Rows
    <3>2. ~P(12)
      BY <2>2, <3>1 DEF Rows
    <3>3. ~P(11)
      BY <2>2, <3>1, <3>2 DEF Rows
    <3>4. ~P(10)
      BY <2>2, <3>1, <3>2, <3>3 DEF Rows
    <3>5. ~P(9)
      BY <2>2, <3>1, <3>2, <3>3, <3>4 DEF Rows
    <3>6. ~P(8)
      BY <2>2, <3>1, <3>2, <3>3, <3>4, <3>5 DEF Rows
    <3>7. ~P(7)
      BY <2>2, <3>1, <3>2, <3>3, <3>4, <3>5, <3>6 DEF Rows
    <3>8. ~P(6) /\ ~P(5)
      BY <2>2, <3>1, <3>2, <3>3, <3>4, <3>5, <3>6, <3>7 DEF Rows
    <3>9. ~P(4) /\ ~P(3) /\ ~P(2) /\ ~P(1)
      BY <2>2, <3>1, <3>2, <3>3, <3>4, <3>5, <3>6, <3>7, <3>8 DEF Rows
    <3> QED
      BY <1>1, <2>1, <3>1, <3>2, <3>3, <3>4, <3>5, <3>6, <3>7, <3>8, <3>9
  <2> QED
    BY <2>2
<1> QED
  BY <1>2 DEF P

\* The length adaptToKernelVersion leaves is a row's when a row is reached.
LEMMA AdaptedSizeEnough ==
  ASSUME NEW v \in Version, NEW old \in Nat
  PROVE  /\ AdaptedSize(v, old) \in Nat
         /\ AdaptedFlags(v)[1] => AdaptedSize(v, old) >= 104
<1>1. CASE \A i \in Rows : ~Reached(v, i)
  BY <1>1, AdaptedExact DEF AdaptedSize, Rows
<1>2. CASE \E i \in Rows : Reached(v, i)
  <2> DEFINE Newest(i) == Reached(v, i) /\ \A j \in Rows : j > i => ~Reached(v, j)
             r == CHOOSE i \in Rows : Newest(i)
  <2>1. \E i \in Rows : Newest(i)
    BY <1>2, NewestReached
  <2>2. r \in Rows
    BY <2>1
  <2>3. AdaptedSize(v, old) = tcpInfoSizes[r].Size
    BY <1>2 DEF AdaptedSize
  <2> QED
    BY <2>2, <2>3, RowType
<1> QED
  BY <1>1, <1>2

\* The strengthening BaseIsWritten needs: with the 2.6.2 flag up the length is
\* that of a row, and an info is returned only with that flag up.
SizeInv ==
  /\ linuxKernelVersion \in Version
  /\ sizeOfRawTCPInfo \in Nat
  /\ flags[1] => sizeOfRawTCPInfo >= 104
  /\ result.info => flags[1]

\* GetTCPInfo never decodes a buffer the kernel was asked to fill with fewer
\* than the 104 bytes of the fields without a Valid mark, although
\* sizeOfRawTCPInfo may be zero or stale.
THEOREM BaseAlwaysWritten == Spec => []BaseIsWritten
<1>1. Init => SizeInv
  <2> SUFFICES ASSUME Init
               PROVE  SizeInv
    OBVIOUS
  <2>1. linuxKernelVersion \in Version
    BY VersionsAssumption DEF Init, V, Version
  <2> QED
    BY Zenon, <2>1, AdaptedSizeEnough DEF Init, SizeInv, NoInfo
<1>2. SizeInv /\ [Next]_vars => SizeInv'
  <2> SUFFICES ASSUME SizeInv, [Next]_vars
               PROVE  SizeInv'
    OBVIOUS
  <2>1. CASE GetTCPInfo
    BY Zenon, <2>1 DEF GetTCPInfo, SizeInv, NoInfo
  <2>2. ASSUME NEW v \in Overrides, Override(v)
        PROVE  SizeInv'
    <3>1. v \in Version
      BY <2>2, VersionsAssumption
    <3> QED
      BY Zenon, <2>2, <3>1, AdaptedSizeEnough DEF Override, SizeInv, NoInfo
  <2>3. CASE UNCHANGED vars
    BY <2>3 DEF vars, SizeInv
  <2> QED
    BY <2>1, <2>2, <2>3 DEF Next
<1>3. SizeInv => BaseIsWritten
  BY DEF SizeInv, BaseIsWritten
<1> QED
  BY <1>1, <1>2, <1>3, PTL DEF Spec

-----------------------------------------------------------------------------
\* The fields each flag's block of Unpack marks, against those the release added:
\* 6.2's block also marks what 6.7 added, and 6.7 has no block.
LEMMA GatedRows ==
  /\ \A i \in Rows : i \notin {12, 13} => Gated[i] = AddedIn[i]
  /\ Gated[12] = AddedIn[12] \cup AddedIn[13]
  /\ Gated[13] = {}
BY SMTT(30) DEF Gated, AddedIn, Rows

\* Where the last field of each block of Unpack ends.
BlockEnd == <<0, 120, 136, 144, 160, 168, 192, 200, 224, 232, 8, 248, 0>>

\* No field that a block marks ends behind the block's end.
LEMMA GatedEnd ==
  ASSUME NEW i \in Rows, NEW f \in Gated[i]
  PROVE  End[f] \in Nat /\ End[f] <= BlockEnd[i]
<1> USE DEF AddedIn
<1>1. CASE i = 1 \/ i = 13
  BY <1>1, GatedRows DEF Rows
<1>2. CASE i = 2 \/ i = 3 \/ i = 4
  <2>1. f \in AddedIn[i]
    BY <1>2, GatedRows DEF Rows
  <2> QED
    BY <1>2, <2>1, SMTT(30) DEF End, BlockEnd
<1>3. CASE i = 5 \/ i = 6 \/ i = 7
  <2>1. f \in AddedIn[i]
    BY <1>3, GatedRows DEF Rows
  <2> QED
    BY <1>3, <2>1, SMTT(30) DEF End, BlockEnd
<1>4. CASE i = 8 \/ i = 9
  <2>1. f \in AddedIn[i]
    BY <1>4, GatedRows DEF Rows
  <2> QED
    BY <1>4, <2>1, SMTT(30) DEF End, BlockEnd
<1>5. CASE i = 10 \/ i = 11
  <2>1. f \in AddedIn[i]
    BY <1>5, GatedRows DEF Rows
  <2> QED
    BY <1>5, <2>1, SMTT(30) DEF End, BlockEnd
<1>6. CASE i = 12
  <2>1. f \in AddedIn[12] \cup AddedIn[13]
    BY <1>6, GatedRows DEF Rows
  <2> QED
    BY <1>6, <2>1, SMTT(30) DEF End, BlockEnd
<1> QED
  BY <1>1, <1>2, <1>3, <1>4, <1>5, <1>6 DEF Rows

\* The length asked for on a version covers its block and all older ones, but for
\* 4.9 (148 bytes, its own field ends at 168) and for 6.2 (240 bytes, it marks
\* fields that end at 248).
LEMMA SizeCovers ==
  ASSUME NEW n \in Rows, n \notin {6, 12}, NEW i \in Rows, i <= n
  PROVE  BlockEnd[i] <= tcpInfoSizes[n].Size
<1>1. i \in {1, 2, 3, 4, 5, 6, 7, 8, 9, 10, 11, 12, 13}
  BY DEF Rows
<1> USE DEF tcpInfoSizes, BlockEnd, Rows
<1>2. CASE n \in {1, 2, 3, 4}
  BY <1>1, <1>2
<1>3. CASE n \in {5, 7, 8}
  BY <1>1, <1>3
<1>4. CASE n \in {9, 10, 11, 13}
  BY <1>1, <1>4
<1> QED
  BY <1>2, <1>3, <1>4

\* The length in force is that of the newest row the version reaches.
NewestRow(v, n) == Reached(v, n) /\ \A j \in Rows : j > n => ~Reached(v, j)

\* adaptToKernelVersion takes the length of the newest row reached.
LEMMA AdaptedSizeNewest ==
  ASSUME NEW v \in Version, NEW old, NEW n \in Rows, NewestRow(v, n)
  PROVE  AdaptedSize(v, old) = tcpInfoSizes[n].Size
<1> DEFINE r == CHOOSE i \in Rows : Reached(v, i) /\ \A j \in Rows : j > i => ~Reached(v, j)
<1>1. r \in Rows /\ Reached(v, r) /\ \A j \in Rows : j > r => ~Reached(v, j)
  BY DEF NewestRow
<1>2. AdaptedSize(v, old) = tcpInfoSizes[r].Size
  BY DEF AdaptedSize, NewestRow
<1> HIDE DEF r
<1>3. r = n
  BY <1>1 DEF NewestRow, Rows
<1> QED
  BY <1>2, <1>3

\* The result in hand was made with the flags and the length in force.
ResultInv ==
  /\ host \in Version /\ linuxKernelVersion \in Version
  /\ FlagsExact
  /\ \A n \in Rows : NewestRow(linuxKernelVersion, n) => sizeOfRawTCPInfo = tcpInfoSizes[n].Size
  /\ result.info \in BOOLEAN
  /\ result.info => result.valid = Unpack /\ result.written = GetRawTCPInfo
  /\ ~result.info => result.valid = {}

\* The result of GetTCPInfo is always one of the version in force: an override
\* discards what was read before.
THEOREM ResultsCurrent == Spec => []ResultInv
<1>1. Init => ResultInv
  <2> SUFFICES ASSUME Init PROVE ResultInv
    OBVIOUS
  <2>1. host \in Version /\ linuxKernelVersion \in Version
    BY VersionsAssumption DEF Init, V, Version
  <2>2. FlagsExact
    BY <2>1, AdaptedExact DEF Init, FlagsExact, Reached
  <2>3. \A n \in Rows :
          NewestRow(linuxKernelVersion, n) => sizeOfRawTCPInfo = tcpInfoSizes[n].Size
    BY <2>1, AdaptedSizeNewest DEF Init
  <2> QED
    BY Zenon, <2>1, <2>2, <2>3 DEF Init, ResultInv, NoInfo
<1>2. ResultInv /\ [Next]_vars => ResultInv'
  <2> SUFFICES ASSUME ResultInv, [Next]_vars PROVE ResultInv'
    OBVIOUS
  <2>1. CASE GetTCPInfo
    <3>1. UNCHANGED <<host, linuxKernelVersion, flags, sizeOfRawTCPInfo>>
      BY Zenon, <2>1 DEF GetTCPInfo
    <3>2. Unpack' = Unpack /\ GetRawTCPInfo' = GetRawTCPInfo /\ FlagsExact'
      BY <3>1 DEF Unpack, GetRawTCPInfo, FlagsExact, ResultInv
    <3>3. \/ ~result'.info /\ result'.valid = {} /\ result'.info \in BOOLEAN
          \/ result'.info /\ result'.info \in BOOLEAN
             /\ result'.valid = Unpack /\ result'.written = GetRawTCPInfo
      <4>1. \/ \E e : result' = [NoInfo EXCEPT !.err = e]
            \/ \E a, b, e : result' = Result(a, b, e)
        BY <2>1, Zenon DEF GetTCPInfo
      <4>2. ASSUME NEW e, result' = [NoInfo EXCEPT !.err = e]
            PROVE  result'.info = FALSE /\ result'.valid = {}
        BY Zenon, <4>2 DEF NoInfo
      <4>3. ASSUME NEW a, NEW b, NEW e, result' = Result(a, b, e)
            PROVE  result'.info = TRUE /\ result'.valid = Unpack /\ result'.written = GetRawTCPInfo
        BY <4>3 DEF Result
      <4> QED
        BY Zenon, <4>1, <4>2, <4>3
    <3> QED
      BY <3>1, <3>2, <3>3 DEF ResultInv
  <2>2. ASSUME NEW v \in Overrides, Override(v) PROVE ResultInv'
    <3>1. linuxKernelVersion' = v /\ v \in Version /\ host' = host
      BY <2>2, VersionsAssumption DEF Override
    <3>2. FlagsExact'
      BY <2>2, <3>1, AdaptedExact DEF Override, FlagsExact, Reached
    <3>3. \A n \in Rows : NewestRow(v, n) => sizeOfRawTCPInfo' = tcpInfoSizes[n].Size
      BY <2>2, <3>1, AdaptedSizeNewest DEF Override
    <3>4. result'.info = FALSE /\ result'.valid = {}
      BY Zenon, <2>2 DEF Override, NoInfo
    <3> QED
      BY Zenon, <3>1, <3>2, <3>3, <3>4 DEF ResultInv
  <2>3. CASE UNCHANGED vars
    BY Zenon, <2>3 DEF vars, ResultInv, FlagsExact, Unpack, GetRawTCPInfo
  <2> QED
    BY <2>1, <2>2, <2>3 DEF Next
<1> QED
  BY <1>1, <1>2, PTL DEF Spec

\* On a kernel at least as new as the version believed, which is neither 4.9 nor 6.2
\* to 6.6, every field marked Valid was written by the kernel.
THEOREM ValidAlwaysWritten == Spec => []ValidWasWritten
<1>1. ResultInv => ValidWasWritten
  <2> SUFFICES ASSUME ResultInv, AtLeast(host, linuxKernelVersion), ~Gaps(linuxKernelVersion),
                      result.info, NEW f \in Unpack
               PROVE  f \in Written(host, sizeOfRawTCPInfo)
    BY DEF ResultInv, ValidWasWritten, ToMap, GetRawTCPInfo
  <2> DEFINE v == linuxKernelVersion
  <2>1. PICK i \in Rows : flags[i] /\ f \in Gated[i]
    BY DEF Unpack
  <2>2. v \in Version /\ host \in Version /\ Reached(v, i)
    BY <2>1 DEF ResultInv, FlagsExact, Reached
  <2>3. PICK n \in Rows : NewestRow(v, n)
    BY <2>2, NewestReached DEF NewestRow
  <2>4. i <= n /\ sizeOfRawTCPInfo = tcpInfoSizes[n].Size
    BY <2>2, <2>3 DEF NewestRow, ResultInv, Rows
  <2>5. /\ tcpInfoSizes[6].Version = V(4, 9, 0) /\ tcpInfoSizes[7].Version = V(4, 10, 0)
        /\ tcpInfoSizes[12].Version = V(6, 2, 0) /\ tcpInfoSizes[13].Version = V(6, 7, 0)
    BY Zenon DEF tcpInfoSizes
  <2>6. (Reached(v, 6) => Reached(v, 7)) /\ (Reached(v, 12) => Reached(v, 13))
    BY <2>5 DEF Gaps, Between, Reached
  <2>7. n \notin {6, 12}
    BY <2>3, <2>6 DEF NewestRow, Rows
  <2>8. End[f] <= sizeOfRawTCPInfo
    <3>1. End[f] \in Nat /\ End[f] <= BlockEnd[i]
      BY <2>1, GatedEnd
    <3>2. BlockEnd[i] <= tcpInfoSizes[n].Size
      BY <2>4, <2>7, SizeCovers
    <3>3. BlockEnd[i] \in Nat /\ tcpInfoSizes[n].Size \in Nat
      BY RowType DEF BlockEnd, Rows
    <3> QED
      BY <2>4, <3>1, <3>2, <3>3
  <2>9. PICK j \in Rows : f \in AddedIn[j] /\ Reached(v, j)
    BY <2>1, <2>2, <2>6, GatedRows DEF Rows
  <2>10. Reached(host, j)
    BY <2>2, <2>9, RowType, AtLeastTransitive DEF Reached
  <2> QED
    BY <2>8, <2>9, <2>10 DEF Written, Provided
<1> QED
  BY <1>1, ResultsCurrent, PTL

\* Unpack marks every field the kernel wrote that the version believed has.
THEOREM NoneWithheld == Spec => []NothingWithheld
<1>1. ResultInv => NothingWithheld
  <2> SUFFICES ASSUME ResultInv, result.info, NEW f \in Provided(linuxKernelVersion)
               PROVE  f \in Unpack
    BY DEF ResultInv, NothingWithheld, ToMap
  <2>1. PICK i \in Rows : Reached(linuxKernelVersion, i) /\ f \in AddedIn[i]
    BY DEF Provided
  <2>2. PICK j \in Rows : j <= i /\ f \in Gated[j]
    BY <2>1, GatedRows DEF Rows
  <2>3. Reached(linuxKernelVersion, j)
    BY <2>1, <2>2, ReachedDownwards DEF ResultInv
  <2>4. flags[j]
    BY <2>3 DEF ResultInv, FlagsExact, Reached
  <2> QED
    BY <2>2, <2>4 DEF Unpack
<1> QED
  BY <1>1, ResultsCurrent, PTL

-----------------------------------------------------------------------------
\* What the kernels of the platforms may fill in.
RawType == [RawFields(platform) -> Nat]

\* A sample under way: the struct and how it is to be read suit the platform, and on
\* Windows a request that failed while the kernel knows its version is a fault.
SampleInv ==
  /\ platform \in Platforms
  /\ speaks \in {{}, {0}, {0, 1}} /\ (platform # "windows" => speaks = {})
  /\ step \in {"start", "v0", "done"} /\ (step = "v0" => platform = "windows")
  /\ raw \in RawType /\ err \in BOOLEAN /\ faults \in Nat
  /\ step # "done" => ~err
  /\ step = "v0" /\ 1 \in speaks => faults > 0
  /\ step = "done" /\ platform = "linux" => how \in LinuxNullable
  /\ step = "done" /\ platform = "windows" /\ err => faults > 0 \/ speaks = {}
  /\ step = "done" /\ platform = "windows" /\ ~err =>
       how \in speaks /\ (how = 0 /\ 1 \in speaks => faults > 0)
  /\ step = "done" /\ platform = "other" => err

\* A struct that is filled in is one of the platform's.
LEMMA FillType ==
  ASSUME platform' = platform, Fill
  PROVE  raw' \in RawType'
<1> DEFINE F == RawFields(platform)
<1>1. \A f : Values(f) \subseteq Nat
  BY InputsAssumption DEF Values
<1>2. PICK f \in F, g \in F, v \in Nat, w \in Nat :
        raw' = [Zero(platform) EXCEPT ![f] = v, ![g] = w]
  BY Zenon, <1>1 DEF Fill
<1>3. Zero(platform) \in [F -> Nat]
  BY DEF Zero
<1> HIDE DEF F
<1>4. raw' \in [F -> Nat]
  BY <1>2, <1>3
<1> QED
  BY <1>4 DEF RawType, F

\* One request of Windows.
LEMMA IoctlKeeps ==
  ASSUME SampleInv, Kept, platform = "windows", step # "done",
         NEW v \in {0, 1}, NEW next \in {"v0", "done"}, NEW failed \in BOOLEAN,
         WSAIoctl(v, next, failed)
  PROVE  /\ raw' \in RawType' /\ err' \in BOOLEAN /\ faults' \in Nat
         /\ \/ v \in speaks /\ step' = "done" /\ how' = v /\ ~err' /\ faults' = faults
            \/ step' = next /\ err' = failed /\ (v \in speaks => faults' > 0)
               /\ (faults > 0 => faults' > 0)
<1>1. platform' = platform /\ speaks' = speaks
  BY DEF Kept
<1>2. CASE v \in speaks /\ step' = "done" /\ Fill /\ how' = v /\ UNCHANGED <<err, faults>>
  BY <1>1, <1>2, FillType DEF SampleInv
<1>3. CASE /\ step' = next /\ err' = failed
           /\ faults' = faults + (IF v \in speaks THEN 1 ELSE 0)
           /\ UNCHANGED <<raw, how>>
  BY <1>1, <1>3 DEF SampleInv, RawType
<1> QED
  BY <1>2, <1>3 DEF WSAIoctl

\* The invariant of a sample holds for every bound on the words and codes.
THEOREM SamplesSound == SampleSpec => []SampleInv
<1>1. SampleInit => SampleInv
  <2> SUFFICES ASSUME SampleInit PROVE SampleInv
    OBVIOUS
  <2>1. raw \in RawType
    BY DEF SampleInit, Zero, RawType
  <2> QED
    BY Zenon, <2>1 DEF SampleInit, SampleInv
<1>2. SampleInv /\ [SampleNext]_sampleVars => SampleInv'
  <2> SUFFICES ASSUME SampleInv, [SampleNext]_sampleVars PROVE SampleInv'
    OBVIOUS
  <2>1. CASE Sampled
    <3>1. platform' = platform /\ speaks' = speaks
      BY <2>1 DEF Sampled, Kept
    <3>2. raw' \in RawType'
      BY <2>1, <3>1, FillType DEF Sampled
    <3> QED
      BY <2>1, <3>1, <3>2 DEF Sampled, SampleInv
  <2>2. CASE DarwinErrno
    BY <2>2 DEF DarwinErrno, Kept, SampleInv, RawType
  <2>3. CASE WindowsV1
    <3>1. WSAIoctl(1, "v0", FALSE) /\ Kept /\ platform = "windows" /\ step = "start"
      BY Zenon, <2>3 DEF WindowsV1
    <3>2. /\ raw' \in RawType' /\ err' \in BOOLEAN /\ faults' \in Nat
          /\ \/ 1 \in speaks /\ step' = "done" /\ how' = 1 /\ ~err'
             \/ step' = "v0" /\ err' = FALSE /\ (1 \in speaks => faults' > 0)
      BY Zenon, <3>1, IoctlKeeps
    <3> QED
      BY <3>1, <3>2 DEF SampleInv, Kept
  <2>4. CASE WindowsV0
    <3>1. WSAIoctl(0, "done", TRUE) /\ Kept /\ platform = "windows" /\ step = "v0"
      BY Zenon, <2>4 DEF WindowsV0, SampleInv
    <3> QED
      BY Zenon, <3>1, IoctlKeeps DEF SampleInv, Kept
  <2>5. CASE Unsupported
    BY <2>5 DEF Unsupported, Kept, SampleInv, RawType
  <2>6. CASE Forget
    <3>1. raw' \in RawType'
      BY <2>6 DEF Forget, Kept, Zero, RawType
    <3> QED
      BY ZenonT(30), <2>6, <3>1 DEF Forget, Kept, SampleInv
  <2>7. CASE UNCHANGED sampleVars
    BY <2>7 DEF sampleVars, SampleInv, RawType
  <2> QED
    BY <2>1, <2>2, <2>3, <2>4, <2>5, <2>6, <2>7 DEF SampleNext
<1> QED
  BY <1>1, <1>2, PTL DEF SampleSpec

\* GetTCPInfo of Windows returns the newest version of the struct that the kernel
\* knows, and fails only if it knows none or the socket failed a request.
THEOREM NewestIsTaken == SampleSpec => []NewestVersion
<1>1. SampleInv => NewestVersion
  BY DEF SampleInv, NewestVersion
<1> QED
  BY <1>1, SamplesSound, PTL

-----------------------------------------------------------------------------
\* A nullable field is Valid and positive if the kernel has it and counted something.
LEMMA NullableCounts ==
  ASSUME NEW r, NEW h,
         NEW f \in {"bytes_retrans", "rcv_ooopack", "sndbuf_limited", "rwnd_limited"}
  PROVE  Nullable(r, h, f).Valid /\ Nullable(r, h, f).Value > 0 <=> f \in h /\ r[f] > 0
<1>1. f \notin {"delivery_rate_app_limited", "fastopen_client_fail", "min_rtt"}
  OBVIOUS
<1>2. Decoded(r, f) = r[f]
  BY Zenon, <1>1 DEF Decoded
<1>3. (Nullable(r, h, f).Valid <=> f \in h) /\ (f \in h => Nullable(r, h, f).Value = r[f])
  BY Zenon, <1>2 DEF Nullable
<1> QED
  BY <1>3

\* Where Unpack puts the fields that Warnings reads.
LEMMA NullableRead ==
  ASSUME NEW r, NEW h
  PROVE  LET u == LinuxUnpack(r, h).nullable IN
         /\ u.BytesRetrans = Nullable(r, h, "bytes_retrans")
         /\ u.RxOutOfOrder = Nullable(r, h, "rcv_ooopack")
         /\ u.TxBufferLimited = Nullable(r, h, "sndbuf_limited")
         /\ u.RxWindowLimited = Nullable(r, h, "rwnd_limited")
<1> DEFINE u == [n \in DOMAIN NullableSource |-> Nullable(r, h, NullableSource[n])]
<1>1. LinuxUnpack(r, h).nullable = u
  BY Zenon DEF LinuxUnpack
<1>2. \A n \in DOMAIN NullableSource : u[n] = Nullable(r, h, NullableSource[n])
  BY Zenon
<1> HIDE DEF u
<1>3. /\ {"BytesRetrans", "RxOutOfOrder", "TxBufferLimited", "RxWindowLimited"}
           \subseteq DOMAIN NullableSource
      /\ NullableSource.BytesRetrans = "bytes_retrans"
      /\ NullableSource.RxOutOfOrder = "rcv_ooopack"
      /\ NullableSource.TxBufferLimited = "sndbuf_limited"
      /\ NullableSource.RxWindowLimited = "rwnd_limited"
  BY Zenon DEF NullableSource
<1> QED
  BY Zenon, <1>1, <1>2, <1>3

\* On Linux the warnings of a struct, whatever it holds, are there exactly when one
\* of the counters is not zero that this kernel has.
LEMMA LinuxWarned ==
  ASSUME NEW r \in [LinuxFields -> Nat], NEW h
  PROVE  \/ LinuxToInfo(LinuxUnpack(r, h)).Retransmits > 0
         \/ LinuxWarnings(LinuxUnpack(r, h)) # {}
         <=> \E f \in {"total_retrans", "backoff"} \cup
                (h \cap {"bytes_retrans", "rcv_ooopack", "sndbuf_limited", "rwnd_limited"}) :
               r[f] # 0
<1> DEFINE s == LinuxUnpack(r, h)
           N(f) == Nullable(r, h, f)
<1>1. s.TotalRetrans = r["total_retrans"] /\ s.Backoff = r["backoff"]
  BY Zenon DEF LinuxUnpack
<1>2. /\ s.nullable.BytesRetrans = N("bytes_retrans")
      /\ s.nullable.RxOutOfOrder = N("rcv_ooopack")
      /\ s.nullable.TxBufferLimited = N("sndbuf_limited")
      /\ s.nullable.RxWindowLimited = N("rwnd_limited")
  BY Zenon, NullableRead
<1>3. \A f \in {"bytes_retrans", "rcv_ooopack", "sndbuf_limited", "rwnd_limited"} :
        N(f).Valid /\ N(f).Value > 0 <=> f \in h /\ r[f] > 0
  BY Zenon, NullableCounts
<1> HIDE DEF s, N
<1>4. LinuxToInfo(s).Retransmits = s.TotalRetrans
  BY DEF LinuxToInfo, EmptyInfo
<1>5. r["total_retrans"] \in Nat /\ r["backoff"] \in Nat /\ r["bytes_retrans"] \in Nat
      /\ r["rcv_ooopack"] \in Nat /\ r["sndbuf_limited"] \in Nat /\ r["rwnd_limited"] \in Nat
  BY Zenon DEF LinuxFields
<1>6. LinuxWarnings(s) # {} <=>
        \/ \E n \in {"BytesRetrans", "RxOutOfOrder", "TxBufferLimited", "RxWindowLimited"} :
             s.nullable[n].Valid /\ s.nullable[n].Value > 0
        \/ s.TotalRetrans > 0 \/ s.Backoff > 0
  BY DEF LinuxWarnings
<1>7. LinuxWarnings(s) # {} <=>
        \/ "bytes_retrans" \in h /\ r["bytes_retrans"] > 0
        \/ "rcv_ooopack" \in h /\ r["rcv_ooopack"] > 0
        \/ "sndbuf_limited" \in h /\ r["sndbuf_limited"] > 0
        \/ "rwnd_limited" \in h /\ r["rwnd_limited"] > 0
        \/ r["total_retrans"] > 0 \/ r["backoff"] > 0
  BY ZenonT(30), <1>1, <1>2, <1>3, <1>6
<1>8. LinuxToInfo(s).Retransmits > 0 <=> r["total_retrans"] > 0
  BY Zenon, <1>1, <1>4
<1>9. \A x \in Nat : x > 0 <=> x # 0
  OBVIOUS
<1>10. \/ LinuxToInfo(s).Retransmits > 0
       \/ LinuxWarnings(s) # {}
       <=> \E f \in {"total_retrans", "backoff"} \cup
                (h \cap {"bytes_retrans", "rcv_ooopack", "sndbuf_limited", "rwnd_limited"}) :
               r[f] # 0
  BY ZenonT(30), <1>5, <1>7, <1>8, <1>9
<1> QED
  BY Zenon, <1>10 DEF s

\* The same on macOS.
LEMMA DarwinWarned ==
  ASSUME NEW r \in [DarwinFields -> Nat]
  PROVE  \/ DarwinToInfo(DarwinUnpack(r)).Retransmits > 0
         \/ DarwinWarnings(DarwinUnpack(r)) # {}
         <=> \E f \in {"TxRetransmitBytes", "TxRetransmitPackets", "RxOutOfOrderBytes"} : r[f] # 0
<1> DEFINE s == DarwinUnpack(r)
<1>1. /\ s.TxRetransmitBytes = r["TxRetransmitBytes"]
      /\ s.TxRetransmitPackets = r["TxRetransmitPackets"]
      /\ s.RxOutOfOrderBytes = r["RxOutOfOrderBytes"]
  BY Zenon DEF DarwinUnpack
<1> HIDE DEF s
<1>2. DarwinToInfo(s).Retransmits = s.TxRetransmitPackets
  BY DEF DarwinToInfo, EmptyInfo
<1>3. \A f \in {"TxRetransmitBytes", "TxRetransmitPackets", "RxOutOfOrderBytes"} : r[f] \in Nat
  BY DEF DarwinFields
<1>4. DarwinWarnings(s) # {} <=>
        \/ s.TxRetransmitBytes > 0 \/ s.TxRetransmitPackets > 0 \/ s.RxOutOfOrderBytes > 0
  BY DEF DarwinWarnings
<1> QED
  BY <1>1, <1>2, <1>3, <1>4 DEF s

\* The counters Warnings reads on Windows are the struct's, in either version.
LEMMA WindowsCounters ==
  ASSUME NEW r, NEW s \in {WindowsUnpackV0(r), WindowsUnpackV1(r)}
  PROVE  /\ s.TxRetransmitBytes = r["BytesRetrans"] /\ s.SynRetrans = r["SynRetrans"]
         /\ s.RxOutOfOrderBytes = r["BytesReordered"]
         /\ s.TimeoutEpisodes = r["TimeoutEpisodes"]
         /\ s.DupAcksIn = r["DupAcksIn"] /\ s.FastRetrans = r["FastRetrans"]
<1>1. CASE s = WindowsUnpackV1(r)
  BY Zenon, <1>1 DEF WindowsUnpackV1
<1>2. CASE s = WindowsUnpackV0(r)
  BY Zenon, <1>2 DEF WindowsUnpackV0
<1> QED
  BY <1>1, <1>2, SMTT(20)

\* The same on Windows, for both versions.
LEMMA WindowsWarned ==
  ASSUME NEW r \in [WindowsFields -> Nat], NEW s \in {WindowsUnpackV0(r), WindowsUnpackV1(r)}
  PROVE  \/ WindowsToInfo(s).Retransmits > 0
         \/ WindowsWarnings(s) # {}
         <=> \E f \in {"BytesRetrans", "SynRetrans", "FastRetrans", "TimeoutEpisodes", "DupAcksIn",
                       "BytesReordered"} : r[f] # 0
<1>1. WindowsToInfo(s).Retransmits = s.SynRetrans
  BY DEF WindowsToInfo, EmptyInfo
<1>2. \A f \in {"BytesRetrans", "SynRetrans", "FastRetrans", "TimeoutEpisodes", "DupAcksIn",
                "BytesReordered"} : r[f] \in Nat
  BY DEF WindowsFields
<1>3. WindowsWarnings(s) # {} <=>
        \/ s.TxRetransmitBytes > 0 \/ s.SynRetrans > 0 \/ s.RxOutOfOrderBytes > 0
        \/ s.TimeoutEpisodes > 0 \/ s.DupAcksIn > 0 \/ s.FastRetrans > 0
  BY DEF WindowsWarnings
<1>4. /\ s.TxRetransmitBytes = r["BytesRetrans"] /\ s.SynRetrans = r["SynRetrans"]
      /\ s.RxOutOfOrderBytes = r["BytesReordered"]
      /\ s.TimeoutEpisodes = r["TimeoutEpisodes"]
      /\ s.DupAcksIn = r["DupAcksIn"] /\ s.FastRetrans = r["FastRetrans"]
  BY Zenon, WindowsCounters
<1> QED
  BY <1>1, <1>2, <1>3, <1>4

\* On every platform the wrapper warns of a sample exactly when a counter of trouble
\* that the kernel filled in is not zero.
THEOREM TroubleIsWarned == SampleSpec => []TroubleWarned
<1>1. SampleInv => TroubleWarned
  <2> SUFFICES ASSUME SampleInv, Returned
               PROVE  InfoWarnings(platform, Sys) # {} <=> \E f \in Hot : f \in Trouble
    BY DEF TroubleWarned
  <2>1. platform \in {"linux", "darwin", "windows"} /\ raw \in [RawFields(platform) -> Nat]
    BY DEF SampleInv, Returned, Platforms, RawType
  <2>2. InfoWarnings(platform, Sys) # {} <=>
          ToInfoOn(platform, Sys).Retransmits > 0 \/ SysWarnings(platform, Sys) # {}
    BY DEF InfoWarnings
  <2>3. CASE platform = "linux"
    <3>1. raw \in [LinuxFields -> Nat] /\ how \in LinuxNullable
      BY <2>1, <2>3 DEF RawFields, SampleInv, Returned
    <3>2. /\ Hot = {f \in LinuxFields : raw[f] # 0}
          /\ Trouble = {"total_retrans", "backoff"} \cup
               (how \cap {"bytes_retrans", "rcv_ooopack", "sndbuf_limited", "rwnd_limited"})
      BY Zenon, <2>3 DEF Hot, RawFields, Trouble
    <3>3. Trouble \subseteq LinuxFields
      BY Zenon, <3>2 DEF LinuxFields
    <3> QED
      BY <2>2, <2>3, <3>1, <3>2, <3>3, LinuxWarned
      DEF Sys, UnpackOn, ToInfoOn, SysWarnings
  <2>4. CASE platform = "darwin"
    <3>1. raw \in [DarwinFields -> Nat]
      BY <2>1, <2>4 DEF RawFields
    <3>2. Hot = {f \in DarwinFields : raw[f] # 0}
          /\ Trouble = {"TxRetransmitBytes", "TxRetransmitPackets", "RxOutOfOrderBytes"}
      BY <2>4 DEF Hot, RawFields, Trouble
    <3>3. Trouble \subseteq DarwinFields
      BY <3>2 DEF DarwinFields
    <3> QED
      BY <2>2, <2>4, <3>1, <3>2, <3>3, DarwinWarned
      DEF Sys, UnpackOn, ToInfoOn, SysWarnings
  <2>5. CASE platform = "windows"
    <3>1. raw \in [WindowsFields -> Nat] /\ Sys \in {WindowsUnpackV0(raw), WindowsUnpackV1(raw)}
      BY <2>1, <2>5 DEF RawFields, Sys, UnpackOn
    <3>2. Hot = {f \in WindowsFields : raw[f] # 0}
          /\ Trouble = {"BytesRetrans", "SynRetrans", "FastRetrans", "TimeoutEpisodes",
                        "DupAcksIn", "BytesReordered"}
      BY <2>5 DEF Hot, RawFields, Trouble
    <3>3. Trouble \subseteq WindowsFields
      BY <3>2 DEF WindowsFields
    <3>4. ToInfoOn(platform, Sys) = WindowsToInfo(Sys)
          /\ SysWarnings(platform, Sys) = WindowsWarnings(Sys)
      BY <2>5 DEF ToInfoOn, SysWarnings
    <3> QED
      BY <2>2, <3>1, <3>2, <3>3, <3>4, WindowsWarned
  <2> QED
    BY <2>1, <2>3, <2>4, <2>5
<1> QED
  BY <1>1, SamplesSound, PTL

-----------------------------------------------------------------------------
\* g is what the loop over the options has listed after each of the first n.
Looped(table, mask, scale, g, n) ==
  g = [i \in 0 .. n |->
         IF i = 0 THEN <<>>
         ELSE IF Bit(mask, table[i].bit) THEN Append(g[i - 1], Option(table[i], scale))
         ELSE g[i - 1]]

\* The function that defines the loop exists, for tables of at most eight options.
LEMMA LoopExists ==
  ASSUME NEW table, NEW mask, NEW scale, NEW n \in 0 .. 8
  PROVE  \E g : Looped(table, mask, scale, g, n)
<1> DEFINE P(m) == \E g : Looped(table, mask, scale, g, m)
           Step(g, i) == IF Bit(mask, table[i].bit) THEN Append(g[i - 1], Option(table[i], scale))
                         ELSE g[i - 1]
<1>1. P(0)
  <2>1. PICK g : g = [i \in 0 .. 0 |-> <<>>]
    BY Zenon
  <2>2. \A i \in 0 .. 0 : i = 0
    OBVIOUS
  <2> QED
    BY Zenon, <2>1, <2>2 DEF Looped
<1>2. ASSUME NEW m \in 0 .. 7, P(m) PROVE P(m + 1)
  <2>1. PICK g : g = [i \in 0 .. m |-> IF i = 0 THEN <<>> ELSE Step(g, i)]
    BY Zenon, <1>2 DEF Looped
  <2> HIDE DEF Step
  <2>2. PICK h : h = [i \in 0 .. m + 1 |-> IF i = m + 1 THEN Step(g, i) ELSE g[i]]
    BY Zenon
  <2>3. \A i \in 0 .. m + 1 : i # 0 => i - 1 \in 0 .. m /\ i - 1 \in 0 .. m + 1 /\ i - 1 # m + 1
    OBVIOUS
  <2>4. \A i \in 0 .. m + 1 : i # 0 => h[i - 1] = g[i - 1]
    BY Zenon, <2>2, <2>3
  <2>5. \A i \in 0 .. m + 1 : i # 0 => Step(h, i) = Step(g, i)
    BY Zenon, <2>4 DEF Step
  <2>6. \A i \in 0 .. m + 1 : (i = m + 1 => i # 0) /\ (i # m + 1 => i \in 0 .. m)
    OBVIOUS
  <2>7. \A i \in 0 .. m + 1 : h[i] = IF i = 0 THEN <<>> ELSE Step(h, i)
    BY Zenon, <2>1, <2>2, <2>5, <2>6
  <2>8. h = [i \in 0 .. m + 1 |-> IF i = 0 THEN <<>> ELSE Step(h, i)]
    BY Zenon, <2>2, <2>7
  <2> QED
    BY Zenon, <2>8 DEF Looped, Step
<1> HIDE DEF P
<1>3. P(n)
  BY <1>1, <1>2
<1> QED
  BY <1>3 DEF P

\* The loop of Unpack computes that function.
LEMMA LoopIs ==
  ASSUME NEW table, NEW mask, NEW scale, Len(table) \in 0 .. 8
  PROVE  Looped(table, mask, scale, OptionsAfter(table, mask, scale), Len(table))
<1>1. \E g : Looped(table, mask, scale, g, Len(table))
  BY Zenon, LoopExists
<1> QED
  BY Zenon, <1>1 DEF Looped, OptionsAfter
\* The kinds of those of the first n options whose bit is set.
KindsSet(table, mask, n) == {table[i].Kind : i \in {j \in 1 .. n : Bit(mask, table[j].bit)}}

\* No two options of a table have the same kind.
Distinct(table) == \A i, j \in DOMAIN table : table[i].Kind = table[j].Kind => i = j

\* The list opts, made of the first n options, names x[i] in its place i: those whose
\* bit is set, in the order of the table.
Listing(table, mask, scale, n, opts, x) ==
  /\ x \in Seq(1 .. n) /\ opts = [k \in 1 .. Len(x) |-> Option(table[x[k]], scale)]
  /\ \A k, l \in 1 .. Len(x) : k < l => x[k] < x[l]
  /\ \A j \in 1 .. n : Bit(mask, table[j].bit) <=> \E k \in 1 .. Len(x) : x[k] = j
  /\ IsFiniteSet(KindsSet(table, mask, n)) /\ Cardinality(KindsSet(table, mask, n)) = Len(x)

\* One more option, whose bit is not set.
LEMMA ListingSkips ==
  ASSUME NEW table, NEW mask, NEW scale, NEW n \in Nat, NEW opts, NEW x,
         Listing(table, mask, scale, n, opts, x), ~Bit(mask, table[n + 1].bit)
  PROVE  Listing(table, mask, scale, n + 1, opts, x)
<1> DEFINE S(j) == Bit(mask, table[j].bit)
<1>1. KindsSet(table, mask, n + 1) = KindsSet(table, mask, n)
  <2>1. \A j \in 1 .. n + 1 : j \in 1 .. n \/ j = n + 1
    OBVIOUS
  <2>2. \A j \in 1 .. n : j \in 1 .. n + 1
    OBVIOUS
  <2>3. {j \in 1 .. n + 1 : S(j)} = {j \in 1 .. n : S(j)}
    BY Zenon, <2>1, <2>2
  <2> QED
    BY Zenon, <2>3 DEF KindsSet
<1>2. x \in Seq(1 .. n) /\ Len(x) \in Nat /\ \A k \in 1 .. Len(x) : x[k] \in 1 .. n
  BY DEF Listing
<1>3. x \in Seq(1 .. n + 1)
  BY <1>2
<1> HIDE DEF S
<1>4. \A j \in 1 .. n + 1 : S(j) <=> \E k \in 1 .. Len(x) : x[k] = j
  <2>1. \A j \in 1 .. n : S(j) <=> \E k \in 1 .. Len(x) : x[k] = j
    BY Zenon DEF Listing, S
  <2>2. ~S(n + 1)
    BY Zenon DEF S
  <2> QED
    BY <1>2, <2>1, <2>2
<1> QED
  BY Zenon, <1>1, <1>3, <1>4 DEF Listing, S

\* Sequences as functions.
LEMMA FunctionIsSeq ==
  ASSUME NEW T, NEW m \in Nat, NEW o \in [1 .. m -> T]
  PROVE  o \in Seq(T) /\ Len(o) = m
  OBVIOUS

\* One more option, whose bit is set: it is appended.
LEMMA ListingAppends ==
  ASSUME NEW table, NEW mask, NEW scale, NEW n \in Nat, NEW opts, NEW x,
         Distinct(table), 1 .. n + 1 \subseteq DOMAIN table,
         Listing(table, mask, scale, n, opts, x), Bit(mask, table[n + 1].bit)
  PROVE  Listing(table, mask, scale, n + 1, Append(opts, Option(table[n + 1], scale)),
                 Append(x, n + 1))
<1> DEFINE S(j) == Bit(mask, table[j].bit)
           K == KindsSet(table, mask, n)
           y == Append(x, n + 1)
           O(k) == Option(table[k], scale)
           new == table[n + 1].Kind
<1>0. \A j : (j \in 1 .. n + 1 <=> j \in 1 .. n \/ j = n + 1) /\ (j \in 1 .. n => j # n + 1)
  OBVIOUS
<1>1. KindsSet(table, mask, n + 1) = K \cup {new}
  BY Zenon, <1>0 DEF KindsSet
<1>2. new \notin K
  BY Zenon, <1>0 DEF KindsSet, Distinct
<1>3. x \in Seq(1 .. n) /\ Len(x) \in Nat /\ \A k \in 1 .. Len(x) : x[k] \in 1 .. n
  BY DEF Listing
<1>4. /\ y \in Seq(1 .. n + 1) /\ Len(y) = Len(x) + 1 /\ y[Len(x) + 1] = n + 1
      /\ \A k \in 1 .. Len(x) : y[k] = x[k] /\ k \in 1 .. Len(y)
      /\ \A k \in 1 .. Len(y) : k \in 1 .. Len(x) \/ k = Len(x) + 1
  BY <1>3
<1>5. IsFiniteSet(K \cup {new}) /\ Cardinality(K \cup {new}) = Len(y)
  <2>1. IsFiniteSet(K) /\ Cardinality(K) = Len(x)
    BY Zenon DEF Listing
  <2> QED
    BY Zenon, <1>2, <1>4, <2>1, FS_AddElement
<1> HIDE DEF S, K, y, O
<1>6. Append(opts, O(n + 1)) = [k \in 1 .. Len(y) |-> O(y[k])]
  <2>1. opts = [k \in 1 .. Len(x) |-> O(x[k])]
    BY Zenon DEF Listing, O
  <2>2. PICK T : T = {O(k) : k \in 1 .. n + 1}
    BY Zenon
  <2>3. opts \in [1 .. Len(x) -> T] /\ O(n + 1) \in T
    BY Zenon, <1>0, <1>3, <2>1, <2>2
  <2>4. opts \in Seq(T) /\ Len(opts) = Len(x)
    BY Zenon, <1>3, <2>3, FunctionIsSeq
  <2>5. Append(opts, O(n + 1)) = [k \in 1 .. Len(x) + 1 |-> IF k <= Len(x) THEN opts[k] ELSE O(n + 1)]
    BY <2>3, <2>4, SMTT(20)
  <2>6. \A k \in 1 .. Len(y) : O(y[k]) = IF k <= Len(x) THEN opts[k] ELSE O(n + 1)
    BY <1>3, <1>4, <2>1, SMTT(20)
  <2> QED
    BY <1>4, <2>5, <2>6
<1>7. \A k, l \in 1 .. Len(y) : k < l => y[k] < y[l]
  <2>1. \A k, l \in 1 .. Len(x) : k < l => x[k] < x[l]
    BY Zenon DEF Listing
  <2> SUFFICES ASSUME NEW k \in 1 .. Len(y), NEW l \in 1 .. Len(y), k < l PROVE y[k] < y[l]
    OBVIOUS
  <2>2. k \in 1 .. Len(x) /\ y[k] = x[k] /\ x[k] \in 1 .. n
    BY <1>3, <1>4, SMTT(20)
  <2>3. CASE l \in 1 .. Len(x)
    BY Zenon, <1>4, <2>1, <2>2, <2>3
  <2>4. CASE l = Len(x) + 1
    BY <1>4, <2>2, <2>4
  <2> QED
    BY Zenon, <1>4, <2>3, <2>4
<1>8. \A j \in 1 .. n + 1 : S(j) <=> \E k \in 1 .. Len(y) : y[k] = j
  <2>1. \A j \in 1 .. n : S(j) <=> \E k \in 1 .. Len(x) : x[k] = j
    BY Zenon DEF Listing, S
  <2>2. S(n + 1)
    BY Zenon DEF S
  <2>3. Len(x) + 1 \in 1 .. Len(y)
    BY <1>3, <1>4
  <2> QED
    BY Zenon, <1>0, <1>4, <2>1, <2>2, <2>3
<1> QED
  BY Zenon, <1>1, <1>4, <1>5, <1>6, <1>7, <1>8 DEF Listing, S, K, y, O

\* The loop lists, after each option, those seen so far whose bit is set.
LEMMA LoopLists ==
  ASSUME NEW table, NEW mask, NEW scale, NEW n \in 0 .. 8, Distinct(table),
         DOMAIN table = 1 .. n, NEW g, Looped(table, mask, scale, g, n)
  PROVE  \E x : Listing(table, mask, scale, n, g[n], x)
<1> DEFINE P(m) == \E x : Listing(table, mask, scale, m, g[m], x)
<1>0. /\ g[0] = <<>>
      /\ \A m \in 0 .. n - 1 :
           g[m + 1] = IF Bit(mask, table[m + 1].bit)
                      THEN Append(g[m], Option(table[m + 1], scale)) ELSE g[m]
  <2>1. 0 \in 0 .. n /\ \A m \in 0 .. n - 1 : m + 1 \in 0 .. n /\ m + 1 # 0 /\ (m + 1) - 1 = m
    OBVIOUS
  <2> QED
    BY Zenon, <2>1 DEF Looped
<1>1. P(0)
  <2>1. 1 .. 0 = {} /\ Len(<<>>) = 0 /\ <<>> \in Seq(1 .. 0)
    OBVIOUS
  <2>2. KindsSet(table, mask, 0) = {}
    BY Zenon, <2>1 DEF KindsSet
  <2>3. IsFiniteSet({}) /\ Cardinality({}) = 0
    BY Zenon, FS_EmptySet
  <2>4. <<>> = [k \in 1 .. Len(<<>>) |-> Option(table[<<>>[k]], scale)]
    OBVIOUS
  <2> QED
    BY Zenon, <1>0, <2>1, <2>2, <2>3, <2>4 DEF Listing
<1>2. ASSUME NEW m \in 0 .. n - 1, P(m) PROVE P(m + 1)
  <2>1. m \in Nat /\ 1 .. m + 1 \subseteq DOMAIN table
    OBVIOUS
  <2>2. PICK x : Listing(table, mask, scale, m, g[m], x)
    BY Zenon, <1>2
  <2>3. CASE Bit(mask, table[m + 1].bit)
    <3>1. Listing(table, mask, scale, m + 1, Append(g[m], Option(table[m + 1], scale)),
                  Append(x, m + 1))
      BY Zenon, <2>1, <2>2, <2>3, ListingAppends
    <3> QED
      BY Zenon, <1>0, <2>3, <3>1
  <2>4. CASE ~Bit(mask, table[m + 1].bit)
    BY Zenon, <1>0, <2>1, <2>2, <2>4, ListingSkips
  <2> QED
    BY Zenon, <2>3, <2>4
<1> HIDE DEF P
<1>3. P(n)
  BY <1>1, <1>2
<1> QED
  BY <1>3 DEF P
\* The powers of two that are the bits of a byte.
LEMMA BitValues ==
  ASSUME NEW j \in 1 .. 8
  PROVE  2^(j - 1) = <<1, 2, 4, 8, 16, 32, 64, 128>>[j]
<1> DEFINE P(k) == 2^k
<1>1. /\ P(0) = 1 /\ P(1) = 2 /\ P(2) = 4 /\ P(3) = 8
      /\ P(4) = 16 /\ P(5) = 32 /\ P(6) = 64 /\ P(7) = 128
  OBVIOUS
<1>2. j \in {1, 2, 3, 4, 5, 6, 7, 8}
  OBVIOUS
<1> HIDE DEF P
<1>3. P(j - 1) = <<1, 2, 4, 8, 16, 32, 64, 128>>[j]
  BY <1>1, <1>2
<1> QED
  BY <1>3 DEF P

\* The tables of the two platforms: bit by bit, and every kind once.
LEMMA TableFacts ==
  ASSUME NEW table \in {LinuxOptions, DarwinOptions}
  PROVE  /\ Len(table) \in 0 .. 8 /\ DOMAIN table = 1 .. Len(table) /\ Distinct(table)
         /\ \A j \in DOMAIN table : table[j].bit = 2^(j - 1)
<1>1. /\ Len(table) \in {4, 8} /\ DOMAIN table = 1 .. Len(table)
  BY DEF LinuxOptions, DarwinOptions
<1>2. \A j \in 1 .. Len(table) : table[j].bit = <<1, 2, 4, 8, 16, 32, 64, 128>>[j]
  <2>1. CASE table = LinuxOptions
    BY <2>1 DEF LinuxOptions
  <2>2. CASE table = DarwinOptions
    BY <2>2 DEF DarwinOptions
  <2> QED
    BY Zenon, <2>1, <2>2
<1>3. Distinct(table)
  BY DEF LinuxOptions, DarwinOptions, Distinct
<1>4. \A j \in 1 .. Len(table) : j \in 1 .. 8
  BY <1>1
<1>5. Len(table) \in 0 .. 8
  BY <1>1
<1>6. \A j \in 1 .. Len(table) : table[j].bit = 2^(j - 1)
  <2> TAKE j \in 1 .. Len(table)
  <2>1. 2^(j - 1) = <<1, 2, 4, 8, 16, 32, 64, 128>>[j]
    BY Zenon, <1>4, BitValues
  <2> QED
    BY Zenon, <1>2, <2>1
<1> QED
  BY Zenon, <1>1, <1>3, <1>5, <1>6

\* The loop lists the options of a platform's table exactly, whatever the word holds.
LEMMA OptionsLists ==
  ASSUME NEW table \in {LinuxOptions, DarwinOptions}, NEW mask, NEW scale
  PROVE  ListsExactly(table, mask, Options(table, mask, scale), scale)
<1> DEFINE n == Len(table)
           opts == Options(table, mask, scale)
           K == KindsSet(table, mask, n)
<1>1. PICK x : Listing(table, mask, scale, n, opts, x)
  BY Zenon, TableFacts, LoopIs, LoopLists DEF Options
<1>2. K = {table[i].Kind : i \in {j \in DOMAIN table : (mask \div 2^(j - 1)) % 2 = 1}}
  BY Zenon, TableFacts DEF KindsSet, Bit
<1>3. /\ x \in Seq(1 .. n) /\ opts = [k \in 1 .. Len(x) |-> Option(table[x[k]], scale)]
      /\ \A k, l \in 1 .. Len(x) : k < l => x[k] < x[l]
      /\ \A j \in 1 .. n : Bit(mask, table[j].bit) <=> \E k \in 1 .. Len(x) : x[k] = j
      /\ Cardinality(K) = Len(x)
  BY Zenon, <1>1 DEF Listing
<1>0. n \in Nat
  BY TableFacts
<1> HIDE DEF opts, n, K
<1>4. /\ DOMAIN opts = 1 .. Len(x) /\ Len(opts) = Len(x)
      /\ \A k \in 1 .. Len(x) : x[k] \in 1 .. n
  <2>1. Len(x) \in Nat /\ \A k \in 1 .. Len(x) : x[k] \in 1 .. n
    <3>1. x \in Seq(1 .. n) /\ n \in Nat
      BY Zenon, <1>0, <1>3
    <3> QED
      BY <3>1
  <2>2. DOMAIN opts = 1 .. Len(x)
    BY Zenon, <1>3
  <2> QED
    BY <2>1, <2>2
<1>5. \A o, v : Option(o, v).Kind = o.Kind
                /\ Option(o, v).Value = IF Option(o, v).Kind = "WindowScale" THEN v ELSE 0
  BY DEF Option
<1>6. \A k \in 1 .. Len(x) : /\ opts[k].Kind = table[x[k]].Kind
                             /\ opts[k].Value = IF opts[k].Kind = "WindowScale" THEN scale ELSE 0
  BY Zenon, <1>3, <1>5
<1>7. {opts[k].Kind : k \in DOMAIN opts} = K
  <2>1. ASSUME NEW k \in DOMAIN opts PROVE opts[k].Kind \in K
    BY Zenon, <1>3, <1>4, <1>6 DEF K, KindsSet
  <2>2. ASSUME NEW q \in K PROVE \E k \in DOMAIN opts : q = opts[k].Kind
    <3>1. PICK j \in 1 .. n : Bit(mask, table[j].bit) /\ q = table[j].Kind
      BY Zenon DEF K, KindsSet
    <3>2. PICK k \in 1 .. Len(x) : x[k] = j
      BY Zenon, <1>3, <3>1
    <3>3. k \in DOMAIN opts /\ opts[k].Kind = table[x[k]].Kind
      BY Zenon, <1>4, <1>6
    <3> QED
      BY Zenon, <3>1, <3>2, <3>3
  <2> QED
    BY Zenon, <2>1, <2>2
<1>8. DOMAIN table = 1 .. n
  BY Zenon, TableFacts DEF n
<1>9. \A i, j \in DOMAIN opts : i < j =>
        \E a, b \in DOMAIN table :
          a < b /\ table[a].Kind = opts[i].Kind /\ table[b].Kind = opts[j].Kind
  <2> SUFFICES ASSUME NEW i \in DOMAIN opts, NEW j \in DOMAIN opts, i < j
               PROVE  /\ x[i] \in DOMAIN table /\ x[j] \in DOMAIN table /\ x[i] < x[j]
                      /\ table[x[i]].Kind = opts[i].Kind /\ table[x[j]].Kind = opts[j].Kind
    BY Zenon
  <2> QED
    BY Zenon, <1>3, <1>4, <1>6, <1>8
<1> QED
  BY Zenon, <1>2, <1>3, <1>4, <1>6, <1>7, <1>9 DEF ListsExactly, opts

\* Unpack lists an option, for both directions and on both platforms that have the
\* word, exactly when its bit is set, in the order of the table, with the window scale
\* of its own direction; ToInfo passes the lists on.
THEOREM OptionsAlwaysExact == SampleSpec => []OptionsExact
<1>1. SampleInv => OptionsExact
  <2> SUFFICES ASSUME SampleInv, Returned, platform # "windows" PROVE OptionsExact
    BY Zenon DEF OptionsExact
  <2>0. platform \in {"linux", "darwin"} /\ raw \in [RawFields(platform) -> Nat]
    BY DEF SampleInv, Returned, Platforms, RawType
  <2>1. CASE platform = "linux"
    <3> DEFINE tx == raw.bitfield0 % 16
               rx == (raw.bitfield0 - tx) \div 16
               s == LinuxUnpack(raw, how)
    <3>1. Sys = s /\ ToInfoOn(platform, Sys) = LinuxToInfo(s)
      BY <2>1 DEF Sys, UnpackOn, ToInfoOn
    <3>2. raw.bitfield0 \in Nat
      BY <2>0, <2>1 DEF RawFields, LinuxFields
    <3>3. TxScale(raw.bitfield0) = tx /\ RxScale(raw.bitfield0) = rx
      BY <3>2 DEF TxScale, RxScale
    <3>4. /\ s.TxOptions = Options(LinuxOptions, raw.options, TxScale(raw.bitfield0))
          /\ s.RxOptions = Options(LinuxOptions, raw.options, RxScale(raw.bitfield0))
      BY Zenon DEF LinuxUnpack
    <3> HIDE DEF s
    <3>5. LinuxToInfo(s).TxOptions = s.TxOptions /\ LinuxToInfo(s).RxOptions = s.RxOptions
      BY DEF LinuxToInfo, EmptyInfo
    <3>6. /\ ListsExactly(LinuxOptions, raw.options, s.TxOptions, tx)
          /\ ListsExactly(LinuxOptions, raw.options, s.RxOptions, rx)
      BY Zenon, <3>3, <3>4, OptionsLists
    <3> QED
      BY Zenon, <2>1, <3>1, <3>5, <3>6 DEF OptionsExact
  <2>2. CASE platform = "darwin"
    <3> DEFINE s == DarwinUnpack(raw)
    <3>1. Sys = s /\ ToInfoOn(platform, Sys) = DarwinToInfo(s) /\ platform # "linux"
      BY <2>2 DEF Sys, UnpackOn, ToInfoOn
    <3>2. /\ s.TxOptions = Options(DarwinOptions, raw.Options, raw.SendWscale)
          /\ s.RxOptions = Options(DarwinOptions, raw.Options, raw.RecvWscale)
      BY Zenon DEF DarwinUnpack
    <3> HIDE DEF s
    <3>3. DarwinToInfo(s).TxOptions = s.TxOptions /\ DarwinToInfo(s).RxOptions = s.RxOptions
      BY DEF DarwinToInfo, EmptyInfo
    <3>4. /\ ListsExactly(DarwinOptions, raw.Options, s.TxOptions, raw.SendWscale)
          /\ ListsExactly(DarwinOptions, raw.Options, s.RxOptions, raw.RecvWscale)
      BY Zenon, <3>2, OptionsLists
    <3> QED
      BY Zenon, <3>1, <3>3, <3>4 DEF OptionsExact
  <2> QED
    BY Zenon, <2>0, <2>1, <2>2
<1> QED
  BY <1>1, SamplesSound, PTL

-----------------------------------------------------------------------------
\* Durations are published in nanoseconds.
Micro(x) == x * Microsecond
Milli(x) == x * Millisecond

\* Two values under one key, when the field it is of was x and x0.
Carried(m, m0, x, x0) ==
  \/ m = x /\ m0 = x0
  \/ m = Micro(x) /\ m0 = Micro(x0)
  \/ m = Milli(x) /\ m0 = Milli(x0)

\* The maps m and m0 of two structs r and r0, where each field has its key in Key: a
\* key carries its field, and the other keys are the same in both.
Carries(Key, m, m0, r, r0) ==
  /\ DOMAIN m0 = DOMAIN m
  /\ \A f \in DOMAIN Key : Key[f] \in DOMAIN m /\ Carried(m[Key[f]], m0[Key[f]], r[f], r0[f])
  /\ \A k \in DOMAIN m : (\E f \in DOMAIN Key : k = Key[f]) \/ m[k] = m0[k]

\* Then zeroing one field changes its own key and no other, and no other field has
\* that key.
LEMMA KeyOfField ==
  ASSUME NEW Key, NEW m, NEW m0, NEW F, NEW r \in [F -> Nat], NEW f \in F, r[f] # 0,
         DOMAIN Key \subseteq F, Carries(Key, m, m0, r, [r EXCEPT ![f] = 0])
  PROVE  /\ {k \in DOMAIN m : m[k] # m0[k]} = IF f \in DOMAIN Key THEN {Key[f]} ELSE {}
         /\ f \in DOMAIN Key => \A g \in DOMAIN Key : g # f => Key[g] # Key[f]
<1> DEFINE r0 == [r EXCEPT ![f] = 0]
<1>1. ASSUME NEW x \in Nat, NEW x0 \in Nat, NEW a, NEW b, Carried(a, b, x, x0)
      PROVE  a # b <=> x # x0
  BY <1>1 DEF Carried, Micro, Milli, Microsecond, Millisecond
<1>2. /\ r0[f] = 0 /\ r0 \in [F -> Nat] /\ \A g \in F : g # f => r0[g] = r[g]
      /\ Carries(Key, m, m0, r, r0)
  OBVIOUS
<1> HIDE DEF r0
<1>3. \A g \in DOMAIN Key : m[Key[g]] # m0[Key[g]] <=> g = f
  <2> TAKE g \in DOMAIN Key
  <2>1. Carried(m[Key[g]], m0[Key[g]], r[g], r0[g]) /\ g \in F
    BY Zenon, <1>2 DEF Carries
  <2>2. r[g] \in Nat /\ r0[g] \in Nat
    BY Zenon, <1>2, <2>1
  <2>3. m[Key[g]] # m0[Key[g]] <=> r[g] # r0[g]
    BY Zenon, <1>1, <2>1, <2>2
  <2> QED
    BY Zenon, <1>2, <2>1, <2>3
<1>4. \A g \in DOMAIN Key : Key[g] \in DOMAIN m
  BY Zenon, <1>2 DEF Carries
<1>5. ASSUME NEW k \in DOMAIN m, m[k] # m0[k]
      PROVE  f \in DOMAIN Key /\ k = Key[f]
  <2>1. PICK g \in DOMAIN Key : k = Key[g]
    BY Zenon, <1>2, <1>5 DEF Carries
  <2> QED
    BY Zenon, <1>3, <1>5, <2>1
<1>6. CASE f \in DOMAIN Key
  <2>1. \A k \in DOMAIN m : m[k] # m0[k] <=> k = Key[f]
    BY Zenon, <1>3, <1>5, <1>6
  <2>2. {k \in DOMAIN m : m[k] # m0[k]} = {Key[f]}
    BY Zenon, <1>4, <1>6, <2>1
  <2>3. \A g \in DOMAIN Key : g # f => Key[g] # Key[f]
    BY Zenon, <1>3, <1>6
  <2> QED
    BY Zenon, <1>6, <2>2, <2>3
<1>7. CASE f \notin DOMAIN Key
  <2>1. {k \in DOMAIN m : m[k] # m0[k]} = {}
    BY Zenon, <1>3, <1>5, <1>7
  <2> QED
    BY Zenon, <1>7, <2>1
<1> QED
  BY Zenon, <1>6, <1>7

\* The key under which each number of RawTCPInfo is published that every kernel has.
LinuxKey ==
  [ca_state |-> "caState", retransmits |-> "retransmits", probes |-> "probes",
   backoff |-> "backoff", rto |-> "rto", ato |-> "ato", snd_mss |-> "txMSS",
   rcv_mss |-> "rxMSS", unacked |-> "unAcked", sacked |-> "sacked", lost |-> "lost",
   retrans |-> "retrans", fackets |-> "fackets", last_data_sent |-> "lastTxAt",
   last_ack_sent |-> "lastTxAckAt", last_data_recv |-> "lastRxAt",
   last_ack_recv |-> "lastRxAckAt", pmtu |-> "pmtu", rcv_ssthresh |-> "rxSSThreshold",
   rtt |-> "rtt", rttvar |-> "rttVar", snd_ssthresh |-> "txSSThreshold",
   snd_cwnd |-> "txCWindow", advmss |-> "advMSS", reordering |-> "reordering",
   rcv_rtt |-> "rxRTT", rcv_space |-> "rxSpace", total_retrans |-> "totalRetrans"]

\* The keys of a RawTCPInfo that are always there, one by one.
LinuxPublished(m, r) ==
  /\ m.state = StateName(LinuxStates, r.state) /\ m.caState = r.ca_state
  /\ m.retransmits = r.retransmits /\ m.probes = r.probes /\ m.backoff = r.backoff
  /\ m.txOptions = Options(LinuxOptions, r.options, TxScale(r.bitfield0))
  /\ m.rxOptions = Options(LinuxOptions, r.options, RxScale(r.bitfield0))
  /\ m.txWindowScale = TxScale(r.bitfield0) /\ m.rxWindowScale = RxScale(r.bitfield0)
  /\ m.rto = Micro(r.rto) /\ m.ato = Micro(r.ato) /\ m.txMSS = r.snd_mss
  /\ m.rxMSS = r.rcv_mss /\ m.unAcked = r.unacked /\ m.sacked = r.sacked
  /\ m.lost = r.lost /\ m.retrans = r.retrans /\ m.fackets = r.fackets
  /\ m.lastTxAt = Micro(r.last_data_sent) /\ m.lastTxAckAt = Micro(r.last_ack_sent)
  /\ m.lastRxAt = Micro(r.last_data_recv) /\ m.lastRxAckAt = Micro(r.last_ack_recv)
  /\ m.pmtu = r.pmtu /\ m.rxSSThreshold = r.rcv_ssthresh /\ m.rtt = Micro(r.rtt)
  /\ m.rttVar = Micro(r.rttvar) /\ m.txSSThreshold = r.snd_ssthresh
  /\ m.txCWindow = r.snd_cwnd /\ m.advMSS = r.advmss /\ m.reordering = r.reordering
  /\ m.rxRTT = Micro(r.rcv_rtt) /\ m.rxSpace = r.rcv_space
  /\ m.totalRetrans = r.total_retrans

\* Unpack and these keys of ToMap, one after the other.
LEMMA LinuxComposed ==
  ASSUME NEW r, NEW h
  PROVE  LinuxPublished(LinuxBaseMap(LinuxUnpack(r, h)), r)
<1>1. ASSUME NEW s, s = LinuxUnpack(r, h), NEW m, m = LinuxBaseMap(s)
      PROVE  LinuxPublished(m, r)
  BY ZenonT(30), <1>1 DEF LinuxPublished, LinuxUnpack, LinuxBaseMap, Micro
<1> QED
  BY Zenon, <1>1

\* These keys are those of the numbers and of the options, scales and state.
LEMMA LinuxKeys ==
  ASSUME NEW s, NEW t
  PROVE  /\ DOMAIN LinuxBaseMap(t) = DOMAIN LinuxBaseMap(s)
         /\ \A k \in DOMAIN LinuxBaseMap(s) :
              \/ k \in {"state", "txOptions", "rxOptions", "txWindowScale", "rxWindowScale"}
              \/ \E f \in DOMAIN LinuxKey : k = LinuxKey[f]
<1>1. DOMAIN LinuxBaseMap(t) = DOMAIN LinuxBaseMap(s)
  BY Zenon DEF LinuxBaseMap
<1>2. ASSUME NEW k \in DOMAIN LinuxBaseMap(s)
      PROVE  \/ k \in {"state", "txOptions", "rxOptions", "txWindowScale", "rxWindowScale"}
             \/ \E f \in DOMAIN LinuxKey : k = LinuxKey[f]
  BY Zenon DEF LinuxBaseMap, LinuxKey
<1> QED
  BY Zenon, <1>1, <1>2

\* On Linux every number that all kernels have has its key.
LEMMA LinuxBaseCarries ==
  ASSUME NEW r, NEW r0, NEW h,
         r0.state = r.state, r0.options = r.options, r0.bitfield0 = r.bitfield0
  PROVE  Carries(LinuxKey, LinuxBaseMap(LinuxUnpack(r, h)), LinuxBaseMap(LinuxUnpack(r0, h)), r, r0)
<1>1. PICK m : m = LinuxBaseMap(LinuxUnpack(r, h)) /\ LinuxPublished(m, r)
  BY Zenon, LinuxComposed
<1>2. PICK m0 : m0 = LinuxBaseMap(LinuxUnpack(r0, h)) /\ LinuxPublished(m0, r0)
  BY Zenon, LinuxComposed
<1>3. \A f \in DOMAIN LinuxKey :
        LinuxKey[f] \in DOMAIN m /\ Carried(m[LinuxKey[f]], m0[LinuxKey[f]], r[f], r0[f])
  <2> DEFINE D(f) == LinuxKey[f] \in DOMAIN m
             C(f) == Carried(m[LinuxKey[f]], m0[LinuxKey[f]], r[f], r0[f])
  <2>1. /\ D("ca_state") /\ D("retransmits") /\ D("probes") /\ D("backoff") /\ D("rto")
        /\ D("ato") /\ D("snd_mss") /\ D("rcv_mss") /\ D("unacked") /\ D("sacked")
        /\ D("lost") /\ D("retrans") /\ D("fackets") /\ D("last_data_sent")
        /\ D("last_ack_sent") /\ D("last_data_recv") /\ D("last_ack_recv") /\ D("pmtu")
        /\ D("rcv_ssthresh") /\ D("rtt") /\ D("rttvar") /\ D("snd_ssthresh")
        /\ D("snd_cwnd") /\ D("advmss") /\ D("reordering") /\ D("rcv_rtt") /\ D("rcv_space")
        /\ D("total_retrans")
    BY ZenonT(30), <1>1 DEF LinuxBaseMap, LinuxKey
  <2>2. /\ C("ca_state") /\ C("retransmits") /\ C("probes") /\ C("backoff") /\ C("rto")
        /\ C("ato") /\ C("snd_mss") /\ C("rcv_mss") /\ C("unacked") /\ C("sacked")
        /\ C("lost") /\ C("retrans") /\ C("fackets") /\ C("last_data_sent")
        /\ C("last_ack_sent") /\ C("last_data_recv") /\ C("last_ack_recv") /\ C("pmtu")
        /\ C("rcv_ssthresh") /\ C("rtt") /\ C("rttvar") /\ C("snd_ssthresh")
        /\ C("snd_cwnd") /\ C("advmss") /\ C("reordering") /\ C("rcv_rtt") /\ C("rcv_space")
        /\ C("total_retrans")
    BY ZenonT(30), <1>1, <1>2 DEF LinuxPublished, LinuxKey, Carried
  <2> HIDE DEF D, C
  <2>3. \A f \in DOMAIN LinuxKey : D(f) /\ C(f)
    BY Zenon, <2>1, <2>2 DEF LinuxKey
  <2> QED
    BY Zenon, <2>3 DEF D, C
<1>4. \A k \in {"state", "txOptions", "rxOptions", "txWindowScale", "rxWindowScale"} :
        m[k] = m0[k]
  <2>1. m.state = m0.state
    BY ZenonT(30), <1>1, <1>2 DEF LinuxPublished
  <2>2. m.txOptions = m0.txOptions /\ m.rxOptions = m0.rxOptions
    BY ZenonT(30), <1>1, <1>2 DEF LinuxPublished
  <2>3. m.txWindowScale = m0.txWindowScale /\ m.rxWindowScale = m0.rxWindowScale
    BY ZenonT(30), <1>1, <1>2 DEF LinuxPublished
  <2> QED
    BY Zenon, <2>1, <2>2, <2>3
<1>5. /\ DOMAIN m0 = DOMAIN m
      /\ \A k \in DOMAIN m :
           \/ k \in {"state", "txOptions", "rxOptions", "txWindowScale", "rxWindowScale"}
           \/ \E f \in DOMAIN LinuxKey : k = LinuxKey[f]
  BY Zenon, <1>1, <1>2, LinuxKeys
<1>6. \A k \in DOMAIN m : (\E f \in DOMAIN LinuxKey : k = LinuxKey[f]) \/ m[k] = m0[k]
  BY Zenon, <1>4, <1>5
<1>7. Carries(LinuxKey, m, m0, r, r0)
  BY Zenon, <1>3, <1>5, <1>6 DEF Carries
<1> QED
  BY Zenon, <1>1, <1>2, <1>7

\* The keys of the nullable numbers, the two of bitfield1 aside.
NullableKey ==
  [pacing_rate |-> "pacingRate", max_pacing_rate |-> "maxPacingRate",
   bytes_acked |-> "bytesAcked", bytes_received |-> "bytesReceived", segs_out |-> "segsOut",
   segs_in |-> "segsIn", notsent_bytes |-> "notSentBytes", min_rtt |-> "minRTT",
   data_segs_in |-> "dataSegsIn", data_segs_out |-> "dataSegsOut",
   delivery_rate |-> "deliveryRate", busy_time |-> "busyTime",
   rwnd_limited |-> "rxWindowLimited", sndbuf_limited |-> "txBufferLimited",
   delivered |-> "delivered", delivered_ce |-> "deliveredCE", bytes_sent |-> "bytesSent",
   bytes_retrans |-> "bytesRetrans", dsack_dups |-> "dsackDups", reord_seen |-> "reordSeen",
   rcv_ooopack |-> "rxOutOfOrder", snd_wnd |-> "txWindow", rcv_wnd |-> "rxWindow",
   rehash |-> "rehash", total_rto |-> "totalRTO",
   total_rto_recoveries |-> "totalRTORecoveries", total_rto_time |-> "totalRTOTime"]

NullableBits == {"delivery_rate_app_limited", "fastopen_client_fail"}

\* What of RawTCPInfo the key k is about.
SourceOf(k) == NullableSource[NullableOf[k]]

\* The tables of Unpack and of ToMap, one after the other, give each nullable number
\* its key.
LEMMA NullableTables ==
  /\ \A k \in DOMAIN NullableOf :
       /\ NullableOf[k] \in DOMAIN NullableSource
       /\ \/ SourceOf(k) \in NullableBits
          \/ SourceOf(k) \in DOMAIN NullableKey /\ NullableKey[SourceOf(k)] = k
  /\ \A f \in DOMAIN NullableKey :
       NullableKey[f] \in DOMAIN NullableOf /\ SourceOf(NullableKey[f]) = f
<1> DEFINE D(k) == NullableOf[k] \in DOMAIN NullableSource
           B(k) == SourceOf(k) \in NullableBits
           C(k) == SourceOf(k) \in DOMAIN NullableKey
           E(k) == NullableKey[SourceOf(k)] = k
           G(f) == NullableKey[f] \in DOMAIN NullableOf
           H(f) == SourceOf(NullableKey[f]) = f
<1>1. /\ D("deliveryRateAppLimited") /\ D("fastOpenClientFail") /\ D("pacingRate")
      /\ D("maxPacingRate") /\ D("bytesAcked") /\ D("bytesReceived") /\ D("segsOut")
      /\ D("segsIn") /\ D("notSentBytes") /\ D("minRTT") /\ D("dataSegsIn")
      /\ D("dataSegsOut") /\ D("deliveryRate") /\ D("busyTime") /\ D("rxWindowLimited")
      /\ D("txBufferLimited") /\ D("delivered") /\ D("deliveredCE") /\ D("bytesSent")
      /\ D("bytesRetrans") /\ D("dsackDups") /\ D("reordSeen") /\ D("rxOutOfOrder")
      /\ D("txWindow") /\ D("rxWindow") /\ D("rehash") /\ D("totalRTO")
      /\ D("totalRTORecoveries") /\ D("totalRTOTime")
  BY ZenonT(30) DEF NullableOf, NullableSource
<1>2. B("deliveryRateAppLimited") /\ B("fastOpenClientFail")
  BY ZenonT(30) DEF SourceOf, NullableBits, NullableOf, NullableSource
<1>3. /\ C("pacingRate") /\ C("maxPacingRate") /\ C("bytesAcked") /\ C("bytesReceived")
      /\ C("segsOut") /\ C("segsIn") /\ C("notSentBytes") /\ C("minRTT") /\ C("dataSegsIn")
      /\ C("dataSegsOut") /\ C("deliveryRate") /\ C("busyTime") /\ C("rxWindowLimited")
      /\ C("txBufferLimited") /\ C("delivered") /\ C("deliveredCE") /\ C("bytesSent")
      /\ C("bytesRetrans") /\ C("dsackDups") /\ C("reordSeen") /\ C("rxOutOfOrder")
      /\ C("txWindow") /\ C("rxWindow") /\ C("rehash") /\ C("totalRTO")
      /\ C("totalRTORecoveries") /\ C("totalRTOTime")
  BY ZenonT(30) DEF SourceOf, NullableKey, NullableOf, NullableSource
<1>4. /\ E("pacingRate") /\ E("maxPacingRate") /\ E("bytesAcked") /\ E("bytesReceived")
      /\ E("segsOut") /\ E("segsIn") /\ E("notSentBytes") /\ E("minRTT") /\ E("dataSegsIn")
      /\ E("dataSegsOut") /\ E("deliveryRate") /\ E("busyTime") /\ E("rxWindowLimited")
      /\ E("txBufferLimited") /\ E("delivered") /\ E("deliveredCE") /\ E("bytesSent")
      /\ E("bytesRetrans") /\ E("dsackDups") /\ E("reordSeen") /\ E("rxOutOfOrder")
      /\ E("txWindow") /\ E("rxWindow") /\ E("rehash") /\ E("totalRTO")
      /\ E("totalRTORecoveries") /\ E("totalRTOTime")
  BY ZenonT(30) DEF SourceOf, NullableKey, NullableOf, NullableSource
<1>5. /\ G("pacing_rate") /\ G("max_pacing_rate") /\ G("bytes_acked") /\ G("bytes_received")
      /\ G("segs_out") /\ G("segs_in") /\ G("notsent_bytes") /\ G("min_rtt")
      /\ G("data_segs_in") /\ G("data_segs_out") /\ G("delivery_rate") /\ G("busy_time")
      /\ G("rwnd_limited") /\ G("sndbuf_limited") /\ G("delivered") /\ G("delivered_ce")
      /\ G("bytes_sent") /\ G("bytes_retrans") /\ G("dsack_dups") /\ G("reord_seen")
      /\ G("rcv_ooopack") /\ G("snd_wnd") /\ G("rcv_wnd") /\ G("rehash") /\ G("total_rto")
      /\ G("total_rto_recoveries") /\ G("total_rto_time")
  BY ZenonT(30) DEF NullableKey, NullableOf
<1>6. /\ H("pacing_rate") /\ H("max_pacing_rate") /\ H("bytes_acked") /\ H("bytes_received")
      /\ H("segs_out") /\ H("segs_in") /\ H("notsent_bytes") /\ H("min_rtt")
      /\ H("data_segs_in") /\ H("data_segs_out") /\ H("delivery_rate") /\ H("busy_time")
      /\ H("rwnd_limited") /\ H("sndbuf_limited") /\ H("delivered") /\ H("delivered_ce")
      /\ H("bytes_sent") /\ H("bytes_retrans") /\ H("dsack_dups") /\ H("reord_seen")
      /\ H("rcv_ooopack") /\ H("snd_wnd") /\ H("rcv_wnd") /\ H("rehash") /\ H("total_rto")
      /\ H("total_rto_recoveries") /\ H("total_rto_time")
  BY ZenonT(30) DEF SourceOf, NullableKey, NullableOf, NullableSource
<1> HIDE DEF D, B, C, E, G, H
<1>7. \A k \in DOMAIN NullableOf : D(k) /\ (B(k) \/ (C(k) /\ E(k)))
  <2> DEFINE P(k) == B(k) \/ (C(k) /\ E(k))
  <2>1. \A k : (B(k) => P(k)) /\ (C(k) /\ E(k) => P(k))
    BY Zenon
  <2> HIDE DEF P
  <2>2. /\ P("deliveryRateAppLimited") /\ P("fastOpenClientFail") /\ P("pacingRate")
        /\ P("maxPacingRate") /\ P("bytesAcked") /\ P("bytesReceived") /\ P("segsOut")
        /\ P("segsIn") /\ P("notSentBytes") /\ P("minRTT") /\ P("dataSegsIn")
        /\ P("dataSegsOut") /\ P("deliveryRate") /\ P("busyTime") /\ P("rxWindowLimited")
        /\ P("txBufferLimited") /\ P("delivered") /\ P("deliveredCE") /\ P("bytesSent")
        /\ P("bytesRetrans") /\ P("dsackDups") /\ P("reordSeen") /\ P("rxOutOfOrder")
        /\ P("txWindow") /\ P("rxWindow") /\ P("rehash") /\ P("totalRTO")
        /\ P("totalRTORecoveries") /\ P("totalRTOTime")
    BY Zenon, <1>2, <1>3, <1>4, <2>1
  <2>3. \A k \in DOMAIN NullableOf : D(k)
    BY ZenonT(30), <1>1 DEF NullableOf
  <2>4. \A k \in DOMAIN NullableOf : P(k)
    BY ZenonT(30), <2>2 DEF NullableOf
  <2> QED
    BY Zenon, <2>3, <2>4 DEF P
<1>8. \A f \in DOMAIN NullableKey : G(f) /\ H(f)
  BY ZenonT(30), <1>5, <1>6 DEF NullableKey
<1> QED
  BY Zenon, <1>7, <1>8 DEF D, B, C, E, G, H

\* A key of a nullable field is none of those that are always there.
LEMMA NullableKeysApart ==
  ASSUME NEW s, NEW k \in DOMAIN NullableOf
  PROVE  k \notin DOMAIN LinuxBaseMap(s)
  BY ZenonT(60) DEF NullableOf, LinuxBaseMap

\* A nullable number is none of those every kernel has.
LEMMA NullableFieldsApart ==
  ASSUME NEW f \in DOMAIN LinuxKey
  PROVE  f \notin DOMAIN NullableKey
  BY ZenonT(60) DEF LinuxKey, NullableKey

\* The keys of the nullable fields that are Valid.
ValidKeys(h) == {k \in DOMAIN NullableOf : SourceOf(k) \in h}

\* The map of a struct: the keys that are always there, and those of the nullable
\* fields that are Valid with what Unpack decoded.
LEMMA LinuxMap ==
  ASSUME NEW r, NEW h
  PROVE  LET u == LinuxUnpack(r, h)
             m == LinuxToMap(u) IN
         /\ DOMAIN m = DOMAIN LinuxBaseMap(u) \cup ValidKeys(h)
         /\ \A k \in ValidKeys(h) : m[k] = Decoded(r, SourceOf(k))
         /\ \A k \in DOMAIN LinuxBaseMap(u) : m[k] = LinuxBaseMap(u)[k]
<1> DEFINE u == LinuxUnpack(r, h)
           m == LinuxToMap(u)
           base == LinuxBaseMap(u)
           valid == {k \in DOMAIN NullableOf : u.nullable[NullableOf[k]].Valid}
<1>1. u.nullable = [n \in DOMAIN NullableSource |-> Nullable(r, h, NullableSource[n])]
  BY Zenon DEF LinuxUnpack
<1>2. m = [k \in DOMAIN base \cup valid |->
             IF k \in valid THEN u.nullable[NullableOf[k]].Value ELSE base[k]]
  BY Zenon DEF LinuxToMap
<1>3. \A k \in DOMAIN NullableOf : k \notin DOMAIN base
  BY Zenon, NullableKeysApart
<1> HIDE DEF u, m, base
<1>4. \A k \in DOMAIN NullableOf : u.nullable[NullableOf[k]] = Nullable(r, h, SourceOf(k))
  BY Zenon, <1>1, NullableTables DEF SourceOf
<1>5. \A f : (Nullable(r, h, f).Valid <=> f \in h) /\ (f \in h => Nullable(r, h, f).Value = Decoded(r, f))
  BY Zenon DEF Nullable
<1>6. valid = ValidKeys(h)
  BY Zenon, <1>4, <1>5 DEF ValidKeys
<1> HIDE DEF valid
<1>7. DOMAIN m = DOMAIN base \cup ValidKeys(h)
  BY Zenon, <1>2, <1>6
<1>8. ASSUME NEW k \in ValidKeys(h) PROVE m[k] = Decoded(r, SourceOf(k))
  <2>1. k \in DOMAIN NullableOf /\ SourceOf(k) \in h
    BY Zenon DEF ValidKeys
  <2>2. m[k] = u.nullable[NullableOf[k]].Value
    BY Zenon, <1>2, <1>6
  <2> QED
    BY Zenon, <1>4, <1>5, <2>1, <2>2
<1>9. ASSUME NEW k \in DOMAIN base PROVE m[k] = base[k]
  <2>1. k \notin valid
    BY Zenon, <1>3, <1>6 DEF ValidKeys
  <2> QED
    BY Zenon, <1>2, <2>1
<1> QED
  BY Zenon, <1>7, <1>8, <1>9 DEF u, m, base

\* The keys of all numbers on a kernel where the nullable fields h are Valid.
LinuxKeyOf(h) ==
  [f \in DOMAIN LinuxKey \cup (DOMAIN NullableKey \cap h) |->
     IF f \in DOMAIN LinuxKey THEN LinuxKey[f] ELSE NullableKey[f]]

\* On Linux every number that the kernel version has has its key.
LEMMA LinuxCarries ==
  ASSUME NEW r, NEW r0, NEW h, r0.state = r.state, r0.options = r.options,
         r0.bitfield0 = r.bitfield0, r0.bitfield1 = r.bitfield1
  PROVE  Carries(LinuxKeyOf(h), LinuxToMap(LinuxUnpack(r, h)), LinuxToMap(LinuxUnpack(r0, h)),
                 r, r0)
<1> DEFINE u == LinuxUnpack(r, h)
           u0 == LinuxUnpack(r0, h)
           base == LinuxBaseMap(u)
           base0 == LinuxBaseMap(u0)
           m == LinuxToMap(u)
           m0 == LinuxToMap(u0)
           K == LinuxKeyOf(h)
<1>1. Carries(LinuxKey, base, base0, r, r0)
  BY Zenon, LinuxBaseCarries
<1>2. /\ DOMAIN m = DOMAIN base \cup ValidKeys(h)
      /\ \A k \in ValidKeys(h) : m[k] = Decoded(r, SourceOf(k))
      /\ \A k \in DOMAIN base : m[k] = base[k]
  BY Zenon, LinuxMap
<1>3. /\ DOMAIN m0 = DOMAIN base0 \cup ValidKeys(h)
      /\ \A k \in ValidKeys(h) : m0[k] = Decoded(r0, SourceOf(k))
      /\ \A k \in DOMAIN base0 : m0[k] = base0[k]
  BY Zenon, LinuxMap
<1> HIDE DEF u, u0, base, base0, m, m0
<1>4. /\ DOMAIN K = DOMAIN LinuxKey \cup (DOMAIN NullableKey \cap h)
      /\ \A f \in DOMAIN LinuxKey : K[f] = LinuxKey[f]
      /\ \A f \in DOMAIN NullableKey \cap h : K[f] = NullableKey[f]
  BY Zenon, NullableFieldsApart DEF LinuxKeyOf
<1> HIDE DEF K
<1>5. DOMAIN base0 = DOMAIN base /\ DOMAIN m0 = DOMAIN m
  BY Zenon, <1>1, <1>2, <1>3 DEF Carries
<1>6. ASSUME NEW f \in DOMAIN LinuxKey
      PROVE  K[f] \in DOMAIN m /\ Carried(m[K[f]], m0[K[f]], r[f], r0[f])
  <2>1. LinuxKey[f] \in DOMAIN base /\ Carried(base[LinuxKey[f]], base0[LinuxKey[f]], r[f], r0[f])
    BY Zenon, <1>1 DEF Carries
  <2> QED
    BY Zenon, <1>2, <1>3, <1>4, <1>5, <2>1
<1>7. \A f \in DOMAIN NullableKey : f \notin NullableBits
  BY ZenonT(30) DEF NullableKey, NullableBits
<1>8. ASSUME NEW f \in DOMAIN NullableKey PROVE Carried(Decoded(r, f), Decoded(r0, f), r[f], r0[f])
  <2>1. f # "delivery_rate_app_limited" /\ f # "fastopen_client_fail"
    BY Zenon, <1>7 DEF NullableBits
  <2>2. CASE f = "min_rtt"
    <3>1. Decoded(r, f) = Micro(r[f]) /\ Decoded(r0, f) = Micro(r0[f])
      BY Zenon, <2>1, <2>2 DEF Decoded, Micro
    <3> QED
      BY Zenon, <3>1 DEF Carried
  <2>3. CASE f # "min_rtt"
    <3>1. Decoded(r, f) = r[f] /\ Decoded(r0, f) = r0[f]
      BY Zenon, <2>1, <2>3 DEF Decoded
    <3> QED
      BY Zenon, <3>1 DEF Carried
  <2> QED
    BY Zenon, <2>2, <2>3
<1>9. ASSUME NEW f \in DOMAIN NullableKey \cap h
      PROVE  K[f] \in DOMAIN m /\ Carried(m[K[f]], m0[K[f]], r[f], r0[f])
  <2>1. K[f] \in ValidKeys(h) /\ SourceOf(K[f]) = f
    BY Zenon, <1>4, NullableTables DEF ValidKeys
  <2> QED
    BY Zenon, <1>2, <1>3, <1>8, <2>1
<1>10. ASSUME NEW k \in ValidKeys(h)
       PROVE  (\E f \in DOMAIN K : k = K[f]) \/ m[k] = m0[k]
  <2>1. k \in DOMAIN NullableOf /\ SourceOf(k) \in h
    BY Zenon DEF ValidKeys
  <2>2. CASE SourceOf(k) \in NullableBits
    <3>1. Decoded(r, SourceOf(k)) = Decoded(r0, SourceOf(k))
      BY Zenon, <2>2 DEF NullableBits, Decoded
    <3> QED
      BY Zenon, <1>2, <1>3, <3>1
  <2>3. CASE SourceOf(k) \in DOMAIN NullableKey /\ NullableKey[SourceOf(k)] = k
    BY Zenon, <1>4, <2>1, <2>3
  <2> QED
    BY Zenon, <2>1, <2>2, <2>3, NullableTables
<1>11. ASSUME NEW k \in DOMAIN base
       PROVE  (\E f \in DOMAIN K : k = K[f]) \/ m[k] = m0[k]
  <2>1. (\E f \in DOMAIN LinuxKey : k = LinuxKey[f]) \/ base[k] = base0[k]
    BY Zenon, <1>1 DEF Carries
  <2> QED
    BY Zenon, <1>2, <1>3, <1>4, <1>5, <2>1
<1>12. Carries(K, m, m0, r, r0)
  BY Zenon, <1>2, <1>4, <1>5, <1>6, <1>9, <1>10, <1>11 DEF Carries
<1> QED
  BY Zenon, <1>12 DEF K, m, m0, u, u0

\* The same on macOS.
DarwinKey ==
  [RTO |-> "rto", MaxSeg |-> "mss", SendSSThresh |-> "txSSThreshold",
   SendCwnd |-> "txCWindowBytes", SendWnd |-> "txWindow",
   SendSBBytes |-> "txSendBufferBytes", RecvWnd |-> "rxWindow", RTTCur |-> "rttCur",
   SRTT |-> "rttSmoothed", RTTVar |-> "rttVar", TFOFlags |-> "tfoFlags",
   TxPackets |-> "txPackets", TxBytes |-> "txBytes",
   TxRetransmitBytes |-> "txRetransmitBytes", RxPackets |-> "rxPackets",
   RxBytes |-> "rxBytes", RxOutOfOrderBytes |-> "rxOutOfOrderBytes",
   TxRetransmitPackets |-> "txRetransmitPackets"]

DarwinPublished(m, r) ==
  /\ m.state = StateName(DarwinStates, r.State) /\ m.txWindowScale = r.SendWscale
  /\ m.rxWindowScale = r.RecvWscale
  /\ m.txOptions = Options(DarwinOptions, r.Options, r.SendWscale)
  /\ m.rxOptions = Options(DarwinOptions, r.Options, r.RecvWscale)
  /\ m.flags = Flags(r.Flags) /\ m.rto = Milli(r.RTO) /\ m.mss = r.MaxSeg
  /\ m.txSSThreshold = r.SendSSThresh /\ m.txCWindowBytes = r.SendCwnd
  /\ m.txWindow = r.SendWnd /\ m.txSendBufferBytes = r.SendSBBytes
  /\ m.rxWindow = r.RecvWnd /\ m.rttCur = Milli(r.RTTCur) /\ m.rttSmoothed = Milli(r.SRTT)
  /\ m.rttVar = Milli(r.RTTVar) /\ m.tfoFlags = r.TFOFlags /\ m.txPackets = r.TxPackets
  /\ m.txBytes = r.TxBytes /\ m.txRetransmitBytes = r.TxRetransmitBytes
  /\ m.rxPackets = r.RxPackets /\ m.rxBytes = r.RxBytes
  /\ m.rxOutOfOrderBytes = r.RxOutOfOrderBytes
  /\ m.txRetransmitPackets = r.TxRetransmitPackets

\* Unpack and ToMap of macOS.
LEMMA DarwinComposed ==
  ASSUME NEW r
  PROVE  DarwinPublished(DarwinToMap(DarwinUnpack(r)), r)
<1>1. ASSUME NEW s, s = DarwinUnpack(r), NEW m, m = DarwinToMap(s)
      PROVE  DarwinPublished(m, r)
  BY ZenonT(30), <1>1 DEF DarwinPublished, DarwinUnpack, DarwinToMap, Milli
<1> QED
  BY Zenon, <1>1

\* The keys of the map of macOS.
LEMMA DarwinKeys ==
  ASSUME NEW s, NEW t
  PROVE  /\ DOMAIN DarwinToMap(t) = DOMAIN DarwinToMap(s)
         /\ \A k \in DOMAIN DarwinToMap(s) :
              \/ k \in {"state", "txWindowScale", "rxWindowScale", "txOptions", "rxOptions", "flags"}
              \/ \E f \in DOMAIN DarwinKey : k = DarwinKey[f]
<1>1. DOMAIN DarwinToMap(t) = DOMAIN DarwinToMap(s)
  BY Zenon DEF DarwinToMap
<1>2. ASSUME NEW k \in DOMAIN DarwinToMap(s)
      PROVE  \/ k \in {"state", "txWindowScale", "rxWindowScale", "txOptions", "rxOptions", "flags"}
             \/ \E f \in DOMAIN DarwinKey : k = DarwinKey[f]
  BY Zenon DEF DarwinToMap, DarwinKey
<1> QED
  BY Zenon, <1>1, <1>2

\* On macOS every number has its key.
LEMMA DarwinCarries ==
  ASSUME NEW r, NEW r0,
         r0.State = r.State, r0.Options = r.Options, r0.Flags = r.Flags,
         r0.SendWscale = r.SendWscale, r0.RecvWscale = r.RecvWscale
  PROVE  Carries(DarwinKey, DarwinToMap(DarwinUnpack(r)), DarwinToMap(DarwinUnpack(r0)), r, r0)
<1>1. PICK m : m = DarwinToMap(DarwinUnpack(r)) /\ DarwinPublished(m, r)
  BY Zenon, DarwinComposed
<1>2. PICK m0 : m0 = DarwinToMap(DarwinUnpack(r0)) /\ DarwinPublished(m0, r0)
  BY Zenon, DarwinComposed
<1>3. \A f \in DOMAIN DarwinKey :
        DarwinKey[f] \in DOMAIN m /\ Carried(m[DarwinKey[f]], m0[DarwinKey[f]], r[f], r0[f])
  <2> DEFINE D(f) == DarwinKey[f] \in DOMAIN m
             C(f) == Carried(m[DarwinKey[f]], m0[DarwinKey[f]], r[f], r0[f])
  <2>1. /\ D("RTO") /\ D("MaxSeg") /\ D("SendSSThresh") /\ D("SendCwnd") /\ D("SendWnd")
        /\ D("SendSBBytes") /\ D("RecvWnd") /\ D("RTTCur") /\ D("SRTT") /\ D("RTTVar")
        /\ D("TFOFlags") /\ D("TxPackets") /\ D("TxBytes") /\ D("TxRetransmitBytes")
        /\ D("RxPackets") /\ D("RxBytes") /\ D("RxOutOfOrderBytes")
        /\ D("TxRetransmitPackets")
    BY ZenonT(30), <1>1 DEF DarwinToMap, DarwinKey
  <2>2. /\ C("RTO") /\ C("MaxSeg") /\ C("SendSSThresh") /\ C("SendCwnd") /\ C("SendWnd")
        /\ C("SendSBBytes") /\ C("RecvWnd") /\ C("RTTCur") /\ C("SRTT") /\ C("RTTVar")
        /\ C("TFOFlags") /\ C("TxPackets") /\ C("TxBytes") /\ C("TxRetransmitBytes")
        /\ C("RxPackets") /\ C("RxBytes") /\ C("RxOutOfOrderBytes")
        /\ C("TxRetransmitPackets")
    BY ZenonT(30), <1>1, <1>2 DEF DarwinPublished, DarwinKey, Carried
  <2> HIDE DEF D, C
  <2>3. \A f \in DOMAIN DarwinKey : D(f) /\ C(f)
    BY Zenon, <2>1, <2>2 DEF DarwinKey
  <2> QED
    BY Zenon, <2>3 DEF D, C
<1>4. \A k \in {"state", "txWindowScale", "rxWindowScale", "txOptions", "rxOptions", "flags"} :
        m[k] = m0[k]
  BY ZenonT(30), <1>1, <1>2 DEF DarwinPublished
<1>5. /\ DOMAIN m0 = DOMAIN m
      /\ \A k \in DOMAIN m :
           \/ k \in {"state", "txWindowScale", "rxWindowScale", "txOptions", "rxOptions", "flags"}
           \/ \E f \in DOMAIN DarwinKey : k = DarwinKey[f]
  BY Zenon, <1>1, <1>2, DarwinKeys
<1>6. \A k \in DOMAIN m : (\E f \in DOMAIN DarwinKey : k = DarwinKey[f]) \/ m[k] = m0[k]
  BY Zenon, <1>4, <1>5
<1>7. Carries(DarwinKey, m, m0, r, r0)
  BY Zenon, <1>3, <1>5, <1>6 DEF Carries
<1> QED
  BY Zenon, <1>1, <1>2, <1>7

\* The same on Windows, for both versions of the struct.
WindowsKey ==
  [Mss |-> "mss", ConnectionTimeMs |-> "connectedTimeNS", RttUs |-> "rtt",
   MinRttUs |-> "rttMin", BytesInFlight |-> "bytesInFlight",
   Cwnd |-> "congestionWindow", SndWnd |-> "txWindow", RcvWnd |-> "rxWindow",
   RcvBuf |-> "rxBuffer", BytesOut |-> "txBytes", BytesIn |-> "rxBytes",
   BytesReordered |-> "rxOutOfOrderBytes", BytesRetrans |-> "txRetransmitBytes",
   FastRetrans |-> "fastRetransmissions", DupAcksIn |-> "duplicateAcksIn",
   TimeoutEpisodes |-> "timeoutEpisodes", SynRetrans |-> "synRetransmissions",
   SndLimTransRwin |-> "sndLimTransRwin", SndLimTimeRwin |-> "sndLimTimeRwin",
   SndLimBytesRwin |-> "sndLimBytesRwin", SndLimTransCwnd |-> "sndLimTransCwnd",
   SndLimTimeCwnd |-> "sndLimTimeCwnd", SndLimBytesCwnd |-> "sndLimBytesCwnd",
   SndLimTransSnd |-> "sndLimTransSnd", SndLimTimeSnd |-> "sndLimTimeSnd",
   SndLimBytesSnd |-> "sndLimBytesSnd"]

WindowsPublished(m, r, v1) ==
  /\ m.state = StateName(WindowsStates, r.State) /\ m.mss = r.Mss
  /\ m.connectedTimeNS = Milli(r.ConnectionTimeMs) /\ m.rtt = Micro(r.RttUs)
  /\ m.rttMin = Micro(r.MinRttUs) /\ m.bytesInFlight = r.BytesInFlight
  /\ m.congestionWindow = r.Cwnd /\ m.txWindow = r.SndWnd /\ m.rxWindow = r.RcvWnd
  /\ m.rxBuffer = r.RcvBuf /\ m.txBytes = r.BytesOut /\ m.rxBytes = r.BytesIn
  /\ m.rxOutOfOrderBytes = r.BytesReordered /\ m.txRetransmitBytes = r.BytesRetrans
  /\ m.fastRetransmissions = r.FastRetrans /\ m.duplicateAcksIn = r.DupAcksIn
  /\ m.timeoutEpisodes = r.TimeoutEpisodes /\ m.synRetransmissions = r.SynRetrans
  /\ m.sndLimTransRwin = (IF v1 THEN r.SndLimTransRwin ELSE 0)
  /\ m.sndLimTimeRwin = (IF v1 THEN Milli(r.SndLimTimeRwin) ELSE 0)
  /\ m.sndLimBytesRwin = (IF v1 THEN r.SndLimBytesRwin ELSE 0)
  /\ m.sndLimTransCwnd = (IF v1 THEN r.SndLimTransCwnd ELSE 0)
  /\ m.sndLimTimeCwnd = (IF v1 THEN Milli(r.SndLimTimeCwnd) ELSE 0)
  /\ m.sndLimBytesCwnd = (IF v1 THEN r.SndLimBytesCwnd ELSE 0)
  /\ m.sndLimTransSnd = (IF v1 THEN r.SndLimTransSnd ELSE 0)
  /\ m.sndLimTimeSnd = (IF v1 THEN Milli(r.SndLimTimeSnd) ELSE 0)
  /\ m.sndLimBytesSnd = (IF v1 THEN r.SndLimBytesSnd ELSE 0)

\* The first version of the struct, and with it its map, lacks the limits.
WindowsKeyOf(v1) ==
  [f \in DOMAIN WindowsKey \ (IF v1 THEN {} ELSE V1Fields) |-> WindowsKey[f]]

\* Unpack and ToMap of Windows.
LEMMA WindowsComposed ==
  ASSUME NEW r
  PROVE  /\ WindowsPublished(WindowsToMap(WindowsUnpackV1(r)), r, TRUE)
         /\ WindowsPublished(WindowsToMap(WindowsUnpackV0(r)), r, FALSE)
<1>1. ASSUME NEW s, s = WindowsUnpackV1(r), NEW m, m = WindowsToMap(s)
      PROVE  WindowsPublished(m, r, TRUE)
  BY ZenonT(30), <1>1 DEF WindowsPublished, WindowsUnpackV1, WindowsToMap, Micro, Milli
<1>2. ASSUME NEW s, s = WindowsUnpackV0(r), NEW m, m = WindowsToMap(s)
      PROVE  WindowsPublished(m, r, FALSE)
  BY ZenonT(30), <1>2 DEF WindowsPublished, WindowsUnpackV0, WindowsToMap, Micro, Milli
<1> QED
  BY Zenon, <1>1, <1>2

\* The keys of the map of Windows.
LEMMA WindowsKeys ==
  ASSUME NEW s, NEW t
  PROVE  /\ DOMAIN WindowsToMap(t) = DOMAIN WindowsToMap(s)
         /\ \A k \in DOMAIN WindowsToMap(s) :
              k = "state" \/ \E f \in DOMAIN WindowsKey : k = WindowsKey[f]
<1>1. DOMAIN WindowsToMap(t) = DOMAIN WindowsToMap(s)
  BY Zenon DEF WindowsToMap
<1>2. ASSUME NEW k \in DOMAIN WindowsToMap(s)
      PROVE  \/ k = "state"
             \/ \E f \in DOMAIN WindowsKey : k = WindowsKey[f]
  BY Zenon DEF WindowsToMap, WindowsKey
<1> QED
  BY Zenon, <1>1, <1>2

\* On Windows every number of the version at hand has its key.
LEMMA WindowsCarries ==
  ASSUME NEW r, NEW r0, r0.State = r.State, NEW v1 \in BOOLEAN, NEW s, NEW s0,
         WindowsPublished(WindowsToMap(s), r, v1), WindowsPublished(WindowsToMap(s0), r0, v1)
  PROVE  Carries(WindowsKeyOf(v1), WindowsToMap(s), WindowsToMap(s0), r, r0)
<1>1. PICK m, m0 : m = WindowsToMap(s) /\ m0 = WindowsToMap(s0)
  BY Zenon
<1>2. WindowsPublished(m, r, v1) /\ WindowsPublished(m0, r0, v1)
  BY Zenon, <1>1
<1> DEFINE D(f) == WindowsKey[f] \in DOMAIN m
           C(f) == Carried(m[WindowsKey[f]], m0[WindowsKey[f]], r[f], r0[f])
           E(f) == m[WindowsKey[f]] = 0 /\ m0[WindowsKey[f]] = 0
<1>3. \A f \in DOMAIN WindowsKey : D(f) /\ (f \notin V1Fields => C(f))
  <2>1. /\ D("Mss") /\ D("ConnectionTimeMs") /\ D("RttUs") /\ D("MinRttUs")
        /\ D("BytesInFlight") /\ D("Cwnd") /\ D("SndWnd") /\ D("RcvWnd") /\ D("RcvBuf")
        /\ D("BytesOut") /\ D("BytesIn") /\ D("BytesReordered") /\ D("BytesRetrans")
        /\ D("FastRetrans") /\ D("DupAcksIn") /\ D("TimeoutEpisodes") /\ D("SynRetrans")
        /\ D("SndLimTransRwin") /\ D("SndLimTimeRwin") /\ D("SndLimBytesRwin")
        /\ D("SndLimTransCwnd") /\ D("SndLimTimeCwnd") /\ D("SndLimBytesCwnd")
        /\ D("SndLimTransSnd") /\ D("SndLimTimeSnd") /\ D("SndLimBytesSnd")
    BY ZenonT(30), <1>1 DEF WindowsToMap, WindowsKey
  <2>2. /\ C("Mss") /\ C("ConnectionTimeMs") /\ C("RttUs") /\ C("MinRttUs")
        /\ C("BytesInFlight") /\ C("Cwnd") /\ C("SndWnd") /\ C("RcvWnd") /\ C("RcvBuf")
        /\ C("BytesOut") /\ C("BytesIn") /\ C("BytesReordered") /\ C("BytesRetrans")
        /\ C("FastRetrans") /\ C("DupAcksIn") /\ C("TimeoutEpisodes") /\ C("SynRetrans")
    BY ZenonT(30), <1>2 DEF WindowsPublished, WindowsKey, Carried
  <2> HIDE DEF D, C
  <2> QED
    BY Zenon, <2>1, <2>2 DEF WindowsKey, V1Fields
<1>4. ASSUME v1 PROVE \A f \in V1Fields : C(f)
  <2>1. /\ C("SndLimTransRwin") /\ C("SndLimTimeRwin") /\ C("SndLimBytesRwin")
        /\ C("SndLimTransCwnd") /\ C("SndLimTimeCwnd") /\ C("SndLimBytesCwnd")
        /\ C("SndLimTransSnd") /\ C("SndLimTimeSnd") /\ C("SndLimBytesSnd")
    BY ZenonT(30), <1>2, <1>4 DEF WindowsPublished, WindowsKey, Carried
  <2> HIDE DEF C
  <2> QED
    BY Zenon, <2>1 DEF V1Fields
<1>5. ASSUME ~v1 PROVE \A f \in V1Fields : E(f)
  <2>1. /\ E("SndLimTransRwin") /\ E("SndLimTimeRwin") /\ E("SndLimBytesRwin")
        /\ E("SndLimTransCwnd") /\ E("SndLimTimeCwnd") /\ E("SndLimBytesCwnd")
        /\ E("SndLimTransSnd") /\ E("SndLimTimeSnd") /\ E("SndLimBytesSnd")
    BY ZenonT(30), <1>2, <1>5 DEF WindowsPublished, WindowsKey
  <2> HIDE DEF E
  <2> QED
    BY Zenon, <2>1 DEF V1Fields
<1>6. m["state"] = m0["state"]
  BY Zenon, <1>2 DEF WindowsPublished
<1> HIDE DEF C, D
<1>7. \A f \in DOMAIN WindowsKeyOf(v1) : WindowsKeyOf(v1)[f] = WindowsKey[f] /\ D(f) /\ C(f)
  BY Zenon, <1>3, <1>4 DEF WindowsKeyOf
<1>8. \A f \in DOMAIN WindowsKey :
        f \in DOMAIN WindowsKeyOf(v1) \/ m[WindowsKey[f]] = m0[WindowsKey[f]]
  <2>1. ~v1 => \A f \in V1Fields : m[WindowsKey[f]] = m0[WindowsKey[f]]
    BY <1>5
  <2> QED
    BY Zenon, <2>1 DEF WindowsKeyOf
<1>9. /\ DOMAIN m0 = DOMAIN m
       /\ \A k \in DOMAIN m : k = "state" \/ \E f \in DOMAIN WindowsKey : k = WindowsKey[f]
  BY Zenon, <1>1, WindowsKeys
<1>10. ASSUME NEW k \in DOMAIN m, m[k] # m0[k]
       PROVE  \E f \in DOMAIN WindowsKeyOf(v1) : k = WindowsKeyOf(v1)[f]
  <2>1. PICK f \in DOMAIN WindowsKey : k = WindowsKey[f]
    BY Zenon, <1>6, <1>9, <1>10
  <2> QED
    BY Zenon, <1>7, <1>8, <1>10, <2>1
<1>11. ASSUME NEW f \in DOMAIN WindowsKeyOf(v1)
       PROVE  /\ WindowsKeyOf(v1)[f] \in DOMAIN m
              /\ Carried(m[WindowsKeyOf(v1)[f]], m0[WindowsKeyOf(v1)[f]], r[f], r0[f])
  BY Zenon, <1>7 DEF C, D
<1>12. Carries(WindowsKeyOf(v1), m, m0, r, r0)
  BY Zenon, <1>9, <1>10, <1>11 DEF Carries
<1> QED
  BY Zenon, <1>1, <1>12

\* The keys of the platform at hand.
KeyTable ==
  CASE platform = "linux" -> LinuxKeyOf(how)
    [] platform = "darwin" -> DarwinKey
    [] OTHER -> WindowsKeyOf(how = 1)

\* What Unpack puts into the nullable fields are the nullable numbers and the two bit
\* fields.
LEMMA NullableRange ==
  {NullableSource[n] : n \in DOMAIN NullableSource} = DOMAIN NullableKey \cup NullableBits
<1> DEFINE I(n) == NullableSource[n] \in DOMAIN NullableKey
           B(n) == NullableSource[n] \in NullableBits
<1>1. \A n \in DOMAIN NullableSource : NullableSource[n] \in DOMAIN NullableKey \cup NullableBits
  <2> DEFINE J(n) == I(n) \/ B(n)
  <2>1. B("DeliveryRateAppLimited") /\ B("FastOpenClientFail")
    BY ZenonT(30) DEF NullableSource, NullableBits
  <2>2. /\ I("PacingRate") /\ I("MaxPacingRate") /\ I("BytesAcked") /\ I("BytesReceived")
        /\ I("SegsOut") /\ I("SegsIn") /\ I("NotSentBytes") /\ I("MinRTT")
        /\ I("DataSegsIn") /\ I("DataSegsOut") /\ I("DeliveryRate") /\ I("BusyTime")
        /\ I("RxWindowLimited") /\ I("TxBufferLimited") /\ I("Delivered")
        /\ I("DeliveredCE") /\ I("BytesSent") /\ I("BytesRetrans") /\ I("DSACKDups")
        /\ I("ReordSeen") /\ I("RxOutOfOrder") /\ I("TxWindow") /\ I("RxWindow")
        /\ I("Rehash") /\ I("TotalRTO") /\ I("TotalRTORecoveries") /\ I("TotalRTOTime")
    BY ZenonT(30) DEF NullableSource, NullableKey
  <2> HIDE DEF I, B
  <2>3. /\ J("DeliveryRateAppLimited") /\ J("FastOpenClientFail") /\ J("PacingRate")
        /\ J("MaxPacingRate") /\ J("BytesAcked") /\ J("BytesReceived") /\ J("SegsOut")
        /\ J("SegsIn") /\ J("NotSentBytes") /\ J("MinRTT") /\ J("DataSegsIn")
        /\ J("DataSegsOut") /\ J("DeliveryRate") /\ J("BusyTime") /\ J("RxWindowLimited")
        /\ J("TxBufferLimited") /\ J("Delivered") /\ J("DeliveredCE") /\ J("BytesSent")
        /\ J("BytesRetrans") /\ J("DSACKDups") /\ J("ReordSeen") /\ J("RxOutOfOrder")
        /\ J("TxWindow") /\ J("RxWindow") /\ J("Rehash") /\ J("TotalRTO")
        /\ J("TotalRTORecoveries") /\ J("TotalRTOTime")
    BY Zenon, <2>1, <2>2
  <2> HIDE DEF J
  <2>4. \A n \in DOMAIN NullableSource : J(n)
    BY ZenonT(30), <2>3 DEF NullableSource
  <2> QED
    BY Zenon, <2>4 DEF I, B, J
<1>2. \A f \in DOMAIN NullableKey : \E n \in DOMAIN NullableSource : f = NullableSource[n]
  BY Zenon, NullableTables DEF SourceOf
<1>3. \A f \in NullableBits : \E n \in DOMAIN NullableSource : f = NullableSource[n]
  BY ZenonT(30) DEF NullableSource, NullableBits
<1> QED
  BY Zenon, <1>1, <1>2, <1>3

\* The numbers of RawTCPInfo are those the two tables have.
LEMMA LinuxNumbers ==
  LinuxFields \ Words = DOMAIN LinuxKey \cup DOMAIN NullableKey
<1>1. ASSUME NEW f \in LinuxFields \ Words
      PROVE  f \in DOMAIN LinuxKey \cup DOMAIN NullableKey
  BY ZenonT(60) DEF LinuxFields, Words, LinuxKey, NullableKey
<1>2. ASSUME NEW f \in DOMAIN LinuxKey PROVE f \in LinuxFields \ Words
  BY ZenonT(60) DEF LinuxFields, Words, LinuxKey
<1>3. ASSUME NEW f \in DOMAIN NullableKey PROVE f \in LinuxFields \ Words
  BY ZenonT(60) DEF LinuxFields, Words, NullableKey
<1> QED
  BY Zenon, <1>1, <1>2, <1>3

\* The tables miss no number, except those that are never published.
LEMMA TableComplete ==
  ASSUME platform \in {"linux", "darwin", "windows"}
  PROVE  DOMAIN KeyTable = Numbers \ Unpublished
<1>1. CASE platform = "linux"
  <2> DEFINE nullable == DOMAIN NullableKey \cup NullableBits
  <2>1. KeyTable = LinuxKeyOf(how) /\ RawFields(platform) = LinuxFields
    BY <1>1 DEF KeyTable, RawFields
  <2>2. Unpublished = nullable \ how
    BY Zenon, <1>1, NullableRange DEF Unpublished
  <2>3. DOMAIN KeyTable = DOMAIN LinuxKey \cup (DOMAIN NullableKey \cap how)
    BY Zenon, <2>1 DEF LinuxKeyOf
  <2>4. Numbers = DOMAIN LinuxKey \cup DOMAIN NullableKey
    BY Zenon, <2>1, LinuxNumbers DEF Numbers
  <2>5. \A f \in DOMAIN LinuxKey : f \notin nullable
    <3>1. \A f \in DOMAIN LinuxKey : f \notin NullableBits
      BY ZenonT(30) DEF LinuxKey, NullableBits
    <3> QED
      BY Zenon, <3>1, NullableFieldsApart
  <2>6. \A f \in DOMAIN NullableKey : f \in nullable
    BY Zenon
  <2> HIDE DEF nullable
  <2> QED
    BY Zenon, <2>2, <2>3, <2>4, <2>5, <2>6
<1>2. CASE platform = "darwin"
  <2>1. KeyTable = DarwinKey /\ RawFields(platform) = DarwinFields /\ Unpublished = {}
    BY <1>2 DEF KeyTable, RawFields, Unpublished
  <2> QED
    BY <2>1, ZenonT(30) DEF Numbers, Words, DarwinFields, DarwinKey
<1>3. CASE platform = "windows"
  <2> DEFINE later == IF how = 1 THEN {} ELSE V1Fields
  <2>1. KeyTable = WindowsKeyOf(how = 1) /\ RawFields(platform) = WindowsFields
    BY <1>3 DEF KeyTable, RawFields
  <2>2. Unpublished = {"TimestampsEnabled"} \cup later
    BY <1>3 DEF Unpublished
  <2>3. DOMAIN KeyTable = DOMAIN WindowsKey \ later
    BY Zenon, <2>1 DEF WindowsKeyOf
  <2>4. Numbers \ {"TimestampsEnabled"} = DOMAIN WindowsKey
    <3>1. WindowsFields = {"State", "TimestampsEnabled"} \cup DOMAIN WindowsKey
      <4>1. WindowsFields \subseteq {"State", "TimestampsEnabled"} \cup DOMAIN WindowsKey
        BY SMTT(20), ZenonT(40) DEF WindowsFields, WindowsKey
      <4>2. {"State", "TimestampsEnabled"} \cup DOMAIN WindowsKey \subseteq WindowsFields
        BY Zenon DEF WindowsFields, WindowsKey
      <4> QED
        BY Zenon, <4>1, <4>2
    <3>2. ASSUME NEW f \in DOMAIN WindowsKey
          PROVE  f \notin Words /\ f # "TimestampsEnabled"
      BY ZenonT(30) DEF WindowsKey, Words
    <3>3. "State" \in Words
      BY Zenon DEF Words
    <3> QED
      BY Zenon, <2>1, <3>1, <3>2, <3>3 DEF Numbers
  <2> HIDE DEF later
  <2> QED
    BY Zenon, <2>2, <2>3, <2>4
<1> QED
  BY Zenon, <1>1, <1>2, <1>3

\* So the maps of a struct and of the one with a number zeroed differ as their keys
\* say.
LEMMA SampleCarries ==
  ASSUME platform \in {"linux", "darwin", "windows"}, raw \in RawType, NEW f \in Numbers
  PROVE  LET raw0 == [raw EXCEPT ![f] = 0] IN
         Carries(KeyTable, ToMapOn(platform, Sys), ToMapOn(platform, UnpackOn(platform, raw0, how)),
                 raw, raw0)
<1> DEFINE raw0 == [raw EXCEPT ![f] = 0]
<1>1. \A g \in RawFields(platform) : g # f => raw0[g] = raw[g]
  BY Zenon DEF RawType
<1>2. f \notin Words
  BY Zenon DEF Numbers
<1>3. \A g \in RawFields(platform) \cap Words : raw0[g] = raw[g]
  BY Zenon, <1>1, <1>2
<1> HIDE DEF raw0
<1>4. CASE platform = "linux"
  <2>1. {"state", "options", "bitfield0", "bitfield1"} \subseteq RawFields(platform) \cap Words
    BY Zenon, <1>4 DEF RawFields, LinuxFields, Words
  <2>2. /\ raw0.state = raw.state /\ raw0.options = raw.options
        /\ raw0.bitfield0 = raw.bitfield0 /\ raw0.bitfield1 = raw.bitfield1
    BY Zenon, <1>3, <2>1
  <2>3. /\ KeyTable = LinuxKeyOf(how)
        /\ \A r : ToMapOn(platform, UnpackOn(platform, r, how)) = LinuxToMap(LinuxUnpack(r, how))
    BY <1>4 DEF KeyTable, ToMapOn, UnpackOn
  <2> QED
    BY Zenon, <2>2, <2>3, LinuxCarries DEF Sys, raw0
<1>5. CASE platform = "darwin"
  <2>1. {"State", "Options", "Flags", "SendWscale", "RecvWscale"}
          \subseteq RawFields(platform) \cap Words
    BY Zenon, <1>5 DEF RawFields, DarwinFields, Words
  <2>2. /\ raw0.State = raw.State /\ raw0.Options = raw.Options /\ raw0.Flags = raw.Flags
        /\ raw0.SendWscale = raw.SendWscale /\ raw0.RecvWscale = raw.RecvWscale
    BY Zenon, <1>3, <2>1
  <2>3. /\ KeyTable = DarwinKey
        /\ \A r : ToMapOn(platform, UnpackOn(platform, r, how)) = DarwinToMap(DarwinUnpack(r))
    BY <1>5 DEF KeyTable, ToMapOn, UnpackOn
  <2> QED
    BY Zenon, <2>2, <2>3, DarwinCarries DEF Sys, raw0
<1>6. CASE platform = "windows"
  <2> DEFINE U(r) == IF how = 1 THEN WindowsUnpackV1(r) ELSE WindowsUnpackV0(r)
  <2>1. "State" \in RawFields(platform) \cap Words
    BY Zenon, <1>6 DEF RawFields, WindowsFields, Words
  <2>2. raw0.State = raw.State
    BY Zenon, <1>3, <2>1
  <2>3. /\ KeyTable = WindowsKeyOf(how = 1)
        /\ \A r : ToMapOn(platform, UnpackOn(platform, r, how)) = WindowsToMap(U(r))
    BY <1>6 DEF KeyTable, ToMapOn, UnpackOn
  <2>4. ASSUME NEW r PROVE WindowsPublished(WindowsToMap(U(r)), r, how = 1)
    <3>1. CASE how = 1
      BY Zenon, <3>1, WindowsComposed
    <3>2. CASE how # 1
      BY Zenon, <3>2, WindowsComposed
    <3> QED
      BY Zenon, <3>1, <3>2
  <2> HIDE DEF U
  <2>5. Carries(WindowsKeyOf(how = 1), WindowsToMap(U(raw)), WindowsToMap(U(raw0)), raw, raw0)
    BY Zenon, <2>2, <2>4, WindowsCarries
  <2>6. /\ ToMapOn(platform, Sys) = WindowsToMap(U(raw))
        /\ ToMapOn(platform, UnpackOn(platform, raw0, how)) = WindowsToMap(U(raw0))
    BY Zenon, <2>3 DEF Sys
  <2>7. Carries(KeyTable, ToMapOn(platform, Sys), ToMapOn(platform, UnpackOn(platform, raw0, how)),
                raw, raw0)
    BY Zenon, <2>3, <2>5, <2>6
  <2> QED
    BY Zenon, <2>7 DEF raw0
<1> QED
  BY Zenon, <1>4, <1>5, <1>6

\* Every number of the kernel's struct that the version at hand has comes out of
\* Unpack and ToMap under exactly one key of its own, on each platform, and one that a
\* Linux kernel is too old for has none. Of the struct only the type is used.
THEOREM FieldsAlwaysApart == SampleSpec => []FieldsApart
<1>1. SampleInv => FieldsApart
  <2> SUFFICES ASSUME SampleInv, Returned PROVE FieldsApart
    BY Zenon DEF FieldsApart
  <2> DEFINE Raw0(f) == [raw EXCEPT ![f] = 0]
             M == ToMapOn(platform, Sys)
             M0(f) == ToMapOn(platform, UnpackOn(platform, Raw0(f), how))
             Keys(f) == {k \in DOMAIN M : M[k] # M0(f)[k]}
             T == KeyTable
             F == RawFields(platform)
  <2>1. platform \in {"linux", "darwin", "windows"} /\ raw \in RawType
    BY DEF SampleInv, Returned, Platforms
  <2>2. DOMAIN T = Numbers \ Unpublished
    BY Zenon, <2>1, TableComplete
  <2>3. Numbers \subseteq F /\ DOMAIN T \subseteq F
    BY Zenon, <2>2 DEF Numbers
  <2>4. ASSUME NEW f \in Hot \cap Numbers
        PROVE  /\ Keys(f) = IF f \in DOMAIN T THEN {T[f]} ELSE {}
               /\ f \in DOMAIN T => \A g \in DOMAIN T : g # f => T[g] # T[f]
    <3>1. Carries(T, M, M0(f), raw, Raw0(f))
      BY Zenon, <2>1, SampleCarries
    <3>2. f \in F /\ raw[f] # 0 /\ raw \in [F -> Nat]
      BY Zenon, <2>1 DEF Hot, RawType
    <3> HIDE DEF T, F, M, M0
    <3> QED
      BY Zenon, <2>3, <3>1, <3>2, KeyOfField
  <2> HIDE DEF T, Keys
  <2>5. ASSUME NEW f \in Hot \cap Numbers
        PROVE  Cardinality(Keys(f)) = IF f \in Unpublished THEN 0 ELSE 1
    <3>1. f \in DOMAIN T <=> f \notin Unpublished
      BY Zenon, <2>2
    <3>2. Cardinality({}) = 0 /\ Cardinality({T[f]}) = 1
      BY Zenon, FS_EmptySet, FS_Singleton
    <3> QED
      BY Zenon, <2>4, <3>1, <3>2
  <2>6. ASSUME NEW f \in Hot \cap Numbers, NEW g \in Hot \cap Numbers, f # g
        PROVE  Keys(f) \cap Keys(g) = {}
    <3>1. CASE f \in DOMAIN T /\ g \in DOMAIN T
      <4>1. Keys(f) = {T[f]} /\ Keys(g) = {T[g]} /\ T[g] # T[f]
        BY Zenon, <2>4, <2>6, <3>1
      <4> QED
        BY Zenon, <4>1
    <3>2. CASE ~(f \in DOMAIN T /\ g \in DOMAIN T)
      <4>1. Keys(f) = {} \/ Keys(g) = {}
        BY Zenon, <2>4, <3>2
      <4> QED
        BY Zenon, <4>1
    <3> QED
      BY Zenon, <3>1, <3>2
  <2> QED
    BY Zenon, <2>5, <2>6 DEF FieldsApart, Keys
<1> QED
  BY <1>1, SamplesSound, PTL
=============================================================================
