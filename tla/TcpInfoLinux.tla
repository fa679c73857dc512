---------------------------- MODULE TcpInfoLinux ----------------------------
(***************************************************************************)
(* pkg/tcpinfo on Linux: how the package adapts to the kernel version, how *)
(* much of struct tcp_info it asks for, and which fields of the result it  *)
(* marks Valid.  A nullable field is its name; of the values only matters  *)
(* whether the kernel wrote them.                                          *)
(***************************************************************************)
EXTENDS TcpInfoLinuxBase

CONSTANTS
  Hosts,       \* kernel versions the program may run on
  Overrides    \* versions a unit test may set linuxKernelVersion to

Version == [Kernel : Nat, Major : Nat, Minor : Nat]

ASSUME VersionsAssumption == Hosts \subseteq Version /\ Overrides \subseteq Version

V(k, ma, mi) == [Kernel |-> k, Major |-> ma, Minor |-> mi]

\* -1, 0 or 1; the flavor does not count.
CompareKernelVersion(a, b) ==
  IF a.Kernel < b.Kernel THEN -1 ELSE IF a.Kernel > b.Kernel THEN 1
  ELSE IF a.Major < b.Major THEN -1 ELSE IF a.Major > b.Major THEN 1
  ELSE IF a.Minor < b.Minor THEN -1 ELSE IF a.Minor > b.Minor THEN 1
  ELSE 0

AtLeast(v, w) == CompareKernelVersion(v, w) >= 0

\* The rows of tcpInfoSizes, oldest first: the version that gives the row its
\* flag, and the length to ask the kernel for.
tcpInfoSizes ==
  << [Version |-> V(2, 6, 2),  Size |-> 104], [Version |-> V(3, 15, 0), Size |-> 120],
     [Version |-> V(4, 1, 0),  Size |-> 136], [Version |-> V(4, 2, 0),  Size |-> 144],
     [Version |-> V(4, 6, 0),  Size |-> 160], [Version |-> V(4, 9, 0),  Size |-> 148],
     [Version |-> V(4, 10, 0), Size |-> 192], [Version |-> V(4, 18, 0), Size |-> 200],
     [Version |-> V(4, 19, 0), Size |-> 224], [Version |-> V(5, 4, 0),  Size |-> 232],
     [Version |-> V(5, 5, 0),  Size |-> 232], [Version |-> V(6, 2, 0),  Size |-> 240],
     [Version |-> V(6, 7, 0),  Size |-> 248] >>

\* Where each nullable field ends in RawTCPInfo.
End ==
  [delivery_rate_app_limited |-> 8, fastopen_client_fail |-> 8,
   pacing_rate |-> 112, max_pacing_rate |-> 120, bytes_acked |-> 128, bytes_received |-> 136,
   segs_out |-> 140, segs_in |-> 144, notsent_bytes |-> 148, min_rtt |-> 152,
   data_segs_in |-> 156, data_segs_out |-> 160, delivery_rate |-> 168, busy_time |-> 176,
   rwnd_limited |-> 184, sndbuf_limited |-> 192, delivered |-> 196, delivered_ce |-> 200,
   bytes_sent |-> 208, bytes_retrans |-> 216, dsack_dups |-> 220, reord_seen |-> 224,
   rcv_ooopack |-> 228, snd_wnd |-> 232, rcv_wnd |-> 236, rehash |-> 240,
   total_rto |-> 242, total_rto_recoveries |-> 244, total_rto_time |-> 248]

Fields == DOMAIN End

WithBlock == {"vegas", "bbr", "dctcp"}

Algorithms == WithBlock \cup {"cubic"}

VARIABLES
  host,                \* the running kernel
  linuxKernelVersion,  \* what the package takes it for
  flags,               \* kernelVersionIsAtLeast_*, by row
  sizeOfRawTCPInfo,
  result               \* what the last GetTCPInfo since then returned

vars == <<host, linuxKernelVersion, flags, sizeOfRawTCPInfo, result>>

\* Nothing returned: no info, hence no Valid field, no algorithm, no block.
NoInfo == [info |-> FALSE, valid |-> {}, alg |-> "", block |-> FALSE,
           written |-> {}, err |-> "none"]

-----------------------------------------------------------------------------
\* adaptToKernelVersion scans the rows from the newest, lowering flags, and at
\* the first one the version reaches raises that flag and all older ones.
Reached(v, i) == AtLeast(v, tcpInfoSizes[i].Version)

AdaptedFlags(v) == [i \in Rows |-> \E j \in Rows : j >= i /\ Reached(v, j)]

\* With no row reached the length keeps its earlier value.
AdaptedSize(v, old) ==
  IF \A i \in Rows : ~Reached(v, i) THEN old
  ELSE tcpInfoSizes[CHOOSE i \in Rows :
                      Reached(v, i) /\ \A j \in Rows : j > i => ~Reached(v, j)].Size

\* The package's init(): uname may fail, and then 2.6.2 is assumed.
Init ==
  /\ host \in Hosts
  /\ linuxKernelVersion \in {host, V(2, 6, 2)}
  /\ flags = AdaptedFlags(linuxKernelVersion)
  /\ sizeOfRawTCPInfo = AdaptedSize(linuxKernelVersion, 0)
  /\ result = NoInfo

\* Mutant: the scan never lowers a flag.
OverrideKeepsFlags(v) ==
  /\ linuxKernelVersion' = v
  /\ flags' = [i \in Rows |-> flags[i] \/ AdaptedFlags(v)[i]]
  /\ sizeOfRawTCPInfo' = AdaptedSize(v, sizeOfRawTCPInfo)
  /\ result' = NoInfo
  /\ UNCHANGED host

\* A unit test sets linuxKernelVersion and calls adaptToKernelVersion again.
Override(v) ==
  /\ linuxKernelVersion' = v
  /\ flags' = AdaptedFlags(v)
  /\ sizeOfRawTCPInfo' = AdaptedSize(v, sizeOfRawTCPInfo)
  /\ result' = NoInfo
  /\ UNCHANGED host

\* External: the fields kernel v has, and those of them getsockopt writes when
\* asked for length bytes.
Provided(v) == UNION {AddedIn[i] : i \in {j \in Rows : Reached(v, j)}}

Written(v, length) == {f \in Provided(v) : End[f] <= length}

\* GetRawTCPInfo, when it succeeds: the kernel is asked for sizeOfRawTCPInfo bytes.
GetRawTCPInfo == Written(host, sizeOfRawTCPInfo)

\* Unpack: what it marks Valid depends on the flags alone.
Unpack == UNION {Gated[i] : i \in {j \in Rows : flags[j]}}

\* GetRawTCPInfo succeeded; the fields of an algorithm's block are Valid when
\* the block was read.
Result(alg, block, err) ==
  [info |-> TRUE, valid |-> Unpack, alg |-> alg, block |-> block,
   written |-> GetRawTCPInfo, err |-> err]

\* GetTCPInfo: the kernel is too old; the raw call fails; the algorithm cannot
\* be read; its block cannot be read; all goes well.  In the third and fourth
\* case an info and an error are returned together.
GetTCPInfo ==
  /\ \/ ~flags[1] /\ result' = [NoInfo EXCEPT !.err = "ErrKernelTooOld"]
     \/ flags[1] /\ result' = [NoInfo EXCEPT !.err = "errno"]
     \/ flags[1] /\ result' = Result("", FALSE, "errno")
     \/ flags[1] /\ \E alg \in WithBlock : result' = Result(alg, FALSE, "errno")
     \/ flags[1] /\ \E alg \in Algorithms : result' = Result(alg, alg \in WithBlock, "nil")
  /\ UNCHANGED <<host, linuxKernelVersion, flags, sizeOfRawTCPInfo>>

Next == GetTCPInfo \/ \E v \in Overrides : Override(v)

Spec == Init /\ [][Next]_vars

-----------------------------------------------------------------------------
\* However often the version is overridden, upwards or downwards, each
\* kernelVersionIsAtLeast flag says what its name says of the version in force:
\* adaptToKernelVersion leaves no flag of an earlier version behind.
FlagsExact ==
  \A i \in Rows : flags[i] <=> AtLeast(linuxKernelVersion, tcpInfoSizes[i].Version)

\* ToMap publishes a nullable field under its key when it is Valid.
ToMap == result.valid

\* The versions on which Unpack marks more than GetRawTCPInfo asked for.
Between(v, lo, hi) == AtLeast(v, lo) /\ ~AtLeast(v, hi)

Gaps(v) ==
  Between(v, V(4, 9, 0), V(4, 10, 0)) \/ Between(v, V(6, 2, 0), V(6, 7, 0))

\* Whenever the kernel is at least as new as the package believes (uname
\* failed, or the version was lowered), and the version is not 4.9 or 6.2 to
\* 6.6, every field ToMap publishes was written by the kernel: table, flags
\* and requested length agree.
ValidWasWritten ==
  AtLeast(host, linuxKernelVersion) /\ ~Gaps(linuxKernelVersion)
    => ToMap \subseteq result.written

\* No field the kernel wrote, of those the believed version has, is withheld by
\* Unpack.
NothingWithheld ==
  result.info => result.written \cap Provided(linuxKernelVersion) \subseteq ToMap

\* Unpack never decodes a buffer shorter than the 104 bytes of the fields that
\* have no Valid mark: the length may be zero or stale after adaptToKernelVersion
\* found no row, but GetTCPInfo then refuses.
BaseIsWritten == result.info => sizeOfRawTCPInfo >= 104

\* README of pkg/tcpinfo, lines 43 to 48: Valid tells a metric that is truly
\* zero from one that is unavailable, so a Valid field was written by the kernel.
\* On the true version of the host.
ValidIsWritten == linuxKernelVersion = host => ToMap \subseteq result.written

=============================================================================
