----------------------------- MODULE OsVersion ------------------------------
(***************************************************************************)
(* pkg/osversion: the builds of Windows and CheckHostAndContainerCompat,   *)
(* which says whether a host can run a container of another build.  The    *)
(* machine picks a host and a container, and moves either to another       *)
(* version.                                                                *)
(***************************************************************************)
EXTENDS Integers, Sequences

CONSTANTS Majors, Minors, Builds   \* the versions TLC tries

\* The fields of OSVersion that the check reads; it does no arithmetic, so their
\* widths do not matter.
OSVersion == [MajorVersion : Nat, MinorVersion : Nat, Build : Nat]

ASSUME VersionsAssumption ==
  Majors \subseteq Nat /\ Minors \subseteq Nat /\ Builds \subseteq Nat

RS5 == 17763
V22H2Win11 == 22621
V23H2 == 25398
LTSC2022 == 20348
LTSC2025 == 26100

\* Mutant: the list is not in ascending order.
DescendingReleases == <<LTSC2025, LTSC2022>>

compatLTSCReleases == <<LTSC2022, LTSC2025>>

\* The loop, which goes through the list from its end and stops at the first
\* release earlier than the host's.
Earlier(build) == {i \in DOMAIN compatLTSCReleases : build > compatLTSCReleases[i]}

supportedLTSCRelease(build) ==
  IF Earlier(build) = {} THEN LTSC2022
  ELSE compatLTSCReleases[CHOOSE i \in Earlier(build) : \A j \in Earlier(build) : j <= i]

CheckHostAndContainerCompat(host, ctr) ==
  /\ host.MajorVersion = ctr.MajorVersion /\ host.MinorVersion = ctr.MinorVersion
  /\ IF host.Build < LTSC2022 THEN host.Build = ctr.Build
     ELSE supportedLTSCRelease(host.Build) <= ctr.Build /\ ctr.Build <= host.Build

-----------------------------------------------------------------------------
VARIABLES host, ctr

vars == <<host, ctr>>

Versions == [MajorVersion : Majors, MinorVersion : Minors, Build : Builds]

Init == host \in Versions /\ ctr \in Versions

\* The host is upgraded, or the container is replaced by another.
Upgrade == host' \in {v \in Versions : v.Build > host.Build} /\ UNCHANGED ctr
Replace == ctr' \in Versions /\ UNCHANGED host

Next == Upgrade \/ Replace

Spec == Init /\ [][Next]_vars

-----------------------------------------------------------------------------
\* A host runs containers of its own build, never a newer one, and with a build
\* every one between that and its own: what it runs is one stretch of builds
\* that ends at the host.
RunsAStretch ==
  /\ CheckHostAndContainerCompat(host, host)
  /\ CheckHostAndContainerCompat(host, ctr) =>
       /\ ctr.Build <= host.Build
       /\ \A b \in ctr.Build..host.Build :
            CheckHostAndContainerCompat(host, [ctr EXCEPT !.Build = b])

\* "Every release after WS 2022 will support the previous ltsc container image":
\* a host later than LTSC2022 runs the latest of the LTSC releases before it, and
\* of those that only.
PreviousLTSC ==
  host.Build > LTSC2022 =>
    \E r \in {LTSC2022, LTSC2025} :
      /\ r < host.Build
      /\ \A q \in {LTSC2022, LTSC2025} :
           q < host.Build => (q <= r /\ (CheckHostAndContainerCompat(host, [host EXCEPT !.Build = q])
                                           <=> q = r))

\* Both are versions.
TypeOK == host \in OSVersion /\ ctr \in OSVersion

\* A container is lost by an upgrade of the host only if the host passes an LTSC
\* release that is later than the container, or leaves a build before LTSC2022.
UpgradeKeeps ==
  [][(/\ ctr' = ctr /\ CheckHostAndContainerCompat(host, ctr)
      /\ ~CheckHostAndContainerCompat(host', ctr)
      /\ host'.MajorVersion = host.MajorVersion /\ host'.MinorVersion = host.MinorVersion)
     => (host.Build < LTSC2022
          \/ \E r \in {LTSC2022, LTSC2025} : ctr.Build < r /\ r < host'.Build)]_vars
=============================================================================
