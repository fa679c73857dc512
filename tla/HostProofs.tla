----------------------------- MODULE HostProofs -----------------------------
(***************************************************************************)
(* The properties of OsVersion for every host and every container, of      *)
(* WindowsVersion for any number of goroutines on every Windows, of        *)
(* OsRelease for whatever the distribution writes, and of Kernel for       *)
(* releases of any length.                                                 *)
(***************************************************************************)
EXTENDS Kernel, OsRelease, OsVersion, WindowsVersion, WellFoundedInduction, SequenceTheorems, TLAPS

\* The loop over compatLTSCReleases finds LTSC2025 for a later host and LTSC2022
\* for all others.
LEMMA SupportedRelease ==
  ASSUME NEW b \in Int
  PROVE  supportedLTSCRelease(b) = IF b > LTSC2025 THEN LTSC2025 ELSE LTSC2022
<1>1. DOMAIN compatLTSCReleases = {1, 2} /\ compatLTSCReleases[1] = 20348
      /\ compatLTSCReleases[2] = 26100
  BY DEF compatLTSCReleases, LTSC2022, LTSC2025
<1>2. CASE b > 26100
  <2>1. Earlier(b) = {1, 2}
    BY <1>1, <1>2 DEF Earlier
  <2>2. (CHOOSE i \in {1, 2} : \A j \in {1, 2} : j <= i) = 2
    OBVIOUS
  <2> QED
    BY <1>1, <1>2, <2>1, <2>2 DEF supportedLTSCRelease, LTSC2022, LTSC2025
<1>3. CASE b <= 26100 /\ b > 20348
  <2>1. Earlier(b) = {1}
    BY <1>1, <1>3 DEF Earlier
  <2>2. (CHOOSE i \in {1} : \A j \in {1} : j <= i) = 1
    OBVIOUS
  <2> QED
    BY <1>1, <1>3, <2>1, <2>2 DEF supportedLTSCRelease, LTSC2022, LTSC2025
<1>4. CASE b <= 20348
  <2>1. Earlier(b) = {}
    BY <1>1, <1>4 DEF Earlier
  <2> QED
    BY <1>4, <2>1 DEF supportedLTSCRelease, LTSC2022, LTSC2025
<1> QED
  BY <1>2, <1>3, <1>4

\* The check without its loop.
LEMMA CompatByCases ==
  ASSUME NEW h \in OSVersion, NEW c \in OSVersion
  PROVE  CheckHostAndContainerCompat(h, c) <=>
           /\ h.MajorVersion = c.MajorVersion /\ h.MinorVersion = c.MinorVersion
           /\ (h.Build < 20348 => h.Build = c.Build)
           /\ (h.Build >= 20348 => c.Build >= 20348)
           /\ (h.Build > 26100 => c.Build >= 26100)
           /\ c.Build <= h.Build
<1>1. h.Build \in Int /\ c.Build \in Int
  BY DEF OSVersion
<1>2. supportedLTSCRelease(h.Build) = IF h.Build > 26100 THEN 26100 ELSE 20348
  BY <1>1, SupportedRelease DEF LTSC2022, LTSC2025
<1> QED
  BY <1>1, <1>2 DEF CheckHostAndContainerCompat, LTSC2022

\* The machine only ever compares versions.
THEOREM TypeCorrect == Spec => []TypeOK
<1>1. Versions \subseteq OSVersion
  BY Zenon, VersionsAssumption DEF Versions, OSVersion
<1>2. Init => TypeOK
  BY <1>1 DEF Init, TypeOK
<1>3. TypeOK /\ [Next]_vars => TypeOK'
  BY <1>1 DEF TypeOK, Next, Upgrade, Replace, vars
<1> QED
  BY <1>2, <1>3, PTL DEF Spec

\* What a host of any version can run is a stretch of builds that ends at the
\* host's own.
THEOREM HostRunsAStretch == Spec => []RunsAStretch
<1>1. TypeOK => RunsAStretch
  <2> SUFFICES ASSUME TypeOK PROVE RunsAStretch
    OBVIOUS
  <2>1. host \in OSVersion /\ ctr \in OSVersion
    BY DEF TypeOK
  <2>2. CheckHostAndContainerCompat(host, host)
    BY <2>1, CompatByCases DEF OSVersion
  <2>3. ASSUME CheckHostAndContainerCompat(host, ctr), NEW b \in ctr.Build..host.Build
        PROVE  CheckHostAndContainerCompat(host, [ctr EXCEPT !.Build = b])
    <3> DEFINE c == [ctr EXCEPT !.Build = b]
    <3>1. b \in Nat /\ ctr.Build <= b /\ b <= host.Build
      BY <2>1, <2>3 DEF OSVersion
    <3>2. /\ c \in OSVersion /\ c.Build = b
          /\ c.MajorVersion = ctr.MajorVersion /\ c.MinorVersion = ctr.MinorVersion
      BY <2>1, <3>1 DEF OSVersion
    <3>3. host.Build \in Int /\ ctr.Build \in Int
      BY <2>1 DEF OSVersion
    <3>4. /\ host.MajorVersion = ctr.MajorVersion /\ host.MinorVersion = ctr.MinorVersion
          /\ (host.Build < 20348 => host.Build = ctr.Build)
          /\ (host.Build >= 20348 => ctr.Build >= 20348)
          /\ (host.Build > 26100 => ctr.Build >= 26100)
      BY <2>1, <2>3, CompatByCases
    <3> HIDE DEF c
    <3>5. CheckHostAndContainerCompat(host, c)
      BY <2>1, <3>1, <3>2, <3>3, <3>4, CompatByCases
    <3> QED
      BY <3>5 DEF c
  <2>4. CheckHostAndContainerCompat(host, ctr) => ctr.Build <= host.Build
    BY <2>1, CompatByCases
  <2> QED
    BY <2>2, <2>3, <2>4 DEF RunsAStretch
<1> QED
  BY <1>1, TypeCorrect, PTL

\* A host after LTSC2022 runs the latest LTSC release before it and no earlier one.
THEOREM HostRunsPreviousLTSC == Spec => []PreviousLTSC
<1>1. TypeOK => PreviousLTSC
  <2> SUFFICES ASSUME TypeOK, host.Build > LTSC2022
               PROVE  \E r \in {LTSC2022, LTSC2025} :
                        /\ r < host.Build
                        /\ \A q \in {LTSC2022, LTSC2025} : q < host.Build =>
                             (q <= r /\ (CheckHostAndContainerCompat(host, [host EXCEPT !.Build = q])
                                           <=> q = r))
    BY DEF PreviousLTSC
  <2>1. host \in OSVersion /\ host.Build \in Int
    BY DEF TypeOK, OSVersion
  <2>2. ASSUME NEW q \in {LTSC2022, LTSC2025}, q < host.Build
        PROVE  CheckHostAndContainerCompat(host, [host EXCEPT !.Build = q])
                 <=> (host.Build > 26100 => q >= 26100)
    <3> DEFINE c == [host EXCEPT !.Build = q]
    <3>1. /\ c \in OSVersion /\ c.Build = q
          /\ c.MajorVersion = host.MajorVersion /\ c.MinorVersion = host.MinorVersion
      BY <2>1 DEF OSVersion, LTSC2022, LTSC2025
    <3>2. q >= 20348 /\ q \in Int
      BY DEF LTSC2022, LTSC2025
    <3> HIDE DEF c
    <3>3. CheckHostAndContainerCompat(host, c) <=> (host.Build > 26100 => q >= 26100)
      BY <2>1, <2>2, <3>1, <3>2, CompatByCases DEF LTSC2022
    <3> QED
      BY <3>3 DEF c
  <2>3. CASE host.Build > 26100
    BY <2>1, <2>2, <2>3 DEF LTSC2022, LTSC2025
  <2>4. CASE host.Build <= 26100
    BY <2>1, <2>2, <2>4 DEF LTSC2022, LTSC2025
  <2> QED
    BY <2>1, <2>3, <2>4
<1> QED
  BY <1>1, TypeCorrect, PTL

\* No upgrade of a host loses a container unless it passes a later LTSC release.
THEOREM UpgradesKeep == Spec => UpgradeKeeps
<1> DEFINE Lost == /\ ctr' = ctr /\ CheckHostAndContainerCompat(host, ctr)
                   /\ ~CheckHostAndContainerCompat(host', ctr)
                   /\ host'.MajorVersion = host.MajorVersion
                   /\ host'.MinorVersion = host.MinorVersion
           Passed == host.Build < LTSC2022
                      \/ \E r \in {LTSC2022, LTSC2025} : ctr.Build < r /\ r < host'.Build
<1>1. TypeOK /\ TypeOK' /\ [Next]_vars => [Lost => Passed]_vars
  <2> SUFFICES ASSUME TypeOK, TypeOK', Next, Lost PROVE Passed
    OBVIOUS
  <2>1. host \in OSVersion /\ ctr \in OSVersion /\ host' \in OSVersion
    BY DEF TypeOK
  <2>2. host.Build \in Int /\ ctr.Build \in Int /\ host'.Build \in Int
    BY <2>1 DEF OSVersion
  <2>3. /\ host.MajorVersion = ctr.MajorVersion /\ host.MinorVersion = ctr.MinorVersion
        /\ (host.Build < 20348 => host.Build = ctr.Build)
        /\ (host.Build >= 20348 => ctr.Build >= 20348)
        /\ ctr.Build <= host.Build
    BY <2>1, CompatByCases
  <2>4. host'.Build > host.Build
    BY <2>2 DEF Next, Upgrade, Replace
  <2> QED
    BY <2>1, <2>2, <2>3, <2>4, CompatByCases DEF LTSC2022, LTSC2025
<1> QED
  BY <1>1, TypeCorrect, PTL DEF Spec, UpgradeKeeps

-----------------------------------------------------------------------------
\* osversion.Get: one goroutine at a time is inside the function of sync.Once, no
\* call of Do returns before the function has, and then the package variable holds
\* every field of the version.
OnceInv ==
  /\ windows \in Hosts
  /\ \A p \in Procs : pc[p] = "fill" => once = "running"
  /\ \A p, q \in Procs : pc[p] = "fill" /\ pc[q] = "fill" => p = q
  /\ \A p \in Procs : pc[p] \in {"return", "returned"} => once = "done"
  /\ once = "done" => osv = Stored(windows)
  /\ \A p \in Procs : pc[p] = "returned" => got[p] = Stored(windows)
  /\ DOMAIN pc = Procs /\ DOMAIN got = Procs

\* No step of Get changes that.
LEMMA OnceStep == ASSUME OnceInv, [WindowsNext]_windowsVars PROVE OnceInv'
<1>1. CASE UNCHANGED windowsVars
  BY <1>1 DEF OnceInv, windowsVars
<1>2. ASSUME NEW p \in Procs, Get(p) PROVE OnceInv'
  <2>0. windows' = windows
    BY Zenon, <1>2 DEF Get, Do, FillNext, FillEnd, Return, WindowsSame
  <2>1. CASE Do(p)
    BY <2>0, <2>1 DEF Do, OnceInv, Goto
  <2>2. CASE FillNext(p)
    <3>1. UNCHANGED <<once, pc, got>> /\ once = "running"
      BY <2>2 DEF FillNext, OnceInv
    <3> QED
      BY <2>0, <3>1 DEF OnceInv
  <2>3. CASE FillEnd(p)
    BY <2>0, <2>3 DEF FillEnd, OnceInv, Goto
  <2>4. CASE Return(p)
    BY <2>0, <2>4 DEF Return, OnceInv, Goto
  <2> QED
    BY <1>2, <2>1, <2>2, <2>3, <2>4 DEF Get
<1> QED
  BY <1>1, <1>2 DEF WindowsNext

\* Any number of goroutines may ask for the version at once: each gets all of it.
THEOREM GetIsWhole == WindowsSpec => []OnceInv
<1>1. WindowsInit => OnceInv
  BY DEF WindowsInit, OnceInv
<1> QED
  BY <1>1, OnceStep, PTL DEF WindowsSpec

\* A byte, or two, and what is above it.
LEMMA LowByte ==
  ASSUME NEW q \in Nat, NEW r \in Nat, r < 256
  PROVE  (q * 256 + r) % 256 = r /\ (q * 256 + r) \div 256 = q
OBVIOUS

\* A word beside the others of a packed number.
LEMMA LowWord ==
  ASSUME NEW q \in Nat, NEW r \in Nat, r < 65536
  PROVE  (q * 65536 + r) % 65536 = r /\ (q * 65536 + r) \div 65536 = q
OBVIOUS

\* The packed form loses nothing of a version that fits its fields.
LEMMA PackedFields ==
  ASSUME NEW h, h.major \in Nat, h.minor \in Nat, h.build \in Nat,
         h.major < 256, h.minor < 256, h.build < 65536
  PROVE  Fields(Packed(h)) = [major |-> h.major, minor |-> h.minor, build |-> h.build]
<1>1. PICK b \in Nat, mi \in Nat, ma \in Nat : b = h.build /\ mi = h.minor /\ ma = h.major
  OBVIOUS
<1>2. b % 65536 = b
  BY <1>1
<1>3. Packed(h) = b * 65536 + mi * 256 + ma
  BY <1>1, <1>2 DEF Packed
<1>4. PICK y \in Nat : y = b * 256 + mi
  OBVIOUS
<1>5. PICK l \in Nat : l = mi * 256 + ma /\ l < 65536
  BY <1>1
<1>6. Packed(h) = y * 256 + ma /\ Packed(h) = b * 65536 + l
  BY <1>3, <1>4, <1>5
<1>7. Packed(h) % 256 = ma /\ Packed(h) \div 256 = y
  <2>1. ma < 256
    BY <1>1
  <2>2. (y * 256 + ma) % 256 = ma /\ (y * 256 + ma) \div 256 = y
    BY <2>1, LowByte, SMT
  <2> QED
    BY <1>6, <2>2, SMT
<1>8. y % 256 = mi
  BY <1>1, <1>4, LowByte
<1>9. Packed(h) \div 65536 = b
  BY <1>5, <1>6, LowWord
<1> QED
  BY <1>1, <1>7, <1>8, <1>9 DEF Fields

\* uint32 keeps a number of 32 bits.
LEMMA DwordKept ==
  ASSUME NEW n \in Nat, n \div 65536 < 65536
  PROVE  Uint32(n) = n
<1>1. PICK q \in Nat : q = n \div 65536 /\ q < 65536
  OBVIOUS
<1>2. q % 65536 = q
  BY <1>1
<1>3. n = q * 65536 + (n % 65536)
  BY <1>1
<1> QED
  BY <1>1, <1>2, <1>3 DEF Uint32

\* On every Windows the three ways of asking for its version agree.
THEOREM NumbersAlwaysAgree == WindowsSpec => []NumbersAgree
<1>1. ASSUME OnceInv PROVE NumbersAgree
  <2> SUFFICES ASSUME NEW p \in Procs, pc[p] = "returned"
               PROVE  /\ (~WindowsKernelVersion.err /\ manifested) =>
                           WindowsKernelVersion.num = Fields(got[p].Version)
                      /\ WindowsKernelVersion.err =>
                           WindowsKernelVersion.num = [major |-> 0, minor |-> 0, build |-> 0]
                      /\ Fields(got[p].Version) =
                           [major |-> got[p].MajorVersion, minor |-> got[p].MinorVersion,
                            build |-> got[p].Build]
                      /\ OperatingSystem.Build = got[p].Build
                      /\ ~BuildRevision.err => OperatingSystem.UBR = BuildRevision.val
    BY DEF NumbersAgree
  <2>1. /\ windows.major \in Nat /\ windows.minor \in Nat /\ windows.build \in Nat
        /\ windows.major < 256 /\ windows.minor < 256 /\ windows.build < 65536
    BY <1>1, HostsAssumption DEF OnceInv
  <2>2. got[p] = Stored(windows)
    BY <1>1 DEF OnceInv
  <2>3. /\ got[p].Version = Packed(windows) /\ got[p].MajorVersion = windows.major
        /\ got[p].MinorVersion = windows.minor /\ got[p].Build = windows.build
    BY <2>1, <2>2 DEF Stored
  <2>4. Fields(got[p].Version) =
          [major |-> windows.major, minor |-> windows.minor, build |-> windows.build]
    BY <2>1, <2>3, PackedFields
  <2>5. Fields(0) = [major |-> 0, minor |-> 0, build |-> 0]
    BY DEF Fields
  <2>6. OperatingSystem.Build = windows.build
    BY DEF OperatingSystem
  <2>7. ~BuildRevision.err => OperatingSystem.UBR = BuildRevision.val
    <3>1. Uint32(windows.revision) = windows.revision
      BY <1>1, HostsAssumption, DwordKept DEF OnceInv
    <3> QED
      BY <3>1 DEF BuildRevision, OperatingSystem
  <2>8. /\ (~WindowsKernelVersion.err /\ manifested) =>
             WindowsKernelVersion.num = Fields(Packed(windows))
        /\ WindowsKernelVersion.err => WindowsKernelVersion.num = Fields(0)
    <3> DEFINE labelled == reg.open /\ reg.BuildLabEx = "value"
               ok == labelled /\ ~reg.GetVersionFails
    <3>1. /\ WindowsKernelVersion.err = ~ok
          /\ WindowsKernelVersion.num = Fields(IF ok THEN GetVersion ELSE 0)
      BY DEF WindowsKernelVersion
    <3>2. manifested => GetVersion = Packed(windows)
      BY DEF GetVersion
    <3> HIDE DEF ok
    <3> QED
      BY Zenon, <3>1, <3>2
  <2> QED
    BY <2>3, <2>4, <2>5, <2>6, <2>7, <2>8
<1> QED
  BY <1>1, GetIsWhole, PTL

-----------------------------------------------------------------------------
\* A set of natural numbers has a least member.
LEMMA LeastNat ==
  ASSUME NEW T \in SUBSET Nat, T # {}
  PROVE  \E x \in T : \A y \in T : x <= y
<1> DEFINE R == {ss \in Nat \X Nat : ss[1] < ss[2]}
<1>1. IsWellFoundedOn(R, Nat)
  BY NatLessThanWellFounded DEF OpToRel
<1>2. \A x, y \in Nat : <<x, y>> \in R <=> x < y
  OBVIOUS
<1> HIDE DEF R
<1>3. PICK x \in T : \A y \in T : ~(<<y, x>> \in R)
  BY Zenon, <1>1, WFMin
<1>4. ASSUME NEW y \in T PROVE x <= y
  <2>1. x \in Nat /\ y \in Nat
    OBVIOUS
  <2>2. ~(y < x)
    BY Zenon, <1>2, <1>3, <2>1
  <2> QED
    BY <2>1, <2>2
<1> QED
  BY <1>4

\* Min is the least member, and of a set with an upper bound Max is the greatest.
LEMMA MinMax ==
  ASSUME NEW n \in Nat, NEW S \in SUBSET (0..n), S # {}
  PROVE  /\ Min(S) \in S /\ \A y \in S : Min(S) <= y
         /\ Max(S) \in S /\ \A y \in S : y <= Max(S)
<1>1. \A x \in S : x \in Nat /\ x <= n
  OBVIOUS
<1>2. \E x \in S : \A y \in S : x <= y
  BY <1>1, LeastNat
<1> DEFINE T == {n - x : x \in S}
<1>3. T \in SUBSET Nat /\ T # {}
  <2>1. \A x \in S : n - x \in Nat
    BY <1>1
  <2> QED
    BY <2>1, Zenon
<1>4. PICK t \in T : \A y \in T : t <= y
  BY Zenon, <1>3, LeastNat
<1>5. PICK m \in S : t = n - m
  OBVIOUS
<1>6. ASSUME NEW y \in S PROVE m >= y
  <2>1. n - m <= n - y
    BY <1>4, <1>5
  <2> QED
    BY <1>1, <2>1
<1>7. Min(S) \in S /\ \A y \in S : Min(S) <= y
  BY Zenon, <1>2 DEF Min
<1>8. Max(S) \in S /\ \A y \in S : Max(S) >= y
  BY Zenon, <1>6 DEF Max
<1> QED
  BY <1>1, <1>7, <1>8

\* What the last of the lines that assign the key says.
LastValue(lines, key) ==
  LET at == {i \in DOMAIN lines : lines[i].key = key}
  IN IF at = {} THEN <<>> ELSE Trim(lines[Max(at)].body)

\* The loop of getValueFromOsRelease, for any number of lines: the fold has the
\* value of the last assignment.  By induction on the greatest line looked at.
LEMMA AssignedLast ==
  ASSUME NEW lines \in Seq(Lines), NEW key
  PROVE  Assigned(lines, key) = LastValue(lines, key)
<1> DEFINE D == DOMAIN lines
           At(s) == {i \in s : lines[i].key = key}
           G(s) == IF At(s) = {} THEN <<>> ELSE Trim(lines[Max(At(s))].body)
           Body(f, s) == IF s = {} THEN <<>>
                         ELSE IF lines[Max(s)].key = key THEN Trim(lines[Max(s)].body)
                         ELSE f[s \ {Max(s)}]
<1>1. PICK n \in Nat : D \subseteq 0..n
  <2>1. Len(lines) \in Nat /\ D \subseteq 0..Len(lines)
    OBVIOUS
  <2> QED
    BY <2>1
<1>2. ASSUME NEW s \in SUBSET D, s # {}
      PROVE  /\ Max(s) \in s /\ Max(s) \in Nat /\ \A y \in s : y \in Nat /\ y <= Max(s)
  <2>1. s \in SUBSET (0..n)
    BY <1>1
  <2>2. Max(s) \in s /\ \A y \in s : y <= Max(s)
    BY Zenon, <1>2, <2>1, MinMax
  <2> QED
    BY <2>1, <2>2
<1>3. ASSUME NEW s \in SUBSET D, s # {}, lines[Max(s)].key = key
      PROVE  At(s) # {} /\ Max(At(s)) = Max(s)
  <2>1. Max(s) \in At(s) /\ At(s) \in SUBSET D /\ At(s) \subseteq s
    BY <1>2, <1>3
  <2>2. Max(At(s)) \in At(s) /\ Max(s) <= Max(At(s)) /\ Max(At(s)) \in Nat
    BY <1>2, <2>1, SMTT(20)
  <2>3. Max(At(s)) <= Max(s) /\ Max(s) \in Nat
    BY <1>2, <1>3, <2>1, <2>2
  <2> QED
    BY <2>1, <2>2, <2>3
<1>4. ASSUME NEW s \in SUBSET D, s # {}, lines[Max(s)].key # key
      PROVE  At(s \ {Max(s)}) = At(s) /\ G(s \ {Max(s)}) = G(s)
  <2>1. At(s \ {Max(s)}) = At(s)
    BY <1>4
  <2> QED
    BY Zenon, <2>1
<1>5. ASSUME NEW s \in SUBSET D, s # {}
      PROVE  G(s) = IF lines[Max(s)].key = key THEN Trim(lines[Max(s)].body) ELSE G(s \ {Max(s)})
  BY Zenon, <1>3, <1>4, <1>5
<1>6. G({}) = <<>>
  OBVIOUS
<1> HIDE DEF G
<1>7. \E f : f = [s \in SUBSET D |-> Body(f, s)]
  <2>1. PICK f : f = [s \in SUBSET D |-> G(s)]
    BY Zenon
  <2>2. ASSUME NEW s \in SUBSET D PROVE Body(f, s) = G(s)
    <3>1. CASE s = {}
      BY <1>6, <3>1
    <3>2. CASE s # {}
      <4>1. f[s \ {Max(s)}] = G(s \ {Max(s)})
        BY <2>1
      <4> QED
        BY <1>5, <3>2, <4>1
    <3> QED
      BY <3>1, <3>2
  <2>3. f = [s \in SUBSET D |-> Body(f, s)]
    BY Zenon, <2>1, <2>2
  <2> QED
    BY Zenon, <2>3
<1>8. ASSUME NEW f, f = [s \in SUBSET D |-> Body(f, s)], NEW b \in SUBSET D, f[b] # G(b)
      PROVE  FALSE
  <2> DEFINE Bad == {s \in SUBSET D : f[s] # G(s)}
             T == {Max(s) : s \in Bad}
  <2>1. ASSUME NEW s \in SUBSET D PROVE f[s] = Body(f, s)
    BY Zenon, <1>8
  <2>2. ASSUME NEW s \in Bad PROVE s # {} /\ s \in SUBSET D
    BY Zenon, <1>6, <2>1
  <2>3. T \in SUBSET Nat /\ T # {}
    <3>1. \A s \in Bad : Max(s) \in Nat
      BY <1>2, <2>2
    <3>2. b \in Bad
      BY <1>8
    <3> QED
      BY <3>1, <3>2, Zenon
  <2>4. PICK t \in T : \A y \in T : t <= y
    BY Zenon, <2>3, LeastNat
  <2>5. PICK s \in Bad : t = Max(s)
    OBVIOUS
  <2>6. PICK r \in SUBSET D : r = s \ {Max(s)}
    BY Zenon, <2>2
  <2>7. f[r] = G(r)
    <3> SUFFICES ASSUME r \in Bad PROVE FALSE
      OBVIOUS
    <3>1. Max(r) \in r /\ Max(s) <= Max(r) /\ Max(r) \in Nat
      BY <1>2, <2>2, <2>4, <2>5
    <3>2. Max(r) \in s /\ Max(r) # Max(s) /\ Max(r) <= Max(s) /\ Max(s) \in Nat
      BY <1>2, <2>2, <2>6, <3>1
    <3> QED
      BY <3>1, <3>2
  <2>8. f[s] = Body(f, s) /\ s # {} /\ f[s] # G(s)
    BY Zenon, <2>1, <2>2
  <2> QED
    BY Zenon, <1>5, <2>2, <2>6, <2>7, <2>8
<1>9. PICK f : f = (CHOOSE g : g = [s \in SUBSET D |-> Body(g, s)])
  BY Zenon
<1>10. f = [s \in SUBSET D |-> Body(f, s)]
  BY Zenon, <1>7, <1>9
<1>11. f[D] = G(D)
  BY Zenon, <1>8, <1>10
<1>12. Assigned(lines, key) = f[D]
  BY <1>9 DEF Assigned, MapThenFoldSet
<1>13. G(D) = LastValue(lines, key)
  BY DEF G, LastValue
<1> QED
  BY <1>11, <1>12, <1>13

\* The value v is the text body less m characters in front and n behind, all of them
\* quotes and blanks.
Cut(body, v, m, n) ==
  /\ m + Len(v) + n = Len(body)
  /\ body = SubSeq(body, 1, m) \o v \o SubSeq(body, Len(body) - n + 1, Len(body))
  /\ AllTrimmed(SubSeq(body, 1, m))
  /\ AllTrimmed(SubSeq(body, Len(body) - n + 1, Len(body)))

\* A stretch of trimmed characters.
LEMMA StretchTrimmed ==
  ASSUME NEW body \in Seq(STRING), NEW a \in Nat, NEW b \in Nat, a >= 1, b <= Len(body),
         \A i \in a..b : body[i] \in Trimmed
  PROVE  AllTrimmed(SubSeq(body, a, b))
<1>1. \A i \in a..b : body[i] \in STRING
  OBVIOUS
<1>2. /\ SubSeq(body, a, b) \in Seq(STRING)
      /\ Len(SubSeq(body, a, b)) = IF a <= b THEN b - a + 1 ELSE 0
      /\ \A i \in 1..b - a + 1 : SubSeq(body, a, b)[i] = body[a + i - 1]
  BY <1>1, SubSeqProperties
<1>3. ASSUME NEW i \in DOMAIN SubSeq(body, a, b) PROVE SubSeq(body, a, b)[i] \in Trimmed
  <2>1. i \in 1..b - a + 1 /\ a + i - 1 \in a..b
    BY <1>2
  <2> QED
    BY <1>2, <2>1
<1> QED
  BY <1>3 DEF AllTrimmed

\* strings.Trim takes quotes and blanks off both ends, all of them and nothing else.
LEMMA TrimCuts ==
  ASSUME NEW body \in Seq(STRING)
  PROVE  /\ \E m, n \in 0..Len(body) : Cut(body, Trim(body), m, n)
         /\ Trim(body) # <<>> => Head(Trim(body)) \notin Trimmed /\ Trim(body)[Len(Trim(body))] \notin Trimmed
         /\ Trim(body) = <<>> <=> AllTrimmed(body)
<1> DEFINE keep == {i \in DOMAIN body : body[i] \notin Trimmed}
<1>1. PICK n \in Nat : n = Len(body)
  OBVIOUS
<1>2. DOMAIN body = 1..n
  BY <1>1
<1>3. CASE keep = {}
  <2>1. Trim(body) = <<>>
    BY <1>3 DEF Trim
  <2>2. \A i \in 1..n : body[i] \in Trimmed
    BY <1>2, <1>3
  <2>3. AllTrimmed(SubSeq(body, 1, n)) /\ AllTrimmed(SubSeq(body, n + 1, n))
    BY <1>1, <2>2, StretchTrimmed
  <2>4. SubSeq(body, 1, n) = body /\ SubSeq(body, n + 1, n) = <<>>
    BY <1>1, SubSeqFull, SubSeqEmpty
  <2>5. body \o <<>> = body
    OBVIOUS
  <2>6. n + Len(<<>>) + 0 = n
    OBVIOUS
  <2>7. n - 0 + 1 = n + 1
    OBVIOUS
  <2>8. Cut(body, <<>>, n, 0)
    BY <1>1, <2>3, <2>4, <2>5, <2>6, <2>7 DEF Cut
  <2>9. AllTrimmed(body)
    BY <1>2, <2>2 DEF AllTrimmed
  <2> QED
    BY <1>1, <2>1, <2>8, <2>9
<1>4. CASE keep # {}
  <2>1. keep \in SUBSET (0..n)
    BY <1>2
  <2>2. PICK a, b : a = Min(keep) /\ b = Max(keep)
    BY Zenon
  <2>3. /\ a \in keep /\ b \in keep /\ \A y \in keep : a <= y /\ y <= b
    BY Zenon, <1>4, <2>1, <2>2, MinMax
  <2>4. /\ a \in 1..n /\ b \in 1..n /\ a <= b /\ body[a] \notin Trimmed /\ body[b] \notin Trimmed
    BY <1>2, <2>3
  <2>5. \A i \in 1..a - 1 : body[i] \in Trimmed
    BY <1>2, <2>3, <2>4
  <2>6. \A i \in b + 1..n : body[i] \in Trimmed
    BY <1>2, <2>3, <2>4
  <2>7. PICK v : v = SubSeq(body, a, b)
    BY Zenon
  <2>8. Trim(body) = v
    BY Zenon, <1>4, <2>2, <2>7 DEF Trim
  <2>9. /\ v \in Seq(STRING) /\ Len(v) = b - a + 1
        /\ \A i \in 1..b - a + 1 : v[i] = body[a + i - 1]
    <3>1. \A i \in a..b : body[i] \in STRING
      BY <1>1, <2>4
    <3> QED
      BY <2>4, <2>7, <3>1, SubSeqProperties
  <2>10. v[1] = body[a] /\ v[Len(v)] = body[b] /\ v # <<>>
    BY <2>4, <2>9
  <2>11. Head(v) \notin Trimmed /\ v[Len(v)] \notin Trimmed
    BY <2>4, <2>9, <2>10
  <2>12. AllTrimmed(SubSeq(body, 1, a - 1)) /\ AllTrimmed(SubSeq(body, b + 1, n))
    BY <1>1, <2>4, <2>5, <2>6, StretchTrimmed, SMTT(20)
  <2>13. body = SubSeq(body, 1, a - 1) \o v \o SubSeq(body, b + 1, n)
    <3>1. SubSeq(body, 1, a - 1) \o SubSeq(body, a, b) = SubSeq(body, 1, b)
      BY <1>1, <2>4, ConcatAdjacentSubSeq
    <3>2. SubSeq(body, 1, b) \o SubSeq(body, b + 1, n) = SubSeq(body, 1, n)
      BY <1>1, <2>4, ConcatAdjacentSubSeq
    <3>3. SubSeq(body, 1, n) = body
      BY <1>1, SubSeqFull
    <3> QED
      BY Zenon, <2>7, <3>1, <3>2, <3>3
  <2>14. a - 1 + Len(v) + (n - b) = n /\ n - (n - b) + 1 = b + 1 /\ a - 1 \in 0..n /\ n - b \in 0..n
    BY <2>4, <2>9
  <2>15. Cut(body, v, a - 1, n - b)
    BY Zenon, <1>1, <2>12, <2>13, <2>14 DEF Cut
  <2>16. ~AllTrimmed(body)
    BY <1>2, <2>4 DEF AllTrimmed
  <2> QED
    BY <1>1, <2>8, <2>10, <2>11, <2>14, <2>15, <2>16
<1> QED
  BY <1>3, <1>4

\* A file is one of the kinds File describes.
IsFile(f) ==
  /\ f.open \in {"ok", "absent", "denied"}
  /\ f.lines \in Seq(Lines)
  /\ f.stop \in 1..Len(f.lines) + 1

FilesInv == IsFile(etc) /\ IsFile(alt)

\* The files stay what they are, whatever the distribution's tools write.
LEMMA FilesSound == ReleaseSpec => []FilesInv
<1>1. \A open \in {"ok", "absent", "denied"} : \A lines \in Seq(Lines) : \A stop \in 1..Len(lines) + 1 :
        IsFile(File(open, lines, stop))
  BY DEF IsFile, File
<1>2. IsFile(Absent) /\ IsFile(Denied)
  <2>1. <<>> \in Seq(Lines) /\ Len(<<>>) = 0
    BY EmptySeq
  <2>2. 1 \in 1..Len(<<>>) + 1
    BY <2>1
  <2> QED
    BY <1>1, <2>1, <2>2, Zenon DEF Absent, Denied
<1>3. ReleaseInit => FilesInv
  BY <1>2 DEF ReleaseInit, FilesInv
<1>4. ASSUME FilesInv, [ReleaseNext]_releaseVars PROVE FilesInv'
  <2>1. CASE RewriteEtc
    <3>1. ASSUME NEW b \in Bodies, NEW stop \in 1..Len(b) + 1 PROVE IsFile(File("ok", b, stop))
      <4>1. b \in Seq(Lines)
        BY DEF Bodies
      <4> QED
        BY <1>1, <4>1
    <3>2. etc' \in {Absent, Denied} \/ \E b \in Bodies : \E stop \in 1..Len(b) + 1 : etc' = File("ok", b, stop)
      BY <2>1 DEF RewriteEtc
    <3>3. IsFile(etc')
      BY <1>2, <3>1, <3>2
    <3>4. IsFile(alt')
      BY <1>4, <2>1 DEF RewriteEtc, FilesInv
    <3> QED
      BY <3>3, <3>4 DEF FilesInv, IsFile
  <2>2. CASE RewriteAlt
    <3>1. ASSUME NEW l \in Lines PROVE IsFile(File("ok", <<l>>, 2))
      <4>1. <<l>> \in Seq(Lines) /\ Len(<<l>>) = 1
        OBVIOUS
      <4>2. 2 \in 1..Len(<<l>>) + 1
        BY <4>1
      <4> QED
        BY <1>1, <4>1, <4>2, Zenon
    <3>2. alt' \in {Absent, Denied} \/ \E l \in Lines : alt' = File("ok", <<l>>, 2)
      BY <2>2 DEF RewriteAlt
    <3>3. IsFile(alt')
      BY Zenon, <1>2, <3>1, <3>2
    <3>4. IsFile(etc')
      BY <1>4, <2>2 DEF RewriteAlt, FilesInv
    <3> QED
      BY <3>3, <3>4 DEF FilesInv, IsFile
  <2>3. CASE UNCHANGED releaseVars
    BY <1>4, <2>3 DEF releaseVars, FilesInv, IsFile
  <2> QED
    BY <1>4, <2>1, <2>2, <2>3 DEF ReleaseNext
<1> QED
  BY <1>3, <1>4, PTL DEF ReleaseSpec

\* ValueAsWritten, of one key, the file that is read and the answer.
AsWritten(key, file, r) ==
  LET at == {i \in DOMAIN Scanned(file) : file.lines[i].key = key}
      body == file.lines[Max(at)].body
  IN r.err = "" =>
       IF at = {} THEN r.val = Default(key)
       ELSE IF AllTrimmed(body) THEN r.val = Default(key)
       ELSE /\ \E m, n \in 0..Len(body) : Cut(body, r.val, m, n)
            /\ Head(r.val) \notin Trimmed /\ r.val[Len(r.val)] \notin Trimmed

\* The answer is the value of the key, or the default if that is empty.
LEMMA AnswerIsValue ==
  ASSUME NEW key \in {"PRETTY_NAME", "VERSION_ID"}, Answer(key).err = ""
  PROVE  LET v == getValueFromOsRelease(key) IN
         v.err = "" /\ Answer(key).val = IF v.val = <<>> THEN Default(key) ELSE v.val
<1> DEFINE v == getValueFromOsRelease(key)
<1>1. CASE key = "PRETTY_NAME"
  <2>1. /\ Answer(key) = IF v.err = "" /\ v.val = <<>> THEN Result(<<"Linux">>, "") ELSE v
        /\ Default(key) = <<"Linux">>
    BY Zenon, <1>1 DEF Answer, GetOperatingSystem, Default
  <2>2. Result(<<"Linux">>, "").val = <<"Linux">>
    BY DEF Result
  <2> HIDE DEF v
  <2>3. v.err = "" /\ Answer(key).val = IF v.val = <<>> THEN Default(key) ELSE v.val
    BY Zenon, <2>1, <2>2
  <2> QED
    BY Zenon, <2>3 DEF v
<1>2. CASE key = "VERSION_ID"
  <2>1. Answer(key) = v /\ Default(key) = <<>>
    BY Zenon, <1>2 DEF Answer, GetOperatingSystemVersion, Default
  <2> HIDE DEF v
  <2>2. v.err = "" /\ Answer(key).val = IF v.val = <<>> THEN Default(key) ELSE v.val
    BY Zenon, <2>1
  <2> QED
    BY Zenon, <2>2 DEF v
<1> QED
  BY Zenon, <1>1, <1>2

\* The name and the version that are answered are the last assignment of the file
\* that is read, less the quotes and blanks around it, or the default: for any lines,
\* and any number of them.
THEOREM ValuesAsWritten == ReleaseSpec => []ValueAsWritten
<1>1. ASSUME FilesInv PROVE ValueAsWritten
  <2>1. PICK file : file = IF etc.open = "absent" THEN alt ELSE etc
    OBVIOUS
  <2>2. SUFFICES ASSUME NEW key \in {"PRETTY_NAME", "VERSION_ID"}
                 PROVE  AsWritten(key, IF etc.open = "absent" THEN alt ELSE etc, Answer(key))
    BY Zenon DEF ValueAsWritten, AsWritten, Cut
  <2>3. PICK r : r = getValueFromOsRelease(key)
    OBVIOUS
  <2>4. PICK at : at = {i \in DOMAIN Scanned(file) : file.lines[i].key = key}
    BY Zenon
  <2> DEFINE val == Answer(key).val
             text == file.lines[Max(at)].body
  <2>5. SUFFICES ASSUME r.err = "", val = IF r.val = <<>> THEN Default(key) ELSE r.val
                 PROVE  IF at = {} THEN val = Default(key)
                        ELSE IF AllTrimmed(text) THEN val = Default(key)
                        ELSE /\ \E m, n \in 0..Len(text) : Cut(text, val, m, n)
                             /\ Head(val) \notin Trimmed /\ val[Len(val)] \notin Trimmed
    <3>1. ASSUME Answer(key).err = ""
          PROVE  r.err = "" /\ val = IF r.val = <<>> THEN Default(key) ELSE r.val
      BY Zenon, <2>3, <3>1, AnswerIsValue
    <3> QED
      BY Zenon, <2>1, <2>4, <3>1 DEF AsWritten
  <2> HIDE DEF val
  <2>6. /\ file.open \in {"ok", "absent", "denied"}
        /\ file.lines \in Seq(Lines)
        /\ file.stop \in 1..Len(file.lines) + 1
    BY <1>1, <2>1 DEF FilesInv, IsFile
  <2>7. r.val = Assigned(Scanned(file), key)
    <3>1. file.open # ""
      BY Zenon, <2>6
    <3>2. r = IF file.open # "ok" THEN Result(<<>>, file.open)
              ELSE Result(Assigned(Scanned(file), key), "")
      BY Zenon, <2>1, <2>3 DEF getValueFromOsRelease
    <3>3. file.open = "ok"
      <4>1. Result(<<>>, file.open).err = file.open
        BY DEF Result
      <4> QED
        BY Zenon, <2>5, <3>1, <3>2, <4>1
    <3>4. r = Result(Assigned(Scanned(file), key), "")
      BY Zenon, <3>2, <3>3
    <3> QED
      BY Zenon, <3>4 DEF Result
  <2>8. PICK lines : lines = Scanned(file)
    OBVIOUS
  <2>9. PICK k \in Nat : k = file.stop - 1 /\ k <= Len(file.lines)
    BY <2>6
  <2>10. /\ lines \in Seq(Lines) /\ Len(lines) = k
         /\ \A i \in 1..k : lines[i] = file.lines[i]
    <3>1. \A i \in 1..k : file.lines[i] \in Lines
      BY <2>6, <2>9
    <3>2. lines = SubSeq(file.lines, 1, k)
      BY <2>8, <2>9 DEF Scanned
    <3>3. /\ lines \in Seq(Lines) /\ Len(lines) = IF 1 <= k THEN k - 1 + 1 ELSE 0
          /\ \A i \in 1..k - 1 + 1 : lines[i] = file.lines[1 + i - 1]
      BY <2>6, <2>9, <3>1, <3>2, SubSeqProperties
    <3> QED
      BY <2>9, <3>3
  <2>11. DOMAIN lines = 1..k
    BY <2>10
  <2>12. at = {i \in DOMAIN lines : lines[i].key = key}
    BY <2>4, <2>8, <2>10, <2>11
  <2>13. r.val = IF at = {} THEN <<>> ELSE Trim(lines[Max(at)].body)
    BY Zenon, <2>7, <2>8, <2>10, <2>12, AssignedLast DEF LastValue
  <2>14. CASE at = {}
    BY Zenon, <2>5, <2>13, <2>14
  <2>15. CASE at # {}
    <3>1. at \in SUBSET (0..k)
      BY <2>11, <2>12
    <3>2. PICK last : last = Max(at)
      OBVIOUS
    <3>3. last \in 1..k
      BY Zenon, <2>9, <2>11, <2>12, <2>15, <3>1, <3>2, MinMax
    <3>4. PICK body : body = file.lines[last].body
      OBVIOUS
    <3>5. lines[last] = file.lines[last] /\ lines[last] \in Lines
      BY <2>10, <2>11, <3>3
    <3>6. body \in Seq(STRING)
      BY <3>4, <3>5, LinesAssumption
    <3>7. r.val = Trim(body)
      BY <2>13, <2>15, <3>2, <3>4, <3>5
    <3>8. text = body
      BY Zenon, <3>2, <3>4
    <3>9. /\ \E m, n \in 0..Len(body) : Cut(body, r.val, m, n)
          /\ r.val # <<>> => Head(r.val) \notin Trimmed /\ r.val[Len(r.val)] \notin Trimmed
          /\ r.val = <<>> <=> AllTrimmed(body)
      BY Zenon, <3>6, <3>7, TrimCuts
    <3> HIDE DEF text
    <3> QED
      BY Zenon, <2>5, <2>15, <3>8, <3>9
  <2> QED
    BY Zenon, <2>14, <2>15
<1> QED
  BY <1>1, FilesSound, PTL

-----------------------------------------------------------------------------
\* The digits of s from i on end before e.
Run(s, i, e) ==
  /\ e \in i..Len(s) + 1
  /\ \A k \in i..e - 1 : s[k] \in Digits
  /\ e <= Len(s) => s[e] \notin Digits

\* A number stands in s from i on and ends before e.
Number(s, i, e) ==
  LET start == IF s[i] = "-" THEN i + 1 ELSE i
  IN i <= Len(s) /\ start < e /\ Run(s, start, e)

\* DigitsEnd is where the digits end.
LEMMA DigitsEndRun ==
  ASSUME NEW s \in Seq(Chars), NEW i \in 1..Len(s)
  PROVE  Run(s, i, DigitsEnd(s, i))
<1>1. PICK n \in Nat : n = Len(s)
  OBVIOUS
<1> DEFINE S == {j \in i..n + 1 : \A k \in i..j - 1 : s[k] \in Digits}
<1>2. i \in S
  BY <1>1
<1>3. S \in SUBSET (0..n + 1) /\ n + 1 \in Nat
  BY <1>1
<1>4. PICK e : e = Max(S)
  BY Zenon
<1>5. e \in S /\ \A y \in S : y <= e
  BY Zenon, <1>2, <1>3, <1>4, MinMax
<1>6. ASSUME e <= n, s[e] \in Digits PROVE FALSE
  <2>1. e + 1 \in S
    BY <1>1, <1>5, <1>6
  <2>2. e \in Nat
    BY <1>3, <1>5
  <2> HIDE DEF S
  <2>3. e + 1 <= e
    BY <1>5, <2>1
  <2> QED
    BY <2>2, <2>3
<1>7. DigitsEnd(s, i) = e
  BY <1>1, <1>4 DEF DigitsEnd
<1> QED
  BY <1>1, <1>5, <1>6, <1>7 DEF Run

\* Digits end in one place.
LEMMA RunUnique ==
  ASSUME NEW s \in Seq(Chars), NEW i \in 1..Len(s) + 1, NEW e, NEW f, Run(s, i, e), Run(s, i, f)
  PROVE  e = f
BY DEF Run

\* A number ends in one place.
LEMMA NumberUnique ==
  ASSUME NEW s \in Seq(Chars), NEW i \in 1..Len(s) + 1, NEW e, NEW f, Number(s, i, e), Number(s, i, f)
  PROVE  e = f
<1>1. PICK start \in 1..Len(s) + 1 : Run(s, start, e) /\ Run(s, start, f)
  BY DEF Number
<1> QED
  BY <1>1, RunUnique

\* A stretch of s is what Signed calls a number exactly when a number stands there,
\* provided no digit follows.
LEMMA SignedNumber ==
  ASSUME NEW s \in Seq(Chars), NEW i \in 1..Len(s) + 1, NEW e \in 1..Len(s) + 1, i < e,
         e <= Len(s) => s[e] \notin Digits
  PROVE  Signed(SubSeq(s, i, e - 1)) <=> Number(s, i, e)
<1>1. PICK n \in Nat : n = Len(s)
  OBVIOUS
<1>2. PICK t : t = SubSeq(s, i, e - 1)
  BY Zenon
<1> SUFFICES Signed(t) <=> Number(s, i, e)
  BY <1>2
<1>3. /\ t \in Seq(Chars) /\ Len(t) = e - i
      /\ \A k \in 1..e - i : t[k] = s[i + k - 1]
  <2>1. \A k \in i..e - 1 : s[k] \in Chars
    BY <1>1
  <2>2. /\ t \in Seq(Chars) /\ Len(t) = IF i <= e - 1 THEN e - 1 - i + 1 ELSE 0
        /\ \A k \in 1..e - 1 - i + 1 : t[k] = s[i + k - 1]
    BY <1>2, <2>1, SubSeqProperties
  <2> QED
    BY <2>2
<1>4. DOMAIN t = 1..e - i /\ t # <<>> /\ t[1] = s[i]
  BY <1>3
<1>5. \A a \in 1..2 :
        (\A k \in a..e - i : t[k] \in Digits) <=> \A k \in i + a - 1..e - 1 : s[k] \in Digits
  <2> SUFFICES ASSUME NEW a \in 1..2
               PROVE  (\A k \in a..e - i : t[k] \in Digits) <=> \A k \in i + a - 1..e - 1 : s[k] \in Digits
    BY SMTT(20)
  <2>1. ASSUME \A k \in a..e - i : t[k] \in Digits, NEW k \in i + a - 1..e - 1 PROVE s[k] \in Digits
    <3>1. PICK m \in a..e - i : i + m - 1 = k
      <4>1. k - i + 1 \in a..e - i /\ i + (k - i + 1) - 1 = k
        OBVIOUS
      <4> QED
        BY <4>1
    <3>2. m \in 1..e - i
      BY <3>1
    <3> QED
      BY Zenon, <1>3, <2>1, <3>1, <3>2
  <2>2. ASSUME \A k \in i + a - 1..e - 1 : s[k] \in Digits, NEW k \in a..e - i PROVE t[k] \in Digits
    <3>1. i + k - 1 \in i + a - 1..e - 1
      OBVIOUS
    <3> QED
      BY <1>3, <2>2, <3>1, SMTT(20)
  <2> QED
    BY <2>1, <2>2
<1>6. "-" \notin Digits
  BY DEF Digits
<1>7. CASE s[i] = "-"
  <2>1. Signed(t) <=> e - i > 1 /\ \A k \in 2..e - i : t[k] \in Digits
    <3>1. ~\A k \in DOMAIN t : t[k] \in Digits
      BY <1>4, <1>6, <1>7
    <3> QED
      BY <1>3, <1>4, <1>7, <3>1, SMTT(20) DEF Signed
  <2>2. Number(s, i, e) <=> i + 1 < e /\ \A k \in i + 1..e - 1 : s[k] \in Digits
    BY <1>1, <1>7 DEF Number, Run
  <2>3. (\A k \in 2..e - i : t[k] \in Digits) <=> \A k \in i + 1..e - 1 : s[k] \in Digits
    BY <1>5
  <2> QED
    BY <2>1, <2>2, <2>3
<1>8. CASE s[i] # "-"
  <2>1. Signed(t) <=> \A k \in 1..e - i : t[k] \in Digits
    BY Zenon, <1>3, <1>4, <1>8 DEF Signed
  <2>2. Number(s, i, e) <=> \A k \in i..e - 1 : s[k] \in Digits
    BY <1>1, <1>8 DEF Number, Run
  <2>3. (\A k \in 1..e - i : t[k] \in Digits) <=> \A k \in i..e - 1 : s[k] \in Digits
    BY <1>5
  <2> QED
    BY Zenon, <2>1, <2>2, <2>3
<1> QED
  BY <1>7, <1>8

\* f has the values of the fold of s, for the positions in D.
Folded(f, s, D) ==
  /\ f \in [SUBSET D -> Nat]
  /\ f[{}] = 0
  /\ \A w \in SUBSET D : w # {} => f[w] = 10 * f[w \ {Max(w)}] + Digit(s[Max(w)])

\* What Value computes, however long the text.  The fold is defined, by induction on
\* the positions it looks at, and its values are numbers, by induction on the
\* greatest of them.
LEMMA ValueFolds ==
  ASSUME NEW s \in Seq(Chars), NEW D, D = DOMAIN s
  PROVE  \E f : Folded(f, s, D) /\ Value(s) = f[D]
<1> DEFINE Body(f, w) == IF w = {} THEN 0 ELSE 10 * f[w \ {Max(w)}] + Digit(s[Max(w)])
           Defined(m) == \E f \in [SUBSET (1..m) -> Nat] : \A w \in SUBSET (1..m) : f[w] = Body(f, w)
<1>1. \A c : Digit(c) \in Nat
  BY DEF Digit
<1>2. ASSUME NEW m \in Nat, NEW w \in SUBSET (1..m), w # {}
      PROVE  /\ Max(w) \in w /\ Max(w) \in Nat /\ \A y \in w : y \in Nat /\ y <= Max(w)
  <2>1. w \in SUBSET (0..m)
    OBVIOUS
  <2>2. Max(w) \in w /\ \A y \in w : y <= Max(w)
    BY Zenon, <1>2, <2>1, MinMax
  <2>3. \A y \in w : y \in Nat
    OBVIOUS
  <2> QED
    BY <2>2, <2>3, Zenon
<1>3. Defined(0)
  <2>1. PICK f \in [SUBSET (1..0) -> Nat] : f = [w \in SUBSET (1..0) |-> 0]
    BY Zenon
  <2>2. ASSUME NEW w \in SUBSET (1..0) PROVE f[w] = Body(f, w)
    <3>1. w = {}
      OBVIOUS
    <3> QED
      BY <2>1, <3>1
  <2> QED
    BY Zenon, <2>2
<1>4. ASSUME NEW m \in Nat, Defined(m) PROVE Defined(m + 1)
  <2>1. PICK f \in [SUBSET (1..m) -> Nat] : \A w \in SUBSET (1..m) : f[w] = Body(f, w)
    BY Zenon, <1>4
  <2>2. PICK g : g = [w \in SUBSET (1..m + 1) |->
                        IF m + 1 \in w THEN 10 * f[w \ {m + 1}] + Digit(s[m + 1]) ELSE f[w]]
    BY Zenon
  <2>3. ASSUME NEW w \in SUBSET (1..m + 1)
        PROVE  w \ {m + 1} \in SUBSET (1..m) /\ (m + 1 \notin w => w \in SUBSET (1..m))
    OBVIOUS
  <2>4. g \in [SUBSET (1..m + 1) -> Nat]
    <3>1. ASSUME NEW w \in SUBSET (1..m + 1)
          PROVE  (IF m + 1 \in w THEN 10 * f[w \ {m + 1}] + Digit(s[m + 1]) ELSE f[w]) \in Nat
      <4>1. CASE m + 1 \in w
        <5>1. f[w \ {m + 1}] \in Nat /\ Digit(s[m + 1]) \in Nat
          BY <1>1, <2>3
        <5> QED
          BY <4>1, <5>1
      <4>2. CASE m + 1 \notin w
        BY <2>3, <4>2
      <4> QED
        BY <4>1, <4>2
    <3> QED
      BY Zenon, <2>2, <3>1
  <2>5. ASSUME NEW w \in SUBSET (1..m + 1) PROVE g[w] = Body(g, w)
    <3>1. CASE m + 1 \in w
      <4>1. m + 1 \in Nat /\ w # {}
        BY <3>1
      <4>2. Max(w) \in w /\ Max(w) \in Nat /\ m + 1 <= Max(w)
        BY Zenon, <1>2, <3>1, <4>1
      <4>3. Max(w) = m + 1
        BY <4>2
      <4>4. g[w] = 10 * f[w \ {m + 1}] + Digit(s[m + 1])
        BY <2>2, <3>1
      <4>5. g[w \ {m + 1}] = f[w \ {m + 1}]
        BY <2>2
      <4> QED
        BY Zenon, <4>1, <4>3, <4>4, <4>5
    <3>2. CASE m + 1 \notin w
      <4>1. w \in SUBSET (1..m) /\ g[w] = f[w] /\ f[w] = Body(f, w)
        BY Zenon, <2>1, <2>2, <2>3, <3>2
      <4>2. g[w \ {Max(w)}] = f[w \ {Max(w)}]
        BY Zenon, <2>2, <3>2
      <4> QED
        BY <4>1, <4>2
    <3> QED
      BY <3>1, <3>2
  <2> QED
    BY Zenon, <2>4, <2>5
<1> HIDE DEF Defined
<1>5. ASSUME NEW n \in Nat, ~Defined(n) PROVE FALSE
  <2> DEFINE T == {m \in Nat : ~Defined(m)}
  <2>1. T \in SUBSET Nat /\ T # {}
    BY <1>5
  <2>2. PICK t \in T : \A y \in T : t <= y
    BY Zenon, <2>1, LeastNat
  <2>3. t # 0
    BY <1>3, <2>2
  <2>4. PICK p \in Nat : t = p + 1
    <3>1. t - 1 \in Nat /\ t = (t - 1) + 1
      BY <2>3
    <3> QED
      BY <3>1
  <2>5. p \notin T
    BY <2>2, <2>4
  <2> QED
    BY <1>4, <2>4, <2>5
<1>6. PICK n \in Nat : D = 1..n
  BY DEF Chars
<1>7. \E f : f = [w \in SUBSET D |-> Body(f, w)]
  <2>1. Defined(n)
    BY <1>5
  <2>2. PICK f \in [SUBSET D -> Nat] : \A w \in SUBSET D : f[w] = Body(f, w)
    BY Zenon, <1>6, <2>1 DEF Defined
  <2>3. f = [w \in SUBSET D |-> Body(f, w)]
    BY <2>2
  <2> QED
    BY Zenon, <2>3
<1>8. ASSUME NEW f, f = [w \in SUBSET D |-> Body(f, w)], NEW b \in SUBSET D, f[b] \notin Nat
      PROVE  FALSE
  <2> DEFINE Bad == {w \in SUBSET D : f[w] \notin Nat}
             T == {Max(w) : w \in Bad}
  <2>1. ASSUME NEW w \in SUBSET D PROVE f[w] = Body(f, w)
    BY Zenon, <1>8
  <2>2. ASSUME NEW w \in Bad PROVE w # {} /\ w \in SUBSET (1..n)
    <3>1. 0 \in Nat
      OBVIOUS
    <3> QED
      BY Zenon, <1>6, <2>1, <3>1
  <2>3. T \in SUBSET Nat /\ T # {}
    <3>1. \A w \in Bad : Max(w) \in Nat
      BY Zenon, <1>2, <2>2
    <3>2. b \in Bad
      BY <1>8
    <3> QED
      BY <3>1, <3>2, Zenon
  <2>4. PICK t \in T : \A y \in T : t <= y
    BY Zenon, <2>3, LeastNat
  <2>5. PICK w \in Bad : t = Max(w)
    OBVIOUS
  <2>6. PICK r \in SUBSET D : r = w \ {Max(w)}
    BY Zenon, <1>6, <2>2
  <2>7. f[r] \in Nat
    <3> SUFFICES ASSUME r \in Bad PROVE FALSE
      OBVIOUS
    <3>1. Max(r) \in r /\ Max(w) <= Max(r) /\ Max(r) \in Nat
      BY <1>2, <2>2, <2>4, <2>5
    <3>2. Max(r) \in w /\ Max(r) # Max(w) /\ Max(r) <= Max(w) /\ Max(w) \in Nat
      BY Zenon, <1>2, <2>2, <2>6, <3>1
    <3> QED
      BY <3>1, <3>2
  <2>8. f[w] = 10 * f[r] + Digit(s[Max(w)]) /\ f[w] \notin Nat
    BY Zenon, <2>1, <2>2, <2>6
  <2>9. Digit(s[Max(w)]) \in Nat
    BY <1>1
  <2> QED
    BY <2>7, <2>8, <2>9
<1>9. PICK f : f = (CHOOSE g : g = [w \in SUBSET D |-> Body(g, w)])
  BY Zenon
<1>10. f = [w \in SUBSET D |-> Body(f, w)]
  BY Zenon, <1>7, <1>9
<1>11. f \in [SUBSET D -> Nat]
  <2>1. \A b \in SUBSET D : f[b] \in Nat
    BY Zenon, <1>8, <1>10
  <2>2. f = [w \in SUBSET D |-> f[w]]
    BY Zenon, <1>10
  <2> QED
    BY Zenon, <2>1, <2>2
<1>12. Value(s) = f[D]
  BY <1>9 DEF Value, MapThenFoldSet
<1>13. \A w \in SUBSET D : f[w] = Body(f, w)
  BY Zenon, <1>10
<1>14. /\ f[{}] = 0
       /\ \A w \in SUBSET D : w # {} => f[w] = 10 * f[w \ {Max(w)}] + Digit(s[Max(w)])
  <2>1. {} \in SUBSET D
    OBVIOUS
  <2> QED
    BY Zenon, <1>13, <2>1
<1> QED
  BY Zenon, <1>11, <1>12, <1>14 DEF Folded

\* The value of a text is a number.
LEMMA ValueIsNat ==
  ASSUME NEW s \in Seq(Chars)
  PROVE  Value(s) \in Nat
<1>1. PICK D : D = DOMAIN s
  BY Zenon
<1>2. PICK f \in [SUBSET D -> Nat] : Value(s) = f[D]
  BY Zenon, <1>1, ValueFolds DEF Folded
<1>3. D \in SUBSET D
  OBVIOUS
<1> QED
  BY <1>2, <1>3

\* One more digit.
LEMMA ValueAppend ==
  ASSUME NEW s \in Seq(Chars), NEW c \in Chars
  PROVE  Value(Append(s, c)) = 10 * Value(s) + Digit(c)
<1>1. PICK n \in Nat : n = Len(s)
  OBVIOUS
<1>2. PICK u \in Seq(Chars) : u = Append(s, c)
  BY Zenon, AppendProperties
<1>3. DOMAIN s = 1..n /\ DOMAIN u = 1..n + 1 /\ u[n + 1] = c /\ \A i \in 1..n : u[i] = s[i]
  BY <1>1, <1>2, AppendProperties
<1>4. PICK f : Folded(f, s, 1..n) /\ Value(s) = f[1..n]
  BY Zenon, <1>3, ValueFolds
<1>5. PICK g : Folded(g, u, 1..n + 1) /\ Value(u) = g[1..n + 1]
  BY Zenon, <1>3, ValueFolds
<1>6. ASSUME NEW m \in Nat, NEW w \in SUBSET (1..m), w # {}
      PROVE  Max(w) \in w /\ Max(w) \in Nat /\ \A y \in w : y <= Max(w)
  <2>1. w \in SUBSET (0..m)
    OBVIOUS
  <2>2. Max(w) \in w /\ \A y \in w : y <= Max(w)
    BY Zenon, <1>6, <2>1, MinMax
  <2>3. \A y \in w : y \in Nat
    OBVIOUS
  <2> QED
    BY <2>2, <2>3, Zenon
<1>7. ASSUME NEW b \in SUBSET (1..n), f[b] # g[b] PROVE FALSE
  <2> DEFINE Bad == {w \in SUBSET (1..n) : f[w] # g[w]}
             T == {Max(w) : w \in Bad}
  <2>1. ASSUME NEW w \in Bad PROVE w # {} /\ w \in SUBSET (1..n) /\ w \in SUBSET (1..n + 1)
    <3>1. w # {}
      BY Zenon, <1>4, <1>5 DEF Folded
    <3> QED
      BY <3>1
  <2>2. T \in SUBSET Nat /\ T # {}
    <3>1. \A w \in Bad : Max(w) \in Nat
      BY Zenon, <1>6, <2>1
    <3>2. b \in Bad
      BY <1>7
    <3> HIDE DEF Bad
    <3> QED
      BY <3>1, <3>2
  <2>3. PICK t \in T : \A y \in T : t <= y
    BY Zenon, <2>2, LeastNat
  <2>4. PICK w \in Bad : t = Max(w)
    OBVIOUS
  <2>5. PICK r \in SUBSET (1..n) : r = w \ {Max(w)}
    BY Zenon, <2>1
  <2>6. f[r] = g[r]
    <3> SUFFICES ASSUME r \in Bad PROVE FALSE
      OBVIOUS
    <3>1. Max(w) <= Max(r)
      BY Zenon, <2>3, <2>4
    <3>2. Max(r) \in r /\ Max(r) \in Nat
      BY Zenon, <1>6, <2>1
    <3>3. Max(r) \in w /\ Max(r) # Max(w) /\ Max(r) <= Max(w) /\ Max(w) \in Nat
      BY Zenon, <1>6, <2>1, <2>5, <3>2
    <3> QED
      BY <3>1, <3>2, <3>3
  <2>7. Max(w) \in 1..n
    BY Zenon, <1>6, <2>1
  <2>8. f[w] = 10 * f[r] + Digit(s[Max(w)])
    BY Zenon, <1>4, <2>1, <2>5 DEF Folded
  <2>9. g[w] = 10 * g[r] + Digit(u[Max(w)])
    BY Zenon, <1>5, <2>1, <2>5 DEF Folded
  <2>10. f[w] = g[w]
    BY Zenon, <1>3, <2>6, <2>7, <2>8, <2>9
  <2> QED
    BY <2>10
<1>8. PICK all \in SUBSET (1..n + 1) : all = 1..n + 1
  OBVIOUS
<1>9. all # {} /\ Max(all) = n + 1 /\ all \ {n + 1} = 1..n
  <2>1. n + 1 \in all /\ n + 1 \in Nat
    BY <1>8
  <2>2. Max(all) \in all /\ n + 1 <= Max(all)
    BY Zenon, <1>6, <2>1
  <2>3. Max(all) = n + 1
    BY <1>8, <2>2
  <2>4. all \ {n + 1} = 1..n
    BY <1>8
  <2> QED
    BY <2>1, <2>3, <2>4, Zenon
<1>10. g[all] = 10 * g[1..n] + Digit(c)
  <2>1. g[all] = 10 * g[all \ {Max(all)}] + Digit(u[Max(all)])
    BY Zenon, <1>5, <1>9 DEF Folded
  <2> QED
    BY Zenon, <1>3, <1>9, <2>1
<1>11. g[1..n] = f[1..n]
  <2>1. 1..n \in SUBSET (1..n)
    OBVIOUS
  <2> QED
    BY Zenon, <1>7, <2>1
<1> QED
  BY Zenon, <1>2, <1>4, <1>5, <1>8, <1>10, <1>11

\* The scan of %d finds the number that stands at i, and its value, or that there is
\* none.
LEMMA ScanNumber ==
  ASSUME NEW s \in Seq(Chars), NEW i \in 1..Len(s) + 1
  PROVE  \/ ScanInt(s, i) = Failed /\ \A e : ~Number(s, i, e)
         \/ \E e \in 2..Len(s) + 1 :
              /\ Number(s, i, e)
              /\ ScanInt(s, i) = [pos |-> e, val |-> SignedValue(SubSeq(s, i, e - 1))]
<1>1. PICK n \in Nat : n = Len(s)
  OBVIOUS
<1>2. PICK minus \in BOOLEAN : minus = (i <= n /\ s[i] = "-")
  BY Zenon
<1>3. PICK start \in Nat : start = IF minus THEN i + 1 ELSE i
  OBVIOUS
<1>4. PICK end : end = IF start > n THEN start ELSE DigitsEnd(s, start)
  OBVIOUS
<1>5. ScanInt(s, i) =
        IF end = start THEN Failed
        ELSE [pos |-> end, val |-> (IF minus THEN -1 ELSE 1) * Value(SubSeq(s, start, end - 1))]
  BY Zenon, <1>1, <1>2, <1>3, <1>4 DEF ScanInt
<1>6. ASSUME NEW e, Number(s, i, e) PROVE start \in 1..n /\ start < e /\ Run(s, start, e)
  <2>1. i <= n /\ start = IF s[i] = "-" THEN i + 1 ELSE i
    BY Zenon, <1>1, <1>2, <1>3, <1>6 DEF Number
  <2>2. start < e /\ Run(s, start, e)
    BY <1>6, <2>1 DEF Number
  <2> QED
    BY <1>1, <2>1, <2>2 DEF Run
<1>7. CASE start > n
  BY <1>1, <1>4, <1>5, <1>6, <1>7
<1>8. CASE start <= n
  <2>1. start \in 1..Len(s)
    BY <1>1, <1>3, <1>8
  <2>2. Run(s, start, end)
    BY <1>1, <1>4, <1>8, <2>1, DigitsEndRun, SMTT(20)
  <2>3. CASE end = start
    <3>1. ASSUME NEW e, Number(s, i, e) PROVE FALSE
      <4>1. Run(s, start, e) /\ start < e
        BY <1>6, <3>1
      <4>2. e = end
        BY <2>1, <2>2, <4>1, RunUnique
      <4> QED
        BY <2>1, <2>3, <4>1, <4>2
    <3> QED
      BY Zenon, <1>5, <2>3, <3>1
  <2>4. CASE end # start
    <3>1. end \in start..n + 1 /\ start < end /\ end \in 2..n + 1
      BY <1>1, <2>1, <2>2, <2>4 DEF Run
    <3>2. i <= n
      BY <1>1, <1>3, <1>8
    <3>3. Number(s, i, end)
      BY Zenon, <1>1, <1>2, <1>3, <2>2, <3>1, <3>2 DEF Number
    <3>4. PICK t : t = SubSeq(s, i, end - 1)
      BY Zenon
    <3>5. i \in 1..Len(s) /\ end - 1 \in i..Len(s)
      BY <1>1, <1>3, <3>1, <3>2
    <3>6. \A a \in i..i + 1 : SubSeq(s, a, end - 1) \in Seq(Chars)
      BY <1>1, <3>5, SubSeqProperties
    <3>7. t[1] = s[i] /\ Tail(t) = SubSeq(s, i + 1, end - 1)
      <4>1. Head(t) = s[i] /\ Tail(t) = SubSeq(s, i + 1, end - 1)
        BY <3>4, <3>5, HeadTailOfSubSeq
      <4>2. Head(t) = t[1]
        BY DEF Head
      <4> QED
        BY Zenon, <4>1, <4>2
    <3>8. PICK v \in Nat : v = Value(SubSeq(s, start, end - 1))
      <4>1. SubSeq(s, start, end - 1) \in Seq(Chars)
        BY <1>3, <3>6
      <4> QED
        BY Zenon, <4>1, ValueIsNat
    <3>9. SignedValue(t) = (IF minus THEN -1 ELSE 1) * v
      <4>1. CASE minus
        <5>1. SignedValue(t) = -v
          BY Zenon, <1>2, <1>3, <3>7, <3>8, <4>1 DEF SignedValue
        <5> QED
          BY <4>1, <5>1
      <4>2. CASE ~minus
        <5>1. SignedValue(t) = v
          BY Zenon, <1>2, <1>3, <3>2, <3>4, <3>7, <3>8, <4>2 DEF SignedValue
        <5> QED
          BY <4>2, <5>1
      <4> QED
        BY <4>1, <4>2
    <3>10. ScanInt(s, i) = [pos |-> end, val |-> SignedValue(SubSeq(s, i, end - 1))]
      BY <1>5, <2>4, <3>4, <3>8, <3>9
    <3> QED
      BY <1>1, <3>1, <3>3, <3>10
  <2> QED
    BY Zenon, <2>3, <2>4
<1> QED
  BY <1>1, <1>3, <1>7, <1>8

\* Where a stretch of s is a number, some number stands.
LEMMA NumberStarts ==
  ASSUME NEW s \in Seq(Chars), NEW i \in 1..Len(s), NEW e \in i..Len(s), Signed(SubSeq(s, i, e))
  PROVE  \E f : Number(s, i, f)
<1>1. PICK n \in Nat : n = Len(s)
  OBVIOUS
<1>2. PICK t : t = SubSeq(s, i, e)
  BY Zenon
<1>3. /\ t \in Seq(Chars) /\ Len(t) = e - i + 1
      /\ \A k \in 1..e - i + 1 : t[k] = s[i + k - 1]
  <2>1. \A k \in i..e : s[k] \in Chars
    BY <1>1
  <2>2. /\ t \in Seq(Chars) /\ Len(t) = IF i <= e THEN e - i + 1 ELSE 0
        /\ \A k \in 1..e - i + 1 : t[k] = s[i + k - 1]
    BY <1>2, <2>1, SubSeqProperties
  <2> QED
    BY <2>2
<1>4. t[1] = s[i] /\ (e > i => t[2] = s[i + 1])
  BY <1>3
<1>5. PICK start \in i..e : start = (IF s[i] = "-" THEN i + 1 ELSE i) /\ s[start] \in Digits
  <2>1. CASE t[1] = "-"
    <3>1. e > i /\ t[2] \in Digits
      <4>1. "-" \notin Digits
        BY DEF Digits
      <4>2. Signed(t) /\ 1 \in DOMAIN t /\ Len(t) = e - i + 1
        BY <1>2, <1>3
      <4> QED
        BY <2>1, <4>1, <4>2 DEF Signed
    <3> QED
      BY <1>4, <2>1, <3>1
  <2>2. CASE t[1] # "-"
    <3>1. Signed(t) /\ 1 \in DOMAIN t
      BY <1>2, <1>3
    <3>2. s[i] \in Digits
      BY <1>4, <2>2, <3>1 DEF Signed
    <3> QED
      BY <1>4, <2>2, <3>2
  <2> QED
    BY <2>1, <2>2
<1>6. start \in 1..Len(s)
  BY <1>1
<1>7. PICK f : Run(s, start, f)
  BY <1>6, DigitsEndRun
<1>8. start < f
  BY <1>1, <1>5, <1>6, <1>7 DEF Run
<1> QED
  BY <1>5, <1>7, <1>8 DEF Number

\* Behind the second number ParseRelease takes what RestAsWritten describes.
LEMMA RestScan ==
  ASSUME NEW s \in Seq(Chars), NEW b \in 1..Len(s),
         NEW partial, partial = SubSeq(s, b + 1, Len(s)),
         NEW minor, minor = ScanDotInt(partial, 1),
         NEW v, v.Minor = minor.val,
         v.Flavor = IF minor.pos = 0 THEN partial ELSE SubSeq(partial, minor.pos, Len(partial))
  PROVE  RestAsWritten(v, s, b)
<1>1. PICK n \in Nat : n = Len(s)
  OBVIOUS
<1>2. PICK q \in Nat : q = n - b
  BY <1>1, SMTT(20)
<1>3. partial \in Seq(Chars) /\ Len(partial) = q /\ \A i \in 1..q : partial[i] = s[b + i]
  <2>1. \A i \in b + 1..n : s[i] \in Chars
    BY <1>1
  <2>2. /\ partial \in Seq(Chars) /\ Len(partial) = IF b + 1 <= n THEN n - (b + 1) + 1 ELSE 0
        /\ \A i \in 1..n - (b + 1) + 1 : partial[i] = s[b + 1 + i - 1]
    BY <1>1, <2>1, SubSeqProperties
  <2>3. \A i \in 1..q : b + 1 + i - 1 = b + i
    OBVIOUS
  <2> QED
    BY <1>1, <1>2, <2>2, <2>3, SMTT(20)
<1>4. Failed.pos = 0 /\ Failed.val = 0
  BY Zenon DEF Failed
<1>5. CASE minor = Failed
  <2>1. v.Flavor = SubSeq(s, b + 1, Len(s)) /\ v.Minor = 0
    BY <1>4, <1>5
  <2>2. b + 1 \in b + 1..Len(s) + 1
    BY <1>1
  <2>3. ASSUME NEW e \in b + 2..Len(s), s[b + 1] = ".", Signed(SubSeq(s, b + 2, e)) PROVE FALSE
    <3>1. /\ 1 \in 1..q /\ 1 <= Len(partial) /\ 2 \in 1..Len(partial) /\ e - b \in 2..Len(partial)
          /\ 2 \in 1..Len(partial) + 1
      BY <1>1, <1>2, <1>3, SMTT(20)
    <3>2. partial[1] = "."
      BY Zenon, <1>3, <2>3, <3>1
    <3>3. ScanInt(partial, 2) = Failed
      BY <1>5, <3>1, <3>2 DEF ScanDotInt
    <3>4. SubSeq(partial, 2, e - b) = SubSeq(s, b + 2, e)
      <4>1. /\ b + 1 \in 1..Len(s) /\ n \in 1..Len(s) /\ 2 \in 1..n - (b + 1) + 1
            /\ e - b \in 1..n - (b + 1) + 1
        BY <1>1, <1>2, <1>3, <3>1
      <4>2. SubSeq(SubSeq(s, b + 1, n), 2, e - b) = SubSeq(s, b + 1 + 2 - 1, b + 1 + (e - b) - 1)
        BY <4>1, SubSeqOfSubSeq
      <4>3. b + 1 + 2 - 1 = b + 2 /\ b + 1 + (e - b) - 1 = e
        BY <1>1
      <4> QED
        BY Zenon, <1>1, <4>2, <4>3
    <3>5. \E f : Number(partial, 2, f)
      BY Zenon, <1>3, <2>3, <3>1, <3>4, NumberStarts
    <3>6. PICK f \in 2..Len(partial) + 1 :
            ScanInt(partial, 2) = [pos |-> f, val |-> SignedValue(SubSeq(partial, 2, f - 1))]
      BY Zenon, <1>3, <3>1, <3>5, ScanNumber
    <3>7. f = 0
      BY <1>4, <3>3, <3>6
    <3> QED
      BY <3>7
  <2> QED
    BY Zenon, <2>1, <2>2, <2>3 DEF RestAsWritten
<1>6. CASE minor # Failed
  <2>1. 1 <= q /\ partial[1] = "." /\ minor = ScanInt(partial, 2)
    BY <1>3, <1>6 DEF ScanDotInt
  <2>2. PICK c \in 2..q + 1 : /\ Number(partial, 2, c)
                              /\ minor = [pos |-> c, val |-> SignedValue(SubSeq(partial, 2, c - 1))]
    <3>1. 2 \in 1..Len(partial) + 1
      BY <1>3, <2>1
    <3> QED
      BY Zenon, <1>3, <1>6, <2>1, <3>1, ScanNumber
  <2>3. 2 < c /\ (c <= q => partial[c] \notin Digits)
    <3>1. PICK start \in {2, 3} : start < c /\ Run(partial, start, c)
      BY <2>2 DEF Number
    <3> QED
      BY <1>3, <3>1 DEF Run
  <2>4. SubSeq(partial, 2, c - 1) = SubSeq(s, b + 2, b + c - 1)
    <3>1. /\ b + 1 \in 1..Len(s) /\ n \in 1..Len(s) /\ 2 \in 1..n - (b + 1) + 1
          /\ c - 1 \in 1..n - (b + 1) + 1
      BY <1>1, <1>2, <2>1, <2>2, <2>3
    <3>2. ASSUME NEW i \in 1..Len(s), NEW j \in 1..Len(s), NEW m \in 1..j - i + 1,
                 NEW k \in 1..j - i + 1
          PROVE  SubSeq(SubSeq(s, i, j), m, k) = SubSeq(s, i + m - 1, i + k - 1)
      BY SubSeqOfSubSeq
    <3>3. PICK i \in 1..Len(s), k \in 1..n - (b + 1) + 1 : i = b + 1 /\ k = c - 1
      BY Zenon, <3>1
    <3>4. n \in 1..Len(s) /\ 2 \in 1..n - i + 1 /\ k \in 1..n - i + 1
      BY Zenon, <3>1, <3>3
    <3>5. SubSeq(SubSeq(s, i, n), 2, k) = SubSeq(s, i + 2 - 1, i + k - 1)
      BY Zenon, <3>2, <3>4
    <3>6. i + 2 - 1 = b + 2 /\ i + k - 1 = b + c - 1
      BY <2>2, <3>3
    <3> QED
      BY Zenon, <1>1, <3>3, <3>5, <3>6
  <2>5. SubSeq(partial, c, q) = SubSeq(s, b + c, n)
    <3>1. CASE c <= q
      <4>1. PICK i \in 1..Len(s), j \in 1..Len(s) : i = b + 1 /\ j = n
        <5>1. b + 1 \in 1..Len(s) /\ n \in 1..Len(s)
          BY <1>1, <1>2, <2>1
        <5> QED
          BY <5>1
      <4>2. c \in 1..j - i + 1 /\ q \in 1..j - i + 1
        BY <1>1, <1>2, <2>2, <3>1, <4>1
      <4>3. SubSeq(SubSeq(s, i, j), c, q) = SubSeq(s, i + c - 1, i + q - 1)
        BY <4>1, <4>2, SubSeqOfSubSeq
      <4>4. i + c - 1 = b + c /\ i + q - 1 = n
        BY <1>1, <1>2, <2>2, <4>1
      <4> QED
        BY Zenon, <1>1, <4>1, <4>3, <4>4
    <3>2. CASE c > q
      <4>1. SubSeq(partial, c, q) = <<>> /\ SubSeq(s, b + c, n) = <<>>
        BY <1>1, <1>2, <2>2, <3>2, SubSeqEmpty
      <4> QED
        BY Zenon, <4>1
    <3>3. c <= q \/ c > q
      BY <2>2
    <3> QED
      BY <3>1, <3>2, <3>3, Zenon
  <2>6. Signed(SubSeq(partial, 2, c - 1))
    <3>1. 2 \in 1..Len(partial) + 1 /\ c \in 1..Len(partial) + 1
      BY <1>3, <2>1, <2>2
    <3> QED
      BY Zenon, <1>3, <2>2, <2>3, <3>1, SignedNumber
  <2>7. PICK k \in b + 1..n + 1 : k = b + c /\ k # b + 1 /\ k - 1 = b + c - 1
    <3>1. b + c \in b + 1..n + 1 /\ b + c # b + 1
      BY <1>1, <1>2, <2>2
    <3> QED
      BY <3>1
  <2>8. v.Flavor = SubSeq(s, k, n) /\ v.Minor = SignedValue(SubSeq(s, b + 2, k - 1))
    <3>1. minor.pos = c /\ minor.pos # 0 /\ minor.val = SignedValue(SubSeq(partial, 2, c - 1))
      BY <2>2
    <3> QED
      BY Zenon, <1>3, <2>4, <2>5, <2>7, <3>1
  <2>9. s[b + 1] = "." /\ Signed(SubSeq(s, b + 2, k - 1))
    <3>1. s[b + 1] = "."
      <4>1. 1 \in 1..q
        BY <2>1
      <4> QED
        BY Zenon, <1>3, <2>1, <4>1
    <3>2. SubSeq(s, b + 2, k - 1) = SubSeq(partial, 2, c - 1)
      BY Zenon, <2>4, <2>7
    <3> QED
      BY <2>6, <3>1, <3>2, Zenon
  <2>10. k <= Len(s) => s[k] \notin Digits
    <3>1. k <= Len(s) => c \in 1..q /\ c <= q /\ s[k] = s[b + c]
      BY <1>1, <1>2, <2>2, <2>7
    <3> QED
      BY Zenon, <1>3, <2>3, <3>1
  <2> QED
    BY Zenon, <1>1, <2>7, <2>8, <2>9, <2>10 DEF RestAsWritten
<1> QED
  BY Zenon, <1>5, <1>6

\* The places where s divides into two numbers with a dot between them.
Splits(s) ==
  {p \in (1..Len(s)) \X (1..Len(s)) :
     /\ p[1] < p[2] /\ s[p[1]] = "."
     /\ Signed(SubSeq(s, 1, p[1] - 1)) /\ Signed(SubSeq(s, p[1] + 1, p[2]))
     /\ (p[2] < Len(s) => s[p[2] + 1] \notin Digits)}

\* They are those where the scan finds the numbers.
LEMMA SplitsScan ==
  ASSUME NEW s \in Seq(Chars), NEW a \in 1..Len(s), NEW b \in 1..Len(s)
  PROVE  <<a, b>> \in Splits(s) <=> s[a] = "." /\ Number(s, 1, a) /\ Number(s, a + 1, b + 1)
<1>1. PICK n \in Nat : n = Len(s)
  OBVIOUS
<1>2. "." \notin Digits
  BY DEF Digits
<1>3. /\ <<a, b>> \in (1..Len(s)) \X (1..Len(s))
      /\ <<a, b>>[1] = a /\ <<a, b>>[2] = b
  BY Zenon
<1>4. <<a, b>> \in Splits(s) <=>
        /\ a < b /\ s[a] = "."
        /\ Signed(SubSeq(s, 1, a - 1)) /\ Signed(SubSeq(s, a + 1, b))
        /\ (b < Len(s) => s[b + 1] \notin Digits)
  BY Zenon, <1>3 DEF Splits
<1>5. ASSUME s[a] = ".", 1 < a PROVE Signed(SubSeq(s, 1, a - 1)) <=> Number(s, 1, a)
  BY <1>1, <1>2, <1>5, SignedNumber
<1>6. ASSUME a < b, b < Len(s) => s[b + 1] \notin Digits
      PROVE  Signed(SubSeq(s, a + 1, b)) <=> Number(s, a + 1, b + 1)
  <2>1. PICK i \in 1..Len(s) + 1, e \in 1..Len(s) + 1 : i = a + 1 /\ e = b + 1
    <3>1. a + 1 \in 1..Len(s) + 1 /\ b + 1 \in 1..Len(s) + 1
      BY <1>1
    <3> QED
      BY <3>1
  <2>2. i < e /\ (e <= Len(s) => s[e] \notin Digits)
    BY <1>1, <1>6, <2>1
  <2>3. Signed(SubSeq(s, i, e - 1)) <=> Number(s, i, e)
    BY <2>1, <2>2, SignedNumber
  <2>4. e - 1 = b
    BY <1>1, <2>1
  <2> QED
    BY <2>1, <2>3, <2>4
<1>7. Signed(SubSeq(s, 1, a - 1)) => 1 < a
  <2> SUFFICES ASSUME a = 1 PROVE ~Signed(SubSeq(s, 1, 0))
    BY <1>1
  <2>1. SubSeq(s, 1, 0) = <<>>
    BY SubSeqEmpty
  <2>2. ~Signed(<<>>)
    BY EmptySeq DEF Signed
  <2> QED
    BY Zenon, <2>1, <2>2
<1>8. Number(s, 1, a) => 1 < a
  BY <1>1 DEF Number
<1>9. Number(s, a + 1, b + 1) => a < b /\ (b < Len(s) => s[b + 1] \notin Digits)
  <2> SUFFICES ASSUME Number(s, a + 1, b + 1) PROVE a < b /\ (b < Len(s) => s[b + 1] \notin Digits)
    OBVIOUS
  <2>1. PICK start \in {a + 1, a + 2} : start < b + 1 /\ Run(s, start, b + 1)
    BY SMTT(20) DEF Number
  <2> QED
    BY <1>1, <2>1 DEF Run
<1> QED
  BY Zenon, <1>4, <1>5, <1>6, <1>7, <1>8, <1>9

\* What ParseRelease makes of a release, by where the scan finds the numbers.
LEMMA ParseScan ==
  ASSUME NEW s \in Seq(Chars)
  PROVE  \/ Splits(s) = {} /\ ParseRelease(s) = NoRelease
         \/ \E a, b \in 1..Len(s) :
              /\ Splits(s) = {<<a, b>>}
              /\ ParseRelease(s).ok
              /\ ParseRelease(s).Kernel = SignedValue(SubSeq(s, 1, a - 1))
              /\ ParseRelease(s).Major = SignedValue(SubSeq(s, a + 1, b))
              /\ RestAsWritten(ParseRelease(s), s, b)
<1>1. PICK n \in Nat : n = Len(s)
  OBVIOUS
<1>2. PICK kernel : kernel = ScanInt(s, 1)
  OBVIOUS
<1>3. PICK major : major = IF kernel.pos = 0 THEN Failed ELSE ScanDotInt(s, kernel.pos)
  OBVIOUS
<1>4. PICK partial : partial = SubSeq(s, major.pos, n)
  BY Zenon
<1>5. PICK minor : minor = ScanDotInt(partial, 1)
  OBVIOUS
<1>6. PICK flavor : flavor = IF minor.pos = 0 THEN partial ELSE SubSeq(partial, minor.pos, Len(partial))
  BY Zenon
<1>7. ParseRelease(s) =
        IF major.pos = 0 THEN NoRelease
        ELSE [ok |-> TRUE, Kernel |-> kernel.val, Major |-> major.val, Minor |-> minor.val,
              Flavor |-> flavor]
  BY Zenon, <1>1, <1>2, <1>3, <1>4, <1>5, <1>6 DEF ParseRelease
<1>8. ASSUME NEW p \in Splits(s)
      PROVE  \E a, b \in 1..n : p = <<a, b>> /\ s[a] = "." /\ Number(s, 1, a) /\ Number(s, a + 1, b + 1)
  <2>1. PICK a, b \in 1..n : p = <<a, b>>
    BY <1>1 DEF Splits
  <2> QED
    BY Zenon, <1>1, <2>1, SplitsScan
<1>9. Failed.pos = 0
  BY DEF Failed
<1>10. \/ kernel = Failed /\ \A e : ~Number(s, 1, e)
       \/ \E e \in 2..n + 1 : /\ Number(s, 1, e)
                              /\ kernel = [pos |-> e, val |-> SignedValue(SubSeq(s, 1, e - 1))]
  <2>1. 1 \in 1..Len(s) + 1
    BY <1>1
  <2> QED
    BY Zenon, <1>1, <1>2, <2>1, ScanNumber
<1>11. CASE kernel = Failed /\ \A e : ~Number(s, 1, e)
  <2>1. Splits(s) = {}
    BY <1>8, <1>11, SMTT(20)
  <2> QED
    BY Zenon, <1>3, <1>7, <1>9, <1>11, <2>1
<1>12. ASSUME NEW a \in 2..n + 1, Number(s, 1, a),
              kernel = [pos |-> a, val |-> SignedValue(SubSeq(s, 1, a - 1))]
       PROVE  \/ Splits(s) = {} /\ ParseRelease(s) = NoRelease
              \/ \E b \in 1..n : /\ a \in 1..n /\ Splits(s) = {<<a, b>>}
                                 /\ ParseRelease(s).ok
                                 /\ ParseRelease(s).Kernel = SignedValue(SubSeq(s, 1, a - 1))
                                 /\ ParseRelease(s).Major = SignedValue(SubSeq(s, a + 1, b))
                                 /\ RestAsWritten(ParseRelease(s), s, b)
  <2>1. major = ScanDotInt(s, a)
    BY <1>3, <1>12
  <2>2. ASSUME NEW p \in Splits(s)
        PROVE  a \in 1..n /\ s[a] = "." /\ \E b \in 1..n : p = <<a, b>> /\ Number(s, a + 1, b + 1)
    <3>1. PICK c, b \in 1..n : p = <<c, b>> /\ s[c] = "." /\ Number(s, 1, c) /\ Number(s, c + 1, b + 1)
      BY Zenon, <1>8
    <3>2. c = a
      <4>1. 1 \in 1..Len(s) + 1
        BY <1>1, SMTT(20)
      <4> QED
        BY Zenon, <1>12, <3>1, <4>1, NumberUnique
    <3> QED
      BY Zenon, <3>1, <3>2
  <2>3. CASE ~(a <= n /\ s[a] = ".")
    <3>1. Splits(s) = {}
      BY <2>2, <2>3
    <3>2. major = Failed
      BY <1>1, <2>1, <2>3, SMTT(20) DEF ScanDotInt
    <3> QED
      BY Zenon, <1>7, <1>9, <3>1, <3>2
  <2>4. CASE a <= n /\ s[a] = "."
    <3>1. a + 1 \in 1..Len(s) + 1 /\ a \in 1..n
      BY <1>1, <2>4
    <3>2. major = ScanInt(s, a + 1)
      BY <1>1, <2>1, <2>4 DEF ScanDotInt
    <3>3. \/ major = Failed /\ \A e : ~Number(s, a + 1, e)
          \/ \E e \in 2..n + 1 : /\ Number(s, a + 1, e)
                                 /\ major = [pos |-> e, val |-> SignedValue(SubSeq(s, a + 1, e - 1))]
      BY ZenonT(30), <1>1, <3>1, <3>2, ScanNumber
    <3>4. CASE major = Failed /\ \A e : ~Number(s, a + 1, e)
      <4>1. Splits(s) = {}
        BY Zenon, <2>2, <3>4
      <4> QED
        BY Zenon, <1>7, <1>9, <3>4, <4>1
    <3>5. CASE \E e \in 2..n + 1 : /\ Number(s, a + 1, e)
                                   /\ major = [pos |-> e, val |-> SignedValue(SubSeq(s, a + 1, e - 1))]
      <4>1. PICK e \in 2..n + 1 : /\ Number(s, a + 1, e)
                                  /\ major = [pos |-> e, val |-> SignedValue(SubSeq(s, a + 1, e - 1))]
        BY Zenon, <3>5
      <4>2. PICK b \in 1..n : e = b + 1 /\ e - 1 = b
        <5>1. e - 1 \in 1..n /\ e = (e - 1) + 1
          OBVIOUS
        <5> QED
          BY <5>1
      <4>3. <<a, b>> \in Splits(s)
        BY Zenon, <1>1, <1>12, <2>4, <3>1, <4>1, <4>2, SplitsScan
      <4>4. ASSUME NEW p \in Splits(s) PROVE p = <<a, b>>
        <5>1. PICK c \in 1..n : p = <<a, c>> /\ Number(s, a + 1, c + 1)
          BY Zenon, <2>2
        <5>2. c + 1 = e
          BY Zenon, <3>1, <4>1, <5>1, NumberUnique
        <5>3. c = b
          BY <4>2, <5>2
        <5> QED
          BY Zenon, <5>1, <5>3
      <4>5. Splits(s) = {<<a, b>>}
        BY <4>3, <4>4
      <4>6. major.pos = e /\ major.pos # 0 /\ major.val = SignedValue(SubSeq(s, a + 1, b))
        BY <4>1, <4>2
      <4>7. /\ ParseRelease(s).ok /\ ParseRelease(s).Kernel = kernel.val
            /\ ParseRelease(s).Major = major.val /\ ParseRelease(s).Flavor = flavor
        BY <1>7, <4>6
      <4>8. RestAsWritten(ParseRelease(s), s, b)
        <5>1. partial = SubSeq(s, b + 1, Len(s)) /\ b \in 1..Len(s)
          BY Zenon, <1>1, <1>4, <4>2, <4>6
        <5>2. ParseRelease(s).Minor = minor.val
          BY <1>7, <4>6
        <5> QED
          BY Zenon, <1>5, <1>6, <4>7, <5>1, <5>2, RestScan
      <4>9. kernel.val = SignedValue(SubSeq(s, 1, a - 1))
        BY <1>12
      <4> QED
        BY Zenon, <3>1, <4>5, <4>6, <4>7, <4>8, <4>9
    <3> QED
      BY Zenon, <3>3, <3>4, <3>5
  <2> QED
    BY Zenon, <2>3, <2>4
<1> QED
  BY Zenon, <1>1, <1>10, <1>11, <1>12

\* The release is a text.
LEMMA ReleaseIsText == KernelSpec => [](release \in Seq(Chars))
<1>1. KernelInit => release \in Seq(Chars)
  BY EmptySeq DEF KernelInit
<1>2. ASSUME release \in Seq(Chars), [KernelNext]_kernelVars PROVE (release \in Seq(Chars))'
  BY <1>2, SMTT(20) DEF KernelNext, NextRelease, UnameFails, kernelVars
<1> QED
  BY <1>1, <1>2, PTL DEF KernelSpec

\* ParseRelease succeeds exactly on the releases that begin with two numbers and a
\* dot between them, whatever their length; it takes these numbers, a third one when
\* it follows, and all of the rest.
THEOREM ParseIsExact == KernelSpec => []ParsesNumbers
<1>1. ASSUME release \in Seq(Chars) PROVE ParsesNumbers
  <2> SUFFICES /\ ParseRelease(release).ok <=> Splits(release) # {}
               /\ \A p \in Splits(release) :
                    /\ ParseRelease(release).Kernel = SignedValue(SubSeq(release, 1, p[1] - 1))
                    /\ ParseRelease(release).Major = SignedValue(SubSeq(release, p[1] + 1, p[2]))
                    /\ RestAsWritten(ParseRelease(release), release, p[2])
    BY Zenon DEF ParsesNumbers, Splits
  <2>1. CASE Splits(release) = {} /\ ParseRelease(release) = NoRelease
    BY <2>1 DEF NoRelease
  <2>2. CASE ~(Splits(release) = {} /\ ParseRelease(release) = NoRelease)
    <3>1. PICK a, b \in 1..Len(release) :
            /\ Splits(release) = {<<a, b>>}
            /\ ParseRelease(release).ok
            /\ ParseRelease(release).Kernel = SignedValue(SubSeq(release, 1, a - 1))
            /\ ParseRelease(release).Major = SignedValue(SubSeq(release, a + 1, b))
            /\ RestAsWritten(ParseRelease(release), release, b)
      BY <1>1, <2>2, ParseScan, Zenon
    <3>2. <<a, b>>[1] = a /\ <<a, b>>[2] = b
      OBVIOUS
    <3> QED
      BY <3>1, <3>2, Zenon
  <2> QED
    BY Zenon, <2>1, <2>2
<1> QED
  BY <1>1, ReleaseIsText, PTL

-----------------------------------------------------------------------------
\* The recursive function of Decimal, and its right-hand side.
Unsigned[k \in Nat] ==
  IF k < 10 THEN <<IF k = 0 THEN "0" ELSE "1">>
  ELSE Unsigned[k \div 10] \o Unsigned[k % 10]

PrintedBy(g, k) ==
  IF k < 10 THEN <<IF k = 0 THEN "0" ELSE "1">>
  ELSE g[k \div 10] \o g[k % 10]

\* g prints the numbers up to m.
Prints(g, m) == g \in [0..m -> Seq(Digits)] /\ \A k \in 0..m : g[k] = PrintedBy(g, k)

\* All but the last digit, and the last.
LEMMA Decimals ==
  ASSUME NEW k \in Nat, k >= 10
  PROVE  k \div 10 \in 0..k - 1 /\ k % 10 \in 0..9 /\ k % 10 \in 0..k - 1 /\ k = 10 * (k \div 10) + (k % 10)
<1>1. k % 10 \in 0..9
  OBVIOUS
<1>2. k \div 10 \in Int /\ k = 10 * (k \div 10) + (k % 10)
  OBVIOUS
<1> QED
  BY <1>1, <1>2

\* A number from all but its last digit and the last.
LEMMA LastDecimal ==
  ASSUME NEW q \in Nat, NEW r \in Nat, r < 10
  PROVE  (10 * q + r) \div 10 = q /\ (10 * q + r) % 10 = r
OBVIOUS

\* What is printed of k, when all below k is printed, is a text of digits.
LEMMA PrintedText ==
  ASSUME NEW k \in Nat, NEW g, \A j \in 0..k - 1 : g[j] \in Seq(Digits)
  PROVE  PrintedBy(g, k) \in Seq(Digits)
<1>1. CASE k < 10
  <2>1. (IF k = 0 THEN "0" ELSE "1") \in Digits
    BY DEF Digits
  <2>2. PrintedBy(g, k) = <<IF k = 0 THEN "0" ELSE "1">>
    BY <1>1 DEF PrintedBy
  <2> HIDE DEF Digits
  <2> QED
    BY <2>1, <2>2
<1>2. CASE k >= 10
  <2>1. g[k \div 10] \in Seq(Digits) /\ g[k % 10] \in Seq(Digits)
    BY <1>2, Decimals
  <2>2. PrintedBy(g, k) = g[k \div 10] \o g[k % 10]
    <3>1. ~(k < 10)
      BY <1>2
    <3> QED
      BY Zenon, <3>1 DEF PrintedBy
  <2> QED
    BY Zenon, <2>1, <2>2, ConcatProperties
<1> QED
  BY <1>1, <1>2

\* The numbers up to any m can be printed: induction on m.
LEMMA PrintsExists ==
  ASSUME NEW n \in Nat
  PROVE  \E g : Prints(g, n)
<1>1. \E g : Prints(g, 0)
  <2>1. PICK g : g = [k \in 0..0 |-> PrintedBy(<<>>, 0)]
    BY Zenon
  <2>2. PrintedBy(<<>>, 0) \in Seq(Digits)
    BY PrintedText
  <2>3. PrintedBy(g, 0) = PrintedBy(<<>>, 0)
    BY DEF PrintedBy
  <2>4. \A k \in 0..0 : k = 0
    OBVIOUS
  <2> QED
    BY Zenon, <2>1, <2>2, <2>3, <2>4 DEF Prints
<1>2. ASSUME NEW m \in Nat, NEW g, Prints(g, m) PROVE \E h : Prints(h, m + 1)
  <2>1. PICK h : h = [k \in 0..m + 1 |-> IF k = m + 1 THEN PrintedBy(g, k) ELSE g[k]]
    BY Zenon
  <2>2. \A j \in 0..m : j \in 0..m + 1 /\ j # m + 1 /\ h[j] = g[j] /\ g[j] \in Seq(Digits)
    <3>1. \A j \in 0..m : j \in 0..m + 1 /\ j # m + 1
      OBVIOUS
    <3> QED
      BY Zenon, <1>2, <2>1, <3>1 DEF Prints
  <2>3. \A k \in 0..m + 1 : PrintedBy(h, k) = PrintedBy(g, k)
    <3> SUFFICES ASSUME NEW k \in 0..m + 1 PROVE PrintedBy(h, k) = PrintedBy(g, k)
      OBVIOUS
    <3>1. k >= 10 => k \div 10 \in 0..m /\ k % 10 \in 0..m
      BY Decimals
    <3> QED
      BY <2>2, <3>1 DEF PrintedBy
  <2>4. m + 1 \in 0..m + 1 /\ h[m + 1] = PrintedBy(g, m + 1)
    BY <2>1
  <2>5. PrintedBy(g, m + 1) \in Seq(Digits)
    <3>1. m + 1 \in Nat /\ (m + 1) - 1 = m
      OBVIOUS
    <3> QED
      BY Zenon, <2>2, <3>1, PrintedText
  <2>6. \A k \in 0..m + 1 : k \in 0..m \/ k = m + 1
    OBVIOUS
  <2>7. \A k \in 0..m + 1 : h[k] = PrintedBy(h, k) /\ h[k] \in Seq(Digits)
    BY Zenon, <1>2, <2>2, <2>3, <2>4, <2>5, <2>6 DEF Prints
  <2>8. h \in [0..m + 1 -> Seq(Digits)]
    BY Zenon, <2>1, <2>7
  <2> QED
    BY Zenon, <2>7, <2>8 DEF Prints
<1> DEFINE T == {m \in Nat : ~\E g : Prints(g, m)}
<1>3. ASSUME T # {} PROVE FALSE
  <2>1. PICK t \in T : \A y \in T : t <= y
    <3>1. T \in SUBSET Nat
      OBVIOUS
    <3> QED
      BY Zenon, <1>3, <3>1, LeastNat
  <2>2. t # 0
    BY Zenon, <1>1
  <2>3. PICK p \in Nat : t = p + 1
    <3>1. t - 1 \in Nat /\ t = (t - 1) + 1
      BY <2>2
    <3> QED
      BY <3>1
  <2>4. ~(t <= p)
    BY <2>3
  <2>5. \E g : Prints(g, p)
    BY Zenon, <2>1, <2>4
  <2>6. \E g : Prints(g, t)
    BY Zenon, <1>2, <2>3, <2>5
  <2> QED
    BY Zenon, <2>6
<1> QED
  BY Zenon, <1>3

\* In one way: least counterexample.
LEMMA PrintsUnique ==
  ASSUME NEW m \in Nat, NEW n \in Nat, NEW g, NEW h, Prints(g, m), Prints(h, n),
         NEW b \in Nat, b <= m, b <= n
  PROVE  g[b] = h[b]
<1> DEFINE T == {k \in Nat : k <= m /\ k <= n /\ g[k] # h[k]}
<1> SUFFICES ASSUME T # {} PROVE FALSE
  OBVIOUS
<1>1. PICK t \in T : \A y \in T : t <= y
  <2>1. T \in SUBSET Nat
    BY Zenon
  <2> QED
    BY Zenon, <2>1, LeastNat
<1>2. ASSUME NEW k \in 0..t - 1 PROVE g[k] = h[k]
  <2>1. k \in Nat /\ k <= m /\ k <= n /\ ~(t <= k)
    OBVIOUS
  <2> QED
    BY Zenon, <1>1, <2>1
<1>3. g[t] = PrintedBy(g, t) /\ h[t] = PrintedBy(h, t)
  <2>1. t \in 0..m /\ t \in 0..n
    OBVIOUS
  <2> QED
    BY Zenon, <2>1 DEF Prints
<1>4. PrintedBy(g, t) = PrintedBy(h, t)
  <2>1. t >= 10 => t \div 10 \in 0..t - 1 /\ t % 10 \in 0..t - 1
    BY Zenon, Decimals
  <2>2. t >= 10 \/ t < 10
    OBVIOUS
  <2> QED
    BY Zenon, <1>2, <2>1, <2>2 DEF PrintedBy
<1> QED
  BY Zenon, <1>3, <1>4

\* So the recursive definition of Decimal defines a function on all of Nat.
LEMMA UnsignedPrints ==
  ASSUME NEW k \in Nat
  PROVE  Unsigned[k] \in Seq(Digits) /\ Unsigned[k] = PrintedBy(Unsigned, k)
<1>1. PICK G : G = [j \in Nat |-> CHOOSE g : Prints(g, j)]
  BY Zenon
<1>2. \A j \in Nat : Prints(G[j], j)
  BY Zenon, <1>1, PrintsExists
<1>3. PICK F : F = [j \in Nat |-> G[j][j]]
  BY Zenon
<1>4. ASSUME NEW j \in Nat PROVE F[j] = PrintedBy(F, j) /\ F[j] \in Seq(Digits)
  <2>1. j \in 0..j
    OBVIOUS
  <2>2. F[j] = PrintedBy(G[j], j) /\ F[j] \in Seq(Digits)
    BY Zenon, <1>2, <1>3, <2>1 DEF Prints
  <2>3. ASSUME NEW i \in 0..j PROVE F[i] = G[j][i]
    <3>1. i \in Nat /\ i <= i /\ i <= j
      OBVIOUS
    <3>2. F[i] = G[i][i]
      BY Zenon, <1>3, <3>1
    <3>3. Prints(G[i], i) /\ Prints(G[j], j)
      BY Zenon, <1>2, <3>1
    <3> QED
      BY <3>1, <3>2, <3>3, PrintsUnique
  <2>4. j >= 10 => j \div 10 \in 0..j /\ j % 10 \in 0..j
    BY Decimals
  <2>5. PrintedBy(F, j) = PrintedBy(G[j], j)
    BY <2>3, <2>4 DEF PrintedBy
  <2> QED
    BY Zenon, <2>2, <2>5
<1>5. F = [j \in Nat |-> PrintedBy(F, j)]
  BY Zenon, <1>3, <1>4
<1>6. PICK U : U = Unsigned
  BY Zenon
<1>7. U = [j \in Nat |-> PrintedBy(U, j)]
  BY Zenon, <1>5, <1>6 DEF Unsigned, PrintedBy
<1>8. \A j \in Nat : U[j] = PrintedBy(U, j)
  BY Zenon, <1>7
<1> DEFINE T == {j \in Nat : U[j] \notin Seq(Digits)}
<1>9. ASSUME T # {} PROVE FALSE
  <2>1. PICK t \in T : \A y \in T : t <= y
    <3>1. T \in SUBSET Nat
      OBVIOUS
    <3> QED
      BY Zenon, <1>9, <3>1, LeastNat
  <2>2. \A j \in 0..t - 1 : j \in Nat /\ ~(t <= j)
    OBVIOUS
  <2>3. \A j \in 0..t - 1 : U[j] \in Seq(Digits)
    BY Zenon, <2>1, <2>2
  <2>4. t \in Nat /\ U[t] \notin Seq(Digits)
    BY Zenon
  <2>5. PrintedBy(U, t) \in Seq(Digits)
    BY Zenon, <2>3, <2>4, PrintedText
  <2> QED
    BY Zenon, <1>8, <2>4, <2>5
<1> QED
  BY Zenon, <1>6, <1>8, <1>9

\* No digits have no value.
LEMMA ValueEmpty == Value(<<>>) = 0
<1>1. <<>> \in Seq(Chars) /\ DOMAIN <<>> = {}
  BY EmptySeq, LenProperties
<1>2. PICK f : Folded(f, <<>>, {}) /\ Value(<<>>) = f[{}]
  BY Zenon, <1>1, ValueFolds
<1> QED
  BY Zenon, <1>2 DEF Folded

\* A number that is the value of some digits is printed with that value.
LEMMA UnsignedValue ==
  ASSUME NEW u \in Seq(Digits), NEW m, m = Value(u)
  PROVE  Unsigned[m] \in Seq(Digits) /\ Unsigned[m] # <<>> /\ Value(Unsigned[m]) = m
<1>1. \A t \in Seq(Digits) : t \in Seq(Chars) /\ Value(t) \in Nat
  <2>1. Digits \subseteq Chars
    BY DEF Chars
  <2>2. \A t \in Seq(Digits) : t \in Seq(Chars)
    BY Zenon, <2>1, SeqMonotonic
  <2> QED
    BY <2>2, ValueIsNat
<1>2. ASSUME NEW c \in Digits
      PROVE  /\ Digit(c) \in Nat /\ Digit(c) < 10 /\ c \in Chars
             /\ Unsigned[Digit(c)] = <<c>> /\ Value(<<c>>) = Digit(c)
  <2>1. Digit(c) \in Nat /\ Digit(c) < 10 /\ c \in Chars /\ c = IF Digit(c) = 0 THEN "0" ELSE "1"
    BY DEF Digit, Digits, Chars
  <2>2. Unsigned[Digit(c)] = <<c>>
    BY Zenon, <2>1, UnsignedPrints DEF PrintedBy
  <2>3. <<>> \in Seq(Chars) /\ Append(<<>>, c) = <<c>>
    BY EmptySeq
  <2>4. Value(<<c>>) = 10 * 0 + Digit(c)
    BY Zenon, <2>1, <2>3, ValueAppend, ValueEmpty
  <2> QED
    BY <2>1, <2>2, <2>4
<1> DEFINE Good(x) == Unsigned[x] # <<>> /\ Value(Unsigned[x]) = x
           T == {x \in Nat : (\E t \in Seq(Digits) : Value(t) = x) /\ ~Good(x)}
<1>3. ASSUME T # {} PROVE FALSE
  <2>1. PICK x \in T : \A y \in T : x <= y
    <3>1. T \in SUBSET Nat
      OBVIOUS
    <3> QED
      BY Zenon, <1>3, <3>1, LeastNat
  <2>2. x \in Nat /\ ~Good(x)
    OBVIOUS
  <2>3. ASSUME NEW c \in Digits PROVE Good(Digit(c))
    <3>1. <<c>> # <<>>
      OBVIOUS
    <3> QED
      BY Zenon, <1>2, <3>1
  <2>4. PICK t \in Seq(Digits) : Value(t) = x
    OBVIOUS
  <2> HIDE DEF Good
  <2>5. CASE t = <<>>
    <3>1. "0" \in Digits /\ Digit("0") = 0
      BY DEF Digits, Digit
    <3> QED
      BY Zenon, <2>2, <2>3, <2>4, <2>5, <3>1, ValueEmpty
  <2>6. CASE t # <<>>
    <3>1. PICK r \in Seq(Digits), c \in Digits : t = Append(r, c)
      BY Zenon, <2>6, SequenceEmptyOrAppend
    <3>2. PICK y \in Nat : y = Value(r)
      BY Zenon, <1>1
    <3>3. PICK d \in Nat : d = Digit(c) /\ d < 10
      BY Zenon, <1>2
    <3>4. x = 10 * y + d
      BY Zenon, <1>1, <1>2, <2>4, <3>1, <3>2, <3>3, ValueAppend
    <3>5. y # 0
      <4> SUFFICES ASSUME y = 0 PROVE FALSE
        BY Zenon
      <4>1. x = d
        BY <3>3, <3>4
      <4> QED
        BY Zenon, <2>2, <2>3, <3>3, <4>1
    <3>6. ~(x <= y) /\ ~(x < 10) /\ x \div 10 = y /\ x % 10 = d
      <4>1. (10 * y + d) \div 10 = y /\ (10 * y + d) % 10 = d
        BY Zenon, <3>3, LastDecimal
      <4>2. ~(10 * y + d <= y) /\ ~(10 * y + d < 10)
        BY <3>3, <3>5
      <4> QED
        BY Zenon, <3>4, <4>1, <4>2
    <3>7. Good(y)
      BY Zenon, <2>1, <3>2, <3>6
    <3>8. Unsigned[x] = Append(Unsigned[y], c)
      <4>1. Unsigned[x] = Unsigned[y] \o Unsigned[d]
        BY Zenon, <2>2, <3>6, UnsignedPrints DEF PrintedBy
      <4>2. Unsigned[y] \in Seq(Digits)
        BY Zenon, UnsignedPrints
      <4>3. Append(Unsigned[y], c) = Unsigned[y] \o <<c>>
        BY Zenon, <4>2, AppendIsConcat
      <4> QED
        BY Zenon, <1>2, <3>3, <4>1, <4>3
    <3>9. Value(Unsigned[x]) = x
      <4>1. Unsigned[y] \in Seq(Chars)
        BY Zenon, <1>1, UnsignedPrints
      <4>2. Value(Unsigned[y]) = y
        BY Zenon, <3>7 DEF Good
      <4>3. Value(Unsigned[x]) = 10 * Value(Unsigned[y]) + Digit(c)
        BY Zenon, <1>2, <3>8, <4>1, ValueAppend
      <4> QED
        BY Zenon, <3>3, <3>4, <4>2, <4>3
    <3>10. Unsigned[x] # <<>>
      <4>1. Unsigned[y] \in Seq(Digits)
        BY Zenon, UnsignedPrints
      <4>2. Append(Unsigned[y], c) # <<>>
        <5>1. \A s \in Seq(Digits) : Append(s, c) # <<>>
          <6> HIDE DEF T
          <6> QED
            BY AppendProperties, EmptySeq
        <5> QED
          BY Zenon, <4>1, <5>1
      <4> QED
        BY Zenon, <3>8, <4>2
    <3> QED
      BY Zenon, <2>2, <3>9, <3>10 DEF Good
  <2> QED
    BY <2>5, <2>6
<1>4. m \in Nat
  BY Zenon, <1>1
<1>5. Good(m)
  BY Zenon, <1>3, <1>4
<1> QED
  BY Zenon, <1>4, <1>5, UnsignedPrints

\* %d of a number that was scanned is a number with the same value.
LEMMA DecimalShows ==
  ASSUME NEW t \in Seq(Chars), Signed(t), NEW x, x = SignedValue(t)
  PROVE  /\ x \in Int /\ Decimal(x) \in Seq(Chars)
         /\ Signed(Decimal(x)) /\ SignedValue(Decimal(x)) = x
<1>1. "-" \notin Digits /\ "-" \in Chars /\ Digits \subseteq Chars
  BY DEF Digits, Chars
<1>2. Decimal(x) = IF x < 0 THEN <<"-">> \o Unsigned[-x] ELSE Unsigned[x]
  BY Zenon DEF Decimal, Unsigned
<1>3. PICK r \in Seq(Digits) : x = Value(r) \/ x = -Value(r)
  <2>1. CASE t[1] = "-"
    <3>1. Len(t) > 1 /\ \A i \in 2..Len(t) : t[i] \in Digits
      BY <1>1, <2>1, EmptySeq DEF Signed
    <3>2. Tail(t) \in Seq(Digits)
      <4>1. Tail(t) = SubSeq(t, 2, Len(t))
        BY TailIsSubSeq
      <4>2. PICK n \in Int : n = Len(t)
        OBVIOUS
      <4>3. SubSeq(t, 2, n) \in Seq(Digits)
        BY <3>1, <4>2, SubSeqProperties
      <4> QED
        BY Zenon, <4>1, <4>2, <4>3
    <3> QED
      BY Zenon, <2>1, <3>2 DEF SignedValue
  <2>2. CASE t[1] # "-"
    <3>1. \A i \in 1..Len(t) : t[i] \in Digits
      BY <2>2 DEF Signed
    <3>2. t \in Seq(Digits)
      BY <3>1
    <3> QED
      BY Zenon, <2>2, <3>2 DEF SignedValue
  <2> QED
    BY <2>1, <2>2
<1>4. PICK y \in Nat : y = Value(r)
  <2>1. r \in Seq(Chars)
    BY Zenon, <1>1, SeqMonotonic
  <2> QED
    BY Zenon, <2>1, ValueIsNat
<1>5. PICK w \in Seq(Digits) : w = Unsigned[y] /\ w # <<>> /\ Value(w) = y
  BY Zenon, <1>4, UnsignedValue
<1>6. /\ w \in Seq(Chars) /\ Len(w) \in Nat /\ Len(w) >= 1 /\ DOMAIN w = 1..Len(w)
      /\ \A i \in 1..Len(w) : w[i] \in Digits
  BY <1>1, <1>5, SeqMonotonic, EmptySeq
<1>7. CASE x >= 0
  <2>1. x = y /\ Decimal(x) = w
    BY <1>2, <1>3, <1>4, <1>5, <1>7
  <2>2. Signed(w)
    BY Zenon, <1>5, <1>6 DEF Signed
  <2>3. w[1] # "-"
    BY <1>1, <1>6
  <2>4. SignedValue(w) = y
    BY Zenon, <1>5, <2>3 DEF SignedValue
  <2> QED
    BY <1>6, <2>1, <2>2, <2>4, SMTT(20)
<1>8. CASE x < 0
  <2>1. x = -y /\ -x = y
    BY <1>3, <1>4, <1>8
  <2>2. PICK d : d = <<"-">> \o w
    BY Zenon
  <2>3. Decimal(x) = d
    BY Zenon, <1>2, <1>5, <1>8, <2>1, <2>2
  <2>4. /\ d \in Seq(Chars) /\ Len(d) = Len(w) + 1 /\ d[1] = "-"
        /\ \A i \in 2..Len(d) : d[i] = w[i - 1]
    <3>1. <<"-">> \in Seq(Chars) /\ Len(<<"-">>) = 1 /\ <<"-">>[1] = "-"
      BY <1>1
    <3>2. /\ d \in Seq(Chars) /\ Len(d) = 1 + Len(w)
          /\ \A i \in 1..1 + Len(w) : d[i] = IF i <= 1 THEN <<"-">>[i] ELSE w[i - 1]
      BY <1>6, <2>2, <3>1, ConcatProperties, SMTT(20)
    <3> QED
      BY <1>6, <3>1, <3>2
  <2>5. Tail(d) = w
    <3>1. d # <<>>
      BY <2>4, <1>6
    <3>2. /\ Tail(d) \in Seq(Chars) /\ Len(Tail(d)) = Len(d) - 1
          /\ \A i \in 1..Len(Tail(d)) : Tail(d)[i] = d[i + 1]
      BY Zenon, <2>4, <3>1, HeadTailProperties
    <3>3. \A i \in 1..Len(w) : i + 1 \in 2..Len(d) /\ (i + 1) - 1 = i
      BY <1>6, <2>4
    <3>4. Len(Tail(d)) = Len(w)
      BY <1>6, <2>4, <3>2
    <3>5. \A i \in 1..Len(w) : Tail(d)[i] = w[i]
      BY <2>4, <3>2, <3>3, <3>4
    <3> QED
      BY Zenon, <1>6, <3>2, <3>4, <3>5, SeqEqual
  <2>6. Signed(d)
    <3>1. Len(d) > 1 /\ \A i \in 2..Len(d) : d[i] \in Digits
      BY <1>6, <2>4
    <3> QED
      BY Zenon, <2>4, <3>1 DEF Signed
  <2>7. SignedValue(d) = -y
    BY Zenon, <1>5, <2>4, <2>5 DEF SignedValue
  <2> QED
    BY <2>1, <2>3, <2>4, <2>6, <2>7
<1>9. x \in Int
  BY <1>3, <1>4
<1> QED
  BY <1>7, <1>8, <1>9

-----------------------------------------------------------------------------
\* Where a text stands in another.
At(s, i, x) == i + Len(x) <= Len(s) + 1 /\ \A k \in 1..Len(x) : s[i + k - 1] = x[k]

\* The stretch is the text.
LEMMA StretchAt ==
  ASSUME NEW s \in Seq(Chars), NEW x \in Seq(Chars), NEW i \in Nat \ {0}, At(s, i, x)
  PROVE  SubSeq(s, i, i + Len(x) - 1) = x
<1> DEFINE j == i + Len(x) - 1
<1>1. PICK n \in Nat : n = Len(x)
  OBVIOUS
<1>2. i \in Int /\ j \in Int /\ j - i + 1 = n /\ \A k \in i..j : s[k] \in Chars
  BY <1>1 DEF At
<1>3. PICK t : t = SubSeq(s, i, j)
  BY Zenon
<1>4. /\ t \in Seq(Chars) /\ Len(t) = IF i <= j THEN j - i + 1 ELSE 0
      /\ \A k \in 1..j - i + 1 : t[k] = s[i + k - 1]
  BY <1>2, <1>3, SubSeqProperties, SMTT(20)
<1>5. Len(t) = n
  BY <1>1, <1>2, <1>4
<1>6. \A k \in 1..n : t[k] = x[k]
  BY Zenon, <1>1, <1>2, <1>4 DEF At
<1> QED
  BY Zenon, <1>1, <1>3, <1>4, <1>5, <1>6, SeqEqual

\* What is put together stands in the whole, and where it stood in a part.
LEMMA ConcatAt ==
  ASSUME NEW p \in Seq(Chars), NEW q \in Seq(Chars), NEW s, s = p \o q
  PROVE  /\ s \in Seq(Chars) /\ Len(s) = Len(p) + Len(q)
         /\ At(s, Len(p) + 1, q)
         /\ \A i \in Nat \ {0}, x \in Seq(Chars) : At(p, i, x) => At(s, i, x)
<1>1. PICK m \in Nat, n \in Nat : m = Len(p) /\ n = Len(q)
  OBVIOUS
<1>2. /\ s \in Seq(Chars) /\ Len(s) = m + n
      /\ \A i \in 1..m + n : s[i] = IF i <= m THEN p[i] ELSE q[i - m]
  BY <1>1, ConcatProperties
<1>3. At(s, m + 1, q)
  <2>1. ASSUME NEW k \in 1..n PROVE s[m + 1 + k - 1] = q[k]
    <3>1. PICK j \in 1..m + n : j = m + 1 + k - 1 /\ ~(j <= m) /\ j - m = k
      <4>1. m + k \in 1..m + n /\ m + k = m + 1 + k - 1 /\ ~(m + k <= m) /\ m + k - m = k
        OBVIOUS
      <4> QED
        BY <4>1
    <3>2. s[j] = q[k]
      BY Zenon, <1>2, <3>1
    <3> QED
      BY Zenon, <3>1, <3>2
  <2> QED
    BY <1>1, <1>2, <2>1 DEF At
<1>4. ASSUME NEW i \in Nat \ {0}, NEW x \in Seq(Chars), At(p, i, x) PROVE At(s, i, x)
  <2>1. ASSUME NEW k \in 1..Len(x) PROVE s[i + k - 1] = x[k]
    <3>1. i + k - 1 \in 1..m + n /\ i + k - 1 <= m
      BY <1>1, <1>4 DEF At
    <3>2. p[i + k - 1] = x[k]
      BY <1>4 DEF At
    <3> QED
      BY Zenon, <1>2, <3>1, <3>2
  <2> QED
    BY <1>1, <1>2, <1>4, <2>1, SMTT(20) DEF At
<1> QED
  BY Zenon, <1>1, <1>2, <1>3, <1>4

\* A number is not empty.
LEMMA SignedLen ==
  ASSUME NEW x \in Seq(Chars), Signed(x)
  PROVE  Len(x) >= 1
BY EmptySeq DEF Signed

\* What ParseRelease returns when it succeeds has these fields and no others.
LEMMA ParseShape ==
  ASSUME NEW s, NEW v, v = ParseRelease(s), v.ok
  PROVE  v = [ok |-> TRUE, Kernel |-> v.Kernel, Major |-> v.Major, Minor |-> v.Minor, Flavor |-> v.Flavor]
<1>1. ~NoRelease.ok
  BY Zenon DEF NoRelease
<1>2. PICK a, b, c, f : v = [ok |-> TRUE, Kernel |-> a, Major |-> b, Minor |-> c, Flavor |-> f]
  BY Zenon, <1>1 DEF ParseRelease
<1> QED
  BY Zenon, <1>2

\* Three numbers and a flavor that does not begin with a digit, put together, are
\* found again.
LEMMA ParsePrinted ==
  ASSUME NEW x \in Seq(Chars), NEW y \in Seq(Chars), NEW z \in Seq(Chars), NEW f \in Seq(Chars),
         Signed(x), Signed(y), Signed(z), f # <<>> => f[1] \notin Digits
  PROVE  ParseRelease(x \o <<".">> \o y \o <<".">> \o z \o f) =
           [ok |-> TRUE, Kernel |-> SignedValue(x), Major |-> SignedValue(y),
            Minor |-> SignedValue(z), Flavor |-> f]
<1> SUFFICES ASSUME NEW s, s = x \o <<".">> \o y \o <<".">> \o z \o f
             PROVE  ParseRelease(s) = [ok |-> TRUE, Kernel |-> SignedValue(x), Major |-> SignedValue(y),
                                       Minor |-> SignedValue(z), Flavor |-> f]
  BY Zenon
<1>1. PICK dot \in Seq(Chars) : dot = <<".">> /\ Len(dot) = 1 /\ dot[1] = "."
  <2>1. "." \in Chars
    BY DEF Chars
  <2>2. <<".">> \in Seq(Chars) /\ Len(<<".">>) = 1 /\ <<".">>[1] = "."
    BY <2>1
  <2> QED
    BY Zenon, <2>2
<1>2. "." \notin Digits
  BY DEF Digits
<1>3. PICK nx \in Nat, ny \in Nat, nz \in Nat, nf \in Nat :
        nx = Len(x) /\ ny = Len(y) /\ nz = Len(z) /\ nf = Len(f)
  OBVIOUS
<1>4. nx >= 1 /\ ny >= 1 /\ nz >= 1
  BY <1>3, SignedLen
<1>5. PICK a \in Nat \ {0}, b \in Nat \ {0}, c \in Nat \ {0}, n \in Nat :
        a = nx + 1 /\ b = a + ny /\ c = b + 1 + nz /\ n = c + nf
  <2>1. nx + 1 \in Nat \ {0} /\ nx + 1 + ny \in Nat \ {0} /\ nx + 1 + ny + 1 + nz \in Nat \ {0}
        /\ nx + 1 + ny + 1 + nz + nf \in Nat
    OBVIOUS
  <2> QED
    BY Zenon, <2>1
<1>6. /\ s \in Seq(Chars) /\ Len(s) = n
      /\ At(s, 1, x) /\ At(s, a, dot) /\ At(s, a + 1, y) /\ At(s, b + 1, dot) /\ At(s, b + 2, z)
      /\ At(s, c + 1, f)
  <2>1. PICK s1 : s1 = x \o dot
    BY Zenon
  <2>2. PICK s2 : s2 = s1 \o y
    BY Zenon
  <2>3. PICK s3 : s3 = s2 \o dot
    BY Zenon
  <2>4. PICK s4 : s4 = s3 \o z
    BY Zenon
  <2>5. s = s4 \o f
    BY Zenon, <1>1, <2>1, <2>2, <2>3, <2>4
  <2>6. \A i \in {1, a, a + 1, b + 1, b + 2} : i \in Nat \ {0}
    BY <1>5
  <2>7. At(x, 1, x)
    BY <1>3 DEF At
  <2>8. s1 \in Seq(Chars) /\ Len(s1) = a /\ At(s1, 1, x) /\ At(s1, a, dot)
    <3>1. /\ s1 \in Seq(Chars) /\ Len(s1) = Len(x) + Len(dot) /\ At(s1, Len(x) + 1, dot)
          /\ \A i \in Nat \ {0}, u \in Seq(Chars) : At(x, i, u) => At(s1, i, u)
      BY Zenon, <2>1, ConcatAt
    <3>2. Len(x) + 1 = a /\ Len(x) + Len(dot) = a
      BY Zenon, <1>1, <1>3, <1>5
    <3> QED
      BY Zenon, <2>6, <2>7, <3>1, <3>2
  <2>9. s2 \in Seq(Chars) /\ Len(s2) = b /\ At(s2, 1, x) /\ At(s2, a, dot) /\ At(s2, a + 1, y)
    <3>1. /\ s2 \in Seq(Chars) /\ Len(s2) = Len(s1) + Len(y) /\ At(s2, Len(s1) + 1, y)
          /\ \A i \in Nat \ {0}, u \in Seq(Chars) : At(s1, i, u) => At(s2, i, u)
      BY Zenon, <2>2, <2>8, ConcatAt
    <3>2. Len(s1) + 1 = a + 1 /\ Len(s1) + Len(y) = b
      BY Zenon, <1>3, <1>5, <2>8
    <3> QED
      BY Zenon, <1>1, <2>6, <2>8, <3>1, <3>2
  <2>10. /\ s3 \in Seq(Chars) /\ Len(s3) = b + 1
         /\ At(s3, 1, x) /\ At(s3, a, dot) /\ At(s3, a + 1, y) /\ At(s3, b + 1, dot)
    <3>1. /\ s3 \in Seq(Chars) /\ Len(s3) = Len(s2) + Len(dot) /\ At(s3, Len(s2) + 1, dot)
          /\ \A i \in Nat \ {0}, u \in Seq(Chars) : At(s2, i, u) => At(s3, i, u)
      BY Zenon, <2>3, <2>9, ConcatAt
    <3>2. Len(s2) + 1 = b + 1 /\ Len(s2) + Len(dot) = b + 1
      BY Zenon, <1>1, <1>5, <2>9
    <3> QED
      BY Zenon, <1>1, <2>6, <2>9, <3>1, <3>2
  <2>11. /\ s4 \in Seq(Chars) /\ Len(s4) = c
         /\ At(s4, 1, x) /\ At(s4, a, dot) /\ At(s4, a + 1, y) /\ At(s4, b + 1, dot) /\ At(s4, b + 2, z)
    <3>1. /\ s4 \in Seq(Chars) /\ Len(s4) = Len(s3) + Len(z) /\ At(s4, Len(s3) + 1, z)
          /\ \A i \in Nat \ {0}, u \in Seq(Chars) : At(s3, i, u) => At(s4, i, u)
      BY Zenon, <2>4, <2>10, ConcatAt
    <3>2. Len(s3) + 1 = b + 2 /\ Len(s3) + Len(z) = c
      BY <1>3, <1>5, <2>10
    <3> QED
      BY Zenon, <1>1, <2>6, <2>10, <3>1, <3>2
  <2> QED
    <3>1. /\ s \in Seq(Chars) /\ Len(s) = Len(s4) + Len(f) /\ At(s, Len(s4) + 1, f)
          /\ \A i \in Nat \ {0}, u \in Seq(Chars) : At(s4, i, u) => At(s, i, u)
      BY Zenon, <2>5, <2>11, ConcatAt
    <3>2. Len(s4) + Len(f) = n
      BY Zenon, <1>3, <1>5, <2>11
    <3> QED
      BY Zenon, <1>1, <2>6, <2>11, <3>1, <3>2
<1>7. /\ SubSeq(s, 1, a - 1) = x /\ SubSeq(s, a + 1, b) = y /\ SubSeq(s, b + 2, c) = z
      /\ SubSeq(s, c + 1, n) = f
  <2>1. SubSeq(s, 1, a - 1) = x
    <3>1. 1 \in Nat \ {0} /\ a - 1 = 1 + Len(x) - 1
      BY <1>3, <1>5
    <3> QED
      BY <1>6, <3>1, StretchAt, SMTT(20)
  <2>2. SubSeq(s, a + 1, b) = y
    <3>1. a + 1 \in Nat \ {0} /\ b = a + 1 + Len(y) - 1
      BY <1>3, <1>5, SMTT(20)
    <3>2. SubSeq(s, a + 1, a + 1 + Len(y) - 1) = y
      BY Zenon, <1>6, <3>1, StretchAt
    <3> QED
      BY Zenon, <3>1, <3>2
  <2>3. SubSeq(s, b + 2, c) = z
    <3>1. b + 2 \in Nat \ {0} /\ c = b + 2 + Len(z) - 1
      BY <1>3, <1>5, SMTT(20)
    <3>2. SubSeq(s, b + 2, b + 2 + Len(z) - 1) = z
      BY Zenon, <1>6, <3>1, StretchAt
    <3> QED
      BY Zenon, <3>1, <3>2
  <2>4. SubSeq(s, c + 1, n) = f
    <3>1. c + 1 \in Nat \ {0} /\ n = c + 1 + Len(f) - 1
      BY <1>3, <1>5, SMTT(20)
    <3>2. SubSeq(s, c + 1, c + 1 + Len(f) - 1) = f
      BY Zenon, <1>6, <3>1, StretchAt
    <3> QED
      BY Zenon, <3>1, <3>2
  <2> QED
    BY Zenon, <2>1, <2>2, <2>3, <2>4
<1>8. s[a] = "." /\ s[b + 1] = "." /\ (c + 1 <= n => s[c + 1] \notin Digits)
  <2>1. a + 1 - 1 = a /\ b + 1 + 1 - 1 = b + 1 /\ c + 1 + 1 - 1 = c + 1
    OBVIOUS
  <2>2. 1 \in 1..Len(dot) /\ (c + 1 <= n => 1 \in 1..Len(f) /\ f # <<>>)
    BY <1>1, <1>3, <1>5
  <2>3. s[a] = "." /\ s[b + 1] = "."
    <3>1. s[a + 1 - 1] = "." /\ s[b + 1 + 1 - 1] = "."
      BY Zenon, <1>1, <1>6, <2>2 DEF At
    <3> QED
      BY Zenon, <2>1, <3>1
  <2>4. c + 1 <= n => s[c + 1] = f[1]
    BY Zenon, <1>6, <2>1, <2>2 DEF At
  <2> QED
    BY Zenon, <2>2, <2>3, <2>4
<1>9. a \in 1..Len(s) /\ b \in 1..Len(s) /\ a < b /\ b < Len(s) /\ c \in b + 2..Len(s)
  BY <1>4, <1>5, <1>6, SMTT(20)
<1>10. <<a, b>> \in Splits(s)
  <2>1. /\ <<a, b>> \in (1..Len(s)) \X (1..Len(s))
        /\ <<a, b>>[1] = a /\ <<a, b>>[2] = b
    BY Zenon, <1>9
  <2> QED
    BY <1>2, <1>7, <1>8, <1>9, <2>1, Zenon DEF Splits
<1>11. PICK v : v = ParseRelease(s)
  BY Zenon
<1>12. v.ok /\ v.Kernel = SignedValue(x) /\ v.Major = SignedValue(y) /\ RestAsWritten(v, s, b)
  <2>1. PICK d, e \in 1..Len(s) :
          /\ Splits(s) = {<<d, e>>} /\ v.ok
          /\ v.Kernel = SignedValue(SubSeq(s, 1, d - 1))
          /\ v.Major = SignedValue(SubSeq(s, d + 1, e))
          /\ RestAsWritten(v, s, e)
    <3>1. Splits(s) # {}
      BY Zenon, <1>10
    <3> QED
      BY Zenon, <1>6, <1>11, <3>1, ParseScan
  <2>2. d = a /\ e = b
    <3>1. <<a, b>> = <<d, e>>
      BY Zenon, <1>10, <2>1
    <3> QED
      BY Zenon, <3>1
  <2> QED
    BY Zenon, <1>7, <2>1, <2>2
<1>13. v.Minor = SignedValue(z) /\ v.Flavor = f
  <2>1. PICK k \in b + 1..Len(s) + 1 :
          /\ v.Flavor = SubSeq(s, k, Len(s))
          /\ IF k = b + 1
             THEN v.Minor = 0 /\ \A e \in b + 2..Len(s) : s[b + 1] = "." => ~Signed(SubSeq(s, b + 2, e))
             ELSE /\ s[b + 1] = "." /\ Signed(SubSeq(s, b + 2, k - 1)) /\ (k <= Len(s) => s[k] \notin Digits)
                  /\ v.Minor = SignedValue(SubSeq(s, b + 2, k - 1))
    BY Zenon, <1>12 DEF RestAsWritten
  <2>2. k # b + 1
    BY Zenon, <1>7, <1>8, <1>9, <2>1
  <2>3. /\ Signed(SubSeq(s, b + 2, k - 1)) /\ (k <= Len(s) => s[k] \notin Digits)
        /\ v.Minor = SignedValue(SubSeq(s, b + 2, k - 1))
    BY Zenon, <2>1, <2>2
  <2>4. k # b + 2
    <3> SUFFICES ASSUME k = b + 2 PROVE FALSE
      BY Zenon
    <3>1. k - 1 < b + 2 /\ k - 1 \in Int /\ b + 2 \in Int
      OBVIOUS
    <3>2. SubSeq(s, b + 2, k - 1) = <<>>
      BY Zenon, <3>1, SubSeqEmpty
    <3>3. ~Signed(<<>>)
      BY EmptySeq DEF Signed
    <3> QED
      BY Zenon, <2>3, <3>2, <3>3
  <2>5. PICK i \in 1..Len(s) + 1, g \in 1..Len(s) + 1, h \in 1..Len(s) + 1 :
          i = b + 2 /\ g = k /\ h = c + 1
    <3>1. b + 2 \in 1..Len(s) + 1 /\ k \in 1..Len(s) + 1 /\ c + 1 \in 1..Len(s) + 1
      BY <1>4, <1>5, <1>6
    <3> QED
      BY Zenon, <3>1
  <2>6. i < g /\ i < h /\ h - 1 = c
    BY <1>4, <1>5, <2>2, <2>4, <2>5
  <2>7. Number(s, i, g)
    BY Zenon, <1>6, <2>3, <2>5, <2>6, SignedNumber
  <2>8. Number(s, i, h)
    BY Zenon, <1>6, <1>7, <1>8, <2>5, <2>6, SignedNumber
  <2>9. g = h
    BY Zenon, <1>6, <2>7, <2>8, NumberUnique
  <2> QED
    BY Zenon, <1>6, <1>7, <2>1, <2>3, <2>5, <2>6, <2>9
<1>14. v = [ok |-> TRUE, Kernel |-> v.Kernel, Major |-> v.Major, Minor |-> v.Minor, Flavor |-> v.Flavor]
  BY Zenon, <1>11, <1>12, ParseShape
<1> QED
  BY Zenon, <1>11, <1>12, <1>13, <1>14

\* The numbers ParseRelease returns were written somewhere, and its flavor does not
\* begin with a digit.
LEMMA ParsedParts ==
  ASSUME NEW s \in Seq(Chars), NEW v, v = ParseRelease(s), v.ok
  PROVE  /\ \E x \in Seq(Chars) : Signed(x) /\ v.Kernel = SignedValue(x)
         /\ \E x \in Seq(Chars) : Signed(x) /\ v.Major = SignedValue(x)
         /\ \E x \in Seq(Chars) : Signed(x) /\ v.Minor = SignedValue(x)
         /\ v.Flavor \in Seq(Chars) /\ (v.Flavor # <<>> => v.Flavor[1] \notin Digits)
<1>1. PICK n \in Nat : n = Len(s)
  OBVIOUS
<1>2. PICK a, b \in 1..n :
        /\ Splits(s) = {<<a, b>>}
        /\ v.Kernel = SignedValue(SubSeq(s, 1, a - 1))
        /\ v.Major = SignedValue(SubSeq(s, a + 1, b))
        /\ RestAsWritten(v, s, b)
  <2>1. ~NoRelease.ok
    BY Zenon DEF NoRelease
  <2> QED
    BY Zenon, <1>1, <2>1, ParseScan
<1>3. /\ Signed(SubSeq(s, 1, a - 1)) /\ Signed(SubSeq(s, a + 1, b))
      /\ (b < Len(s) => s[b + 1] \notin Digits)
  <2>1. <<a, b>> \in Splits(s) /\ <<a, b>>[1] = a /\ <<a, b>>[2] = b
    BY Zenon, <1>2
  <2> QED
    BY Zenon, <2>1 DEF Splits
<1>4. ASSUME NEW i \in Nat \ {0}, NEW j \in Int, j <= n
      PROVE  /\ SubSeq(s, i, j) \in Seq(Chars)
             /\ SubSeq(s, i, j) # <<>> => i <= j /\ SubSeq(s, i, j)[1] = s[i]
  <2>1. \A k \in i..j : s[k] \in Chars
    BY <1>1, <1>4
  <2>2. PICK t : t = SubSeq(s, i, j)
    BY Zenon
  <2>3. /\ t \in Seq(Chars) /\ Len(t) = IF i <= j THEN j - i + 1 ELSE 0
        /\ \A k \in 1..j - i + 1 : t[k] = s[i + k - 1]
    BY <2>1, <2>2, SubSeqProperties
  <2>4. t # <<>> => Len(t) # 0
    BY Zenon, <2>3, EmptySeq
  <2>5. t # <<>> => i <= j
    BY <2>3, <2>4
  <2>6. i <= j => t[1] = s[i]
    <3> SUFFICES ASSUME i <= j PROVE t[1] = s[i]
      BY Zenon
    <3>1. 1 \in 1..j - i + 1 /\ i + 1 - 1 = i
      OBVIOUS
    <3> QED
      BY Zenon, <2>3, <3>1
  <2> QED
    BY Zenon, <2>2, <2>3, <2>5, <2>6
<1>5. SubSeq(s, 1, a - 1) \in Seq(Chars) /\ SubSeq(s, a + 1, b) \in Seq(Chars)
  <2>1. 1 \in Nat \ {0} /\ a - 1 \in Int /\ a - 1 <= n /\ a + 1 \in Nat \ {0} /\ b \in Int /\ b <= n
    OBVIOUS
  <2> QED
    BY Zenon, <1>4, <2>1
<1>6. PICK k \in b + 1..Len(s) + 1 :
        /\ v.Flavor = SubSeq(s, k, Len(s))
        /\ IF k = b + 1
           THEN v.Minor = 0 /\ \A e \in b + 2..Len(s) : s[b + 1] = "." => ~Signed(SubSeq(s, b + 2, e))
           ELSE /\ s[b + 1] = "." /\ Signed(SubSeq(s, b + 2, k - 1)) /\ (k <= Len(s) => s[k] \notin Digits)
                /\ v.Minor = SignedValue(SubSeq(s, b + 2, k - 1))
  BY Zenon, <1>2 DEF RestAsWritten
<1>7. k \in Nat \ {0} /\ n \in Int /\ n <= n /\ b + 2 \in Nat \ {0} /\ k - 1 \in Int /\ k - 1 <= n
  BY <1>1
<1>8. k <= n => s[k] \notin Digits
  <2>1. CASE k = b + 1
    BY <1>1, <1>3, <2>1
  <2>2. CASE k # b + 1
    BY Zenon, <1>1, <1>6, <2>2
  <2> QED
    BY Zenon, <2>1, <2>2
<1>9. v.Flavor \in Seq(Chars) /\ (v.Flavor # <<>> => v.Flavor[1] \notin Digits)
  <2>1. PICK t : t = SubSeq(s, k, n)
    BY Zenon
  <2>2. t \in Seq(Chars) /\ (t # <<>> => k <= n /\ t[1] = s[k])
    BY Zenon, <1>4, <1>7, <2>1
  <2>3. v.Flavor = t
    BY Zenon, <1>1, <1>6, <2>1
  <2> QED
    BY Zenon, <1>8, <2>2, <2>3
<1>10. \E x \in Seq(Chars) : Signed(x) /\ v.Minor = SignedValue(x)
  <2>1. CASE k = b + 1
    <3>1. PICK x : x = <<"0">>
      BY Zenon
    <3>2. "0" \in Chars /\ "0" \in Digits /\ Digit("0") = 0 /\ "0" # "-"
      BY DEF Chars, Digits, Digit
    <3>3. x \in Seq(Chars) /\ x = Append(<<>>, "0") /\ x[1] = "0" /\ x # <<>> /\ DOMAIN x = {1}
      BY <3>1, <3>2
    <3>4. Signed(x)
      BY Zenon, <3>2, <3>3 DEF Signed
    <3>5. Value(x) = 10 * 0 + 0
      <4>1. <<>> \in Seq(Chars)
        BY EmptySeq
      <4> QED
        BY Zenon, <3>2, <3>3, <4>1, ValueAppend, ValueEmpty
    <3>6. SignedValue(x) = 10 * 0 + 0
      BY Zenon, <3>2, <3>3, <3>5 DEF SignedValue
    <3>7. v.Minor = SignedValue(x)
      BY <1>6, <2>1, <3>6
    <3> QED
      BY Zenon, <3>3, <3>4, <3>7
  <2>2. CASE k # b + 1
    <3>1. Signed(SubSeq(s, b + 2, k - 1)) /\ v.Minor = SignedValue(SubSeq(s, b + 2, k - 1))
      BY Zenon, <1>6, <2>2
    <3>2. SubSeq(s, b + 2, k - 1) \in Seq(Chars)
      BY Zenon, <1>4, <1>7
    <3> QED
      BY Zenon, <3>1, <3>2
  <2> QED
    BY Zenon, <2>1, <2>2
<1> QED
  BY Zenon, <1>2, <1>3, <1>5, <1>9, <1>10

\* A version that String prints and ParseRelease parses again is the same version,
\* for releases of any length: the scan stops where the printing of a number did.
THEOREM PrintedIsParsed == KernelSpec => []RoundTrip
<1>1. ASSUME release \in Seq(Chars) PROVE RoundTrip
  <2>1. PICK v : v = ParseRelease(release)
    BY Zenon
  <2> SUFFICES ASSUME v.ok PROVE ParseRelease(String(v)) = v
    BY Zenon, <2>1 DEF RoundTrip
  <2>2. /\ \E x \in Seq(Chars) : Signed(x) /\ v.Kernel = SignedValue(x)
        /\ \E x \in Seq(Chars) : Signed(x) /\ v.Major = SignedValue(x)
        /\ \E x \in Seq(Chars) : Signed(x) /\ v.Minor = SignedValue(x)
        /\ v.Flavor \in Seq(Chars) /\ (v.Flavor # <<>> => v.Flavor[1] \notin Digits)
    BY Zenon, <1>1, <2>1, ParsedParts
  <2>3. ASSUME NEW i, \E x \in Seq(Chars) : Signed(x) /\ i = SignedValue(x)
        PROVE  Decimal(i) \in Seq(Chars) /\ Signed(Decimal(i)) /\ SignedValue(Decimal(i)) = i
    BY Zenon, <2>3, DecimalShows
  <2>4. PICK x \in Seq(Chars) : x = Decimal(v.Kernel) /\ Signed(x) /\ SignedValue(x) = v.Kernel
    BY Zenon, <2>2, <2>3
  <2>5. PICK y \in Seq(Chars) : y = Decimal(v.Major) /\ Signed(y) /\ SignedValue(y) = v.Major
    BY Zenon, <2>2, <2>3
  <2>6. PICK z \in Seq(Chars) : z = Decimal(v.Minor) /\ Signed(z) /\ SignedValue(z) = v.Minor
    BY Zenon, <2>2, <2>3
  <2>7. String(v) = x \o <<".">> \o y \o <<".">> \o z \o v.Flavor
    BY Zenon, <2>4, <2>5, <2>6 DEF String
  <2>8. ParseRelease(String(v)) =
          [ok |-> TRUE, Kernel |-> v.Kernel, Major |-> v.Major, Minor |-> v.Minor, Flavor |-> v.Flavor]
    <3>1. PICK f \in Seq(Chars) : f = v.Flavor /\ (f # <<>> => f[1] \notin Digits)
      BY Zenon, <2>2
    <3>2. ParseRelease(x \o <<".">> \o y \o <<".">> \o z \o f) =
            [ok |-> TRUE, Kernel |-> SignedValue(x), Major |-> SignedValue(y),
             Minor |-> SignedValue(z), Flavor |-> f]
      <4>1. Signed(x) /\ Signed(y) /\ Signed(z)
        BY Zenon, <2>4, <2>5, <2>6
      <4>2. f # <<>> => f[1] \notin Digits
        BY Zenon, <3>1
      <4> QED
        BY <4>1, <4>2, ParsePrinted, SMTT(20)
    <3> QED
      BY Zenon, <2>4, <2>5, <2>6, <2>7, <3>1, <3>2
  <2> QED
    BY Zenon, <2>1, <2>8, ParseShape
<1> QED
  BY <1>1, ReleaseIsText, PTL

\* CheckKernelVersion compares as arithmetic does, for every release whose numbers
\* are digits to the base 1200.
THEOREM CheckIsArithmetic == KernelSpec => []CheckIsNumeric
<1>1. ASSUME release \in Seq(Chars) PROVE CheckIsNumeric
  <2>1. PICK v : v = GetKernelVersion
    BY Zenon
  <2>2. v.Kernel \in Int /\ v.Major \in Int /\ v.Minor \in Int /\ v.ok \in BOOLEAN
    <3>1. CASE v = NoRelease
      BY <3>1 DEF NoRelease
    <3>2. CASE v # NoRelease
      <4>1. v = ParseRelease(release)
        BY Zenon, <2>1, <3>2 DEF GetKernelVersion
      <4>2. v.ok
        BY Zenon, <1>1, <3>2, <4>1, ParseScan
      <4>3. \A x \in Seq(Chars) : Signed(x) => SignedValue(x) \in Int
        BY Zenon, DecimalShows
      <4>4. v.Kernel \in Int /\ v.Major \in Int /\ v.Minor \in Int
        BY Zenon, <1>1, <4>1, <4>2, <4>3, ParsedParts
      <4>5. v.ok \in BOOLEAN
        BY <4>1, <4>2, ParseShape
      <4> QED
        BY <4>4, <4>5
    <3> QED
      BY <3>1, <3>2
  <2>3. PICK p, q, r : p = v.Kernel /\ q = v.Major /\ r = v.Minor
    BY Zenon
  <2>4. ASSUME NEW k \in {0, 1, 10}, NEW major \in {0, 1, 10}, NEW minor \in {0, 1, 10},
               q >= 0, q < 1200, r >= 0, r < 1200
        PROVE  CheckKernelVersion(k, major, minor) <=>
                 v.ok /\ 1440000 * p + 1200 * q + r >= 1440000 * k + 1200 * major + minor
    <3>1. PICK w : w = [NoRelease EXCEPT !.Kernel = k, !.Major = major, !.Minor = minor]
      BY Zenon
    <3>2. w.Kernel = k /\ w.Major = major /\ w.Minor = minor
      BY <3>1 DEF NoRelease
    <3>3. CheckKernelVersion(k, major, minor) <=> v.ok /\ CompareKernelVersion(v, w) >= 0
      BY Zenon, <2>1, <3>1 DEF CheckKernelVersion
    <3>4. CompareKernelVersion(v, w) =
            IF p < k THEN -1 ELSE IF p > k THEN 1
            ELSE IF q < major THEN -1 ELSE IF q > major THEN 1
            ELSE IF r < minor THEN -1 ELSE IF r > minor THEN 1 ELSE 0
      BY Zenon, <2>3, <3>2 DEF CompareKernelVersion
    <3>5. p \in Int /\ q \in Int /\ r \in Int /\ k \in Int /\ major \in Int /\ minor \in Int
          /\ major >= 0 /\ major < 1200 /\ minor >= 0 /\ minor < 1200
      BY <2>2, <2>3
    <3>6. CompareKernelVersion(v, w) >= 0
            <=> 1440000 * p + 1200 * q + r >= 1440000 * k + 1200 * major + minor
      BY <2>4, <3>4, <3>5
    <3> QED
      BY <3>3, <3>6
  <2> QED
    BY <2>1, <2>3, <2>4 DEF CheckIsNumeric
<1> QED
  BY <1>1, ReleaseIsText, PTL
=============================================================================
