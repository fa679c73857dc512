--------------------------- MODULE WindowsVersion ---------------------------
(***************************************************************************)
(* The version of a Windows host, as the packages read it: osversion.Get,  *)
(* which fills a package variable once for all goroutines, pkg/kernel's    *)
(* GetKernelVersion, and pkg/os's GetOperatingSystem with the registry     *)
(* values it asks for.  RtlGetVersion, GetVersion and the registry are     *)
(* Windows's and do not change while the program runs.                     *)
(***************************************************************************)
EXTENDS Integers, Sequences

CONSTANTS
  Procs,    \* goroutines that call osversion.Get
  Hosts     \* versions of the host: major, minor, build, revision, workstation

\* The version fits the fields it is kept in; the revision is a DWORD of the registry.
ASSUME HostsAssumption ==
  \A h \in Hosts :
    /\ h.major \in Nat /\ h.minor \in Nat /\ h.build \in Nat /\ h.revision \in Nat
    /\ h.major < 256 /\ h.minor < 256 /\ h.build < 65536
    /\ h.revision \div 65536 < 65536

VARIABLES
  windows, reg,      \* Windows: the version, and what the registry answers
  manifested,     \* the program's manifest names this Windows
  once,           \* sync.Once: "new", "running", "done"
  osv,            \* the package variable
  pc, got         \* per goroutine: control, the result of Get

windowsVars == <<windows, reg, manifested, once, osv, pc, got>>

\* A registry value is there, is not there, or cannot be read.
RegAnswers == {"value", "absent", "error"}

Registry ==
  [open : BOOLEAN, DisplayVersion : RegAnswers, ReleaseId : RegAnswers, UBR : RegAnswers,
   BuildLabEx : RegAnswers, GetVersionFails : BOOLEAN]

NoVersion == [Version |-> 0, MajorVersion |-> 0, MinorVersion |-> 0, Build |-> 0]

-----------------------------------------------------------------------------
\* Version packs the build, the minor and the major into 32 bits.
Packed(h) == (h.build % 65536) * 65536 + h.minor * 256 + h.major

\* What Get stores, field by field, truncated to the width of the field.
Stored(h) ==
  [Version |-> Packed(h), MajorVersion |-> h.major % 256, MinorVersion |-> h.minor % 256,
   Build |-> h.build % 65536]

\* windows.GetVersion: to a program without a manifest every Windows is 6.2.9200.
GetVersion ==
  IF manifested THEN Packed(windows) ELSE Packed([major |-> 6, minor |-> 2, build |-> 9200])

Fields(dw) == [major |-> dw % 256, minor |-> (dw \div 256) % 256, build |-> dw \div 65536]

\* kernel.GetKernelVersion: an error leaves what was filled in before it.
WindowsKernelVersion ==
  LET labelled == reg.open /\ reg.BuildLabEx = "value"
      ok == labelled /\ ~reg.GetVersionFails
  IN [kvi |-> IF labelled THEN "BuildLabEx" ELSE "Unknown", err |-> ~ok,
      num |-> Fields(IF ok THEN GetVersion ELSE 0)]

\* getFirstStringValue: a name that is not there passes on to the next one, any
\* other error does not.
FirstStringValue ==
  CASE reg.DisplayVersion = "value" -> "DisplayVersion"
    [] reg.DisplayVersion = "error" -> ""
    [] reg.ReleaseId = "value" -> "ReleaseId"
    [] OTHER -> ""

\* os.GetOperatingSystem: what rel.String is made of.
OperatingSystem ==
  [IsServer |-> ~windows.workstation, Build |-> windows.build,
   DisplayVersion |-> IF reg.open THEN FirstStringValue ELSE "",
   UBR |-> IF reg.open /\ reg.UBR = "value" THEN windows.revision ELSE 0]

\* uint32(n) keeps the two low words.
Uint32(n) == ((n \div 65536) % 65536) * 65536 + (n % 65536)

\* osversion.BuildRevision.
BuildRevision ==
  IF reg.open /\ reg.UBR = "value" THEN [val |-> Uint32(windows.revision), err |-> FALSE]
  ELSE [val |-> 0, err |-> TRUE]

-----------------------------------------------------------------------------
WindowsInit ==
  /\ windows \in Hosts /\ reg \in Registry /\ manifested \in BOOLEAN
  /\ once = "new" /\ osv = NoVersion
  /\ pc = [p \in Procs |-> "call"] /\ got = [p \in Procs |-> NoVersion]

WindowsSame == UNCHANGED <<windows, reg, manifested>>
Goto(p, l) == pc' = [pc EXCEPT ![p] = l]

\* Mutant: a plain flag instead of sync.Once: the second caller does not wait.
FlaggedDo(p) ==
  /\ pc[p] = "call" /\ WindowsSame
  /\ IF once = "new" THEN once' = "running" /\ Goto(p, "fill") ELSE UNCHANGED once /\ Goto(p, "return")
  /\ UNCHANGED <<osv, got>>

\* once.Do: the first caller runs the function, the others wait until it is done.
Do(p) ==
  /\ pc[p] = "call" /\ WindowsSame
  /\ \/ once = "new" /\ once' = "running" /\ Goto(p, "fill")
     \/ once = "done" /\ UNCHANGED once /\ Goto(p, "return")
  /\ UNCHANGED <<osv, got>>

\* The function fills the package variable a field at a time: MajorVersion,
\* MinorVersion, Build, and Version last.
FillOrder == <<"MajorVersion", "MinorVersion", "Build", "Version">>

FillNext(p) ==
  /\ pc[p] = "fill" /\ osv # Stored(windows) /\ WindowsSame
  /\ LET todo == {i \in DOMAIN FillOrder : osv[FillOrder[i]] # Stored(windows)[FillOrder[i]]}
         f == FillOrder[CHOOSE i \in todo : \A j \in todo : i <= j]
     IN osv' = [osv EXCEPT ![f] = Stored(windows)[f]]
  /\ UNCHANGED <<once, pc, got>>

\* The function returns, and with it once.Do.
FillEnd(p) ==
  /\ pc[p] = "fill" /\ osv = Stored(windows) /\ WindowsSame
  /\ once' = "done" /\ Goto(p, "return") /\ UNCHANGED <<osv, got>>

\* return osv.
Return(p) ==
  /\ pc[p] = "return" /\ WindowsSame
  /\ got' = [got EXCEPT ![p] = osv] /\ Goto(p, "returned") /\ UNCHANGED <<once, osv>>

Get(p) == Do(p) \/ FillNext(p) \/ FillEnd(p) \/ Return(p)

WindowsNext == \E p \in Procs : Get(p)

WindowsSpec == WindowsInit /\ [][WindowsNext]_windowsVars

-----------------------------------------------------------------------------
\* The three ways the packages have of asking for the version give the same
\* numbers when they answer: the kernel's (from GetVersion, for a manifested
\* program), osversion's, and the operating system's name with its revision.
NumbersAgree ==
  \A p \in Procs : pc[p] = "returned" =>
    /\ (~WindowsKernelVersion.err /\ manifested) =>
         WindowsKernelVersion.num = Fields(got[p].Version)
    /\ WindowsKernelVersion.err => WindowsKernelVersion.num = [major |-> 0, minor |-> 0, build |-> 0]
    /\ Fields(got[p].Version) = [major |-> got[p].MajorVersion, minor |-> got[p].MinorVersion,
                                  build |-> got[p].Build]
    /\ OperatingSystem.Build = got[p].Build
    /\ ~BuildRevision.err => OperatingSystem.UBR = BuildRevision.val

=============================================================================
