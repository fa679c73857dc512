------------------------------ MODULE MCHosts -------------------------------
(***************************************************************************)
(* The packages that ask what host the program runs on (pkg/kernel, pkg/os *)
(* and pkg/osversion) for TLC.  They share no variable, so one at a time   *)
(* takes steps while the others stay in an initial state.                  *)
(***************************************************************************)
EXTENDS Kernel, OsRelease, OsVersion, WindowsVersion

VARIABLE part   \* which of them takes steps

mcVars == <<part, kernelVars, releaseVars, vars, windowsVars>>

KernelRests == KernelInit
ReleaseRests == ReleaseInit
CompatRests == Init /\ host = [MajorVersion |-> 10, MinorVersion |-> 0, Build |-> RS5] /\ ctr = host
WindowsRests ==
  /\ WindowsInit /\ windows.major = 10 /\ ~manifested
  /\ reg = [open |-> FALSE, DisplayVersion |-> "absent", ReleaseId |-> "absent", UBR |-> "absent",
            BuildLabEx |-> "absent", GetVersionFails |-> FALSE]

MCInit ==
  \/ part = "kernel" /\ KernelInit /\ ReleaseRests /\ CompatRests /\ WindowsRests
  \/ part = "release" /\ KernelRests /\ ReleaseInit /\ CompatRests /\ WindowsRests
  \/ part = "compat" /\ KernelRests /\ ReleaseRests /\ Init /\ WindowsRests
  \/ part = "windows" /\ KernelRests /\ ReleaseRests /\ CompatRests /\ WindowsInit

MCNext ==
  /\ UNCHANGED part
  /\ \/ part = "kernel" /\ KernelNext /\ UNCHANGED <<releaseVars, vars, windowsVars>>
     \/ part = "release" /\ ReleaseNext /\ UNCHANGED <<kernelVars, vars, windowsVars>>
     \/ part = "compat" /\ Next /\ UNCHANGED <<kernelVars, releaseVars, windowsVars>>
     \/ part = "windows" /\ WindowsNext /\ UNCHANGED <<kernelVars, releaseVars, vars>>

MCSpec == MCInit /\ [][MCNext]_mcVars

\* Lines for the two keys and another, with and without quotes and blanks inside
\* and around the value.
SomeLines ==
  {[key |-> "PRETTY_NAME", body |-> b] : b \in
     {<<>>, <<"quote", "quote">>, <<"a">>, <<"quote", "a", "blank", "b", "quote">>, <<"blank", "b", "blank">>}}
  \cup {[key |-> "VERSION_ID", body |-> b] : b \in {<<"quote", "7", "quote">>, <<"8", "quote">>}}
  \cup {[key |-> "ID", body |-> <<"c">>]}

SomeMajors == {6, 10}
OneMinor == {0}

\* The builds around each LTSC release, some between, and the last there can be.
EdgeBuilds == {RS5, LTSC2022 - 1, LTSC2022, LTSC2022 + 1, V22H2Win11, V23H2,
               LTSC2025 - 1, LTSC2025, LTSC2025 + 1, 65535}

\* The host of the comments in kernel_windows.go, and a current server.
TwoHosts ==
  {[major |-> 6, minor |-> 1, build |-> 7601, revision |-> 17592, workstation |-> TRUE],
   [major |-> 10, minor |-> 0, build |-> 20348, revision |-> 1000, workstation |-> FALSE]}
=============================================================================
