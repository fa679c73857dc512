------------------------------ MODULE TcpInfo ------------------------------
(***************************************************************************)
(* pkg/tcpinfo on every platform: GetTCPInfo asks the kernel for its       *)
(* struct (raw), Unpack makes SysInfo of it, ToInfo the common Info, ToMap *)
(* the published keys, and Warnings the complaints the wrapper publishes.  *)
(*                                                                         *)
(* A sample is taken, and forgotten before the next: what the kernel says  *)
(* at one time has no bearing on what it says at another.  How a sample of *)
(* Linux succeeds or fails is the matter of TcpInfoLinux.                  *)
(***************************************************************************)
EXTENDS TcpInfoLinuxBase, TcpInfoDarwin, TcpInfoWindows

CONSTANTS
  Masks,     \* values of an options or flags word
  Codes,     \* values of a state
  Scales     \* values of a window scale

ASSUME InputsAssumption ==
  /\ Masks \subseteq 0..255 /\ Codes \subseteq 0..255 /\ Scales \subseteq 0..15

VARIABLES
  platform,  \* the build
  speaks,    \* the versions of the struct a Windows kernel knows
  step,      \* where GetTCPInfo is: "start", "v0" (Windows, second request), "done"
  raw,       \* the struct the kernel filled in
  how,       \* how it is to be read: on Linux the Valid fields, on Windows the version
  err,       \* an error was returned
  faults     \* requests that failed for a reason of the socket's

sampleVars == <<platform, speaks, step, raw, how, err, faults>>

Platforms == {"linux", "darwin", "windows", "other"}

RawFields(p) ==
  CASE p = "linux" -> LinuxFields
    [] p = "darwin" -> DarwinFields
    [] p = "windows" -> WindowsFields
    [] p = "other" -> {}

Zero(p) == [f \in RawFields(p) |-> 0]

UnpackOn(p, r, h) ==
  CASE p = "linux" -> LinuxUnpack(r, h)
    [] p = "darwin" -> DarwinUnpack(r)
    [] p = "windows" -> IF h = 1 THEN WindowsUnpackV1(r) ELSE WindowsUnpackV0(r)

ToInfoOn(p, s) ==
  CASE p = "linux" -> LinuxToInfo(s)
    [] p = "darwin" -> DarwinToInfo(s)
    [] p = "windows" -> WindowsToInfo(s)

ToMapOn(p, s) ==
  CASE p = "linux" -> LinuxToMap(s)
    [] p = "darwin" -> DarwinToMap(s)
    [] p = "windows" -> WindowsToMap(s)

SysWarnings(p, s) ==
  CASE p = "linux" -> LinuxWarnings(s)
    [] p = "darwin" -> DarwinWarnings(s)
    [] p = "windows" -> WindowsWarnings(s)

\* The part of Conn.warnings that is about one Info.
InfoWarnings(p, s) ==
  (IF ToInfoOn(p, s).Retransmits > 0 THEN {"retransmits"} ELSE {}) \cup SysWarnings(p, s)

-----------------------------------------------------------------------------
Values(f) ==
  CASE f \in {"options", "Options", "Flags"} -> Masks
    [] f \in {"state", "State"} -> Codes
    [] f \in {"SendWscale", "RecvWscale"} -> Scales
    [] f = "bitfield1" -> 0 .. 7
    [] f = "bitfield0" -> {tx + 16 * rx : tx \in Scales, rx \in Scales}
    [] OTHER -> {1}

\* The fields made of bits or standing for a name; the others are numbers.
Words == {"options", "Options", "bitfield0", "bitfield1", "SendWscale", "RecvWscale",
          "state", "State", "Flags"}

\* The kernel of the platform fills in its struct; two numbers or two words at most
\* are not zero.
Fill ==
  \E f, g \in RawFields(platform) : \E v \in Values(f), w \in Values(g) :
    /\ f \in Words <=> g \in Words
    /\ raw' = [Zero(platform) EXCEPT ![f] = v, ![g] = w]

SampleInit ==
  /\ platform \in Platforms
  /\ speaks \in IF platform = "windows" THEN {{}, {0}, {0, 1}} ELSE {{}}
  /\ step = "start" /\ raw = Zero(platform) /\ how = {} /\ err = FALSE /\ faults = 0

Kept == UNCHANGED <<platform, speaks>>

\* getsockopt succeeds: the struct is unpacked.
Sampled ==
  /\ step = "start" /\ platform \in {"linux", "darwin"}
  /\ step' = "done"
  /\ Fill
  /\ how' \in IF platform = "linux" THEN LinuxNullable ELSE {{}}
  /\ UNCHANGED <<err, faults>> /\ Kept

\* getsockopt fails on macOS, whatever the errno.
DarwinErrno ==
  /\ step = "start" /\ platform = "darwin"
  /\ step' = "done" /\ err' = TRUE /\ faults' = faults + 1
  /\ UNCHANGED <<raw, how>> /\ Kept

\* One WSAIoctl of Windows: v is answered if the kernel knows it, and may fail
\* even then; a failure goes on to the step next.
WSAIoctl(v, next, failed) ==
  \/ /\ v \in speaks
     /\ step' = "done" /\ Fill /\ how' = v
     /\ UNCHANGED <<err, faults>>
  \/ /\ step' = next /\ err' = failed
     /\ faults' = faults + (IF v \in speaks THEN 1 ELSE 0)
     /\ UNCHANGED <<raw, how>>

\* Mutant: the old version is asked for first.
WindowsV0First ==
  /\ step = "start" /\ platform = "windows" /\ Kept
  /\ WSAIoctl(0, "v0", FALSE)

\* The request for _TCP_INFO_v1, whose error is dropped.
WindowsV1 ==
  /\ step = "start" /\ platform = "windows" /\ Kept
  /\ WSAIoctl(1, "v0", FALSE)

\* The request for _TCP_INFO_v0, whose error is returned.
WindowsV0 ==
  /\ step = "v0" /\ Kept
  /\ WSAIoctl(0, "done", TRUE)

\* The build for another platform.
Unsupported ==
  /\ step = "start" /\ platform = "other"
  /\ step' = "done" /\ err' = TRUE
  /\ UNCHANGED <<raw, how, faults>> /\ Kept

\* The caller is through with the sample.
Forget ==
  /\ step = "done"
  /\ step' = "start" /\ raw' = Zero(platform) /\ how' = {} /\ err' = FALSE /\ faults' = 0
  /\ Kept

SampleNext == Sampled \/ DarwinErrno \/ WindowsV1 \/ WindowsV0 \/ Unsupported \/ Forget

SampleSpec == SampleInit /\ [][SampleNext]_sampleVars

-----------------------------------------------------------------------------
Returned == step = "done" /\ ~err
Sys == UnpackOn(platform, raw, how)
Hot == {f \in RawFields(platform) : raw[f] # 0}

\* The list names the options of the table whose bit is set in the mask, each once
\* and in the order of the table, and its window scale has the value scale.
ListsExactly(table, mask, opts, scale) ==
  LET kinds == {table[i].Kind : i \in {j \in DOMAIN table : (mask \div 2^(j - 1)) % 2 = 1}} IN
  /\ Len(opts) = Cardinality(kinds)
  /\ {opts[i].Kind : i \in DOMAIN opts} = kinds
  /\ \A i, j \in DOMAIN opts : i < j =>
       \E a, b \in DOMAIN table :
         a < b /\ table[a].Kind = opts[i].Kind /\ table[b].Kind = opts[j].Kind
  /\ \A i \in DOMAIN opts : opts[i].Value = IF opts[i].Kind = "WindowScale" THEN scale ELSE 0

\* Unpack lists an option if and only if its bit is set, in the order of the
\* table and the same for both directions, and the WindowScale of a direction
\* carries the scale of that direction, which on Linux shares a byte with the
\* other.
OptionsExact ==
  Returned /\ platform # "windows" =>
    LET table == IF platform = "linux" THEN LinuxOptions ELSE DarwinOptions
        mask  == IF platform = "linux" THEN raw.options ELSE raw.Options
        tx == IF platform = "linux" THEN raw.bitfield0 % 16 ELSE raw.SendWscale
        rx == IF platform = "linux" THEN (raw.bitfield0 - tx) \div 16 ELSE raw.RecvWscale
        info == ToInfoOn(platform, Sys) IN
    /\ ListsExactly(table, mask, Sys.TxOptions, tx) /\ ListsExactly(table, mask, Sys.RxOptions, rx)
    /\ ListsExactly(table, mask, info.TxOptions, tx) /\ ListsExactly(table, mask, info.RxOptions, rx)

\* The fields that no key of the map is about: the timestamps flag of Windows, and
\* what the kernel version or the version of the struct does not have.
Unpublished ==
  CASE platform = "linux" -> {NullableSource[n] : n \in DOMAIN NullableSource} \ how
    [] platform = "windows" -> {"TimestampsEnabled"} \cup IF how = 1 THEN {} ELSE V1Fields
    [] OTHER -> {}

Numbers == RawFields(platform) \ Words

\* Every number of the kernel's struct that the version at hand has comes out of
\* Unpack and ToMap under exactly one key, and no key is about two; a nullable field
\* of Linux that is not Valid has no key. A line of the long assignment lists that is
\* missing, or that takes another field than its own, loses one number and gives
\* another two keys.
FieldsApart ==
  Returned =>
    LET m == ToMapOn(platform, Sys)
        Keys(f) == LET m0 == ToMapOn(platform, UnpackOn(platform, [raw EXCEPT ![f] = 0], how))
                   IN  {k \in DOMAIN m : m[k] # m0[k]} IN
    /\ \A f \in Hot \cap Numbers : Cardinality(Keys(f)) = IF f \in Unpublished THEN 0 ELSE 1
    /\ \A f, g \in Hot \cap Numbers : f # g => Keys(f) \cap Keys(g) = {}

\* What the kernel counts of a connection in trouble, as far as the struct has it.
Trouble ==
  CASE platform = "linux" -> 
         {"total_retrans", "backoff"} \cup
         (how \cap {"bytes_retrans", "rcv_ooopack", "sndbuf_limited", "rwnd_limited"})
    [] platform = "darwin" -> {"TxRetransmitBytes", "TxRetransmitPackets", "RxOutOfOrderBytes"}
    [] OTHER -> {"BytesRetrans", "SynRetrans", "FastRetrans", "TimeoutEpisodes", "DupAcksIn",
                 "BytesReordered"}

\* Conn.Warnings complains of a sample exactly when a counter of trouble that the
\* kernel really filled in is not zero.
TroubleWarned ==
  Returned => (InfoWarnings(platform, Sys) # {} <=> Hot \cap Trouble # {})

\* GetTCPInfo of Windows returns the newest version the kernel knows, and fails
\* only if the kernel knows none or the socket failed the request.
NewestVersion ==
  step = "done" /\ platform = "windows" /\ faults = 0 =>
    IF speaks = {} THEN err ELSE ~err /\ \A v \in speaks : v <= how

-----------------------------------------------------------------------------
=============================================================================
