# conniver: TLA+ models and proofs

conniver wraps a `net.Conn`, counts what passes through it, samples the kernel's
TCP information when the connection is opened and closed, and hands a snapshot
of everything to a callback when it is closed. This directory holds models of
the parts of the repository where the order of events matters, the
configurations that check them with TLC, and proofs checked by TLAPS.

## Inventory

| Part | Sources | State | Operations | What is hard |
|---|---|---|---|---|
| Connection wrapper | `wrap.go` | raw connection, `closeStarted`, `closeDone`, `closeErr`, `inFlight`, statistics, samples | `WrapConn`, `Read`, `Write`, `Close`, deadline calls, `SetReconnects`, report callbacks, `ToMap`, `Warnings`, addresses | I/O in flight during `Close`, concurrent `Close` calls, condition variable and done channel, callback panics and calls back, snapshots that share pointers or the raw connection |
| tcpinfo, Linux | `pkg/tcpinfo/*linux*.go` | kernel version, 13 flags, requested length | `init`, `adaptToKernelVersion`, `GetTCPInfo`, `Unpack`, `ToInfo`, `ToMap`, `Warnings`, `Clone` | three tables (lengths, gates, layout) that must agree for every kernel; one of several system calls failing |
| tcpinfo, macOS and Windows | `tcpinfo_darwin.go`, `tcpinfo_windows.go` | none | the same | fallback between structure versions, long assignment lists, units |
| tcpinfo, common and other | `tcpinfo.go`, `tcpinfo_other.go` | none | `Clone`, `ToMap`, stubs | aliasing of option slices |
| Kernel version | `pkg/kernel` | none | `ParseRelease`, `String`, `CompareKernelVersion`, `CheckKernelVersion`, `GetKernelVersion` | boundaries, partial parses |
| Operating system names | `pkg/os` | files, registry | `GetOperatingSystem`, `GetOperatingSystemVersion` | fallbacks, quoting, partial reads |
| Windows builds | `pkg/osversion` | package variable, `sync.Once` | `Get`, `BuildRevision`, `CheckHostAndContainerCompat` | concurrent first calls, boundaries |
| httpstat | `cmd/httpstat` | redirect count, global snapshot, trace times, flags | `main`, `visit`, trace callbacks, `readResponseBody`, `Less` | the connection is closed by another goroutine; parallel connection attempts; redirects |
| get | `cmd/get` | connections of the client | one request, `CloseIdleConnections` | connections closed by other goroutines when the program ends |
| tcpdial | `examples/tcpdial` | none | dial, `GetTCPInfo`, print | nothing |

The correctness properties sought, part by part: the wrapper's closed report is
made once, after the raw close, is complete, final and detached, and every
`Close` returns with the one error; the Linux flags are exact and a field marked
`Valid` was written by the kernel; on every platform each number of the kernel
reaches its own key; parsers and checks agree with a definition by what they
mean; httpstat's redirects are bounded, the durations it prints make sense and the
one body it saves lands where it should; get reports each connection it has done
with. `PROJECT.json` lists the hazards with their lines.

The parts meet in these places.

* The wrapper calls `tcpinfo.Supported` and `GetTCPInfo`: in `Conn` these are the
  field `supported` of the setup and the results of `CollectTCPInfo`, which are
  those `TcpInfoLinux` and `TcpInfo` produce (an error alone, an info alone, or
  both).
* The wrapper calls back its user, with a second `*Conn`: `OpenSnapshot`
  composes `Conn` with users of that one, `Callback` with a callback that calls
  the wrapper again, `ConnViews` has the pointers the two share.
* httpstat and get install a callback on the wrapper: in `Httpstat` it is the
  assignment to `connConn` when the connection is closed, in `Get` the count of
  reports, which `ClosedOnce` and `ReportFinal` justify.
* `pkg/tcpinfo` compares kernel versions with `pkg/kernel`: `TcpInfoLinux` and
  `Kernel` have the same comparison.

## Modules

**Conn** is the wrapper. Each critical section of the mutex is one action;
everything done with the mutex released falls between actions. `pc[p]` says
where goroutine `p` is:

| `pc` | place in `wrap.go` |
|---|---|
| `io`, `account`, `finish` | in the raw Read or Write; before the first critical section after it; before `finishIO` |
| `collect`, `rawclose`, `detach` | `Close`: before `collectTCPInfo`, before the raw Close, before the second critical section |
| `waiting`, `woken` | asleep on `ioDrained`; woken and about to test `inFlight` again |
| `report`, `callback`, `panicking`, `signal` | before, in, unwinding from and after the callback |
| `await`, `reread` | a later `Close`: receiving from the done channel; about to read `closeErr` |
| `deadline` | in `withLiveConn`, with the mutex released |

Read and Write are one set of actions indexed by direction. Errors are
abstracted to what the code tells apart. A sample is the time it was taken.
`moved` is the only history variable: the bytes the raw connection really moved.
The raw connection may return any count with any error, may block, and may be
closed (`ExternalClose`) or given deadlines (`ExternalDeadline`) by its owner. The clock
is `time.Now().UnixNano()`, the wall clock: `Tick` moves it on and, unless the setup
says that it is `steady`, also back. A call that is refused because of the
guards (`net.ErrClosed`) changes nothing and is no action.

**ConnContract** states what users see, without goroutines: bytes are moved until
the connection has drained, the totals are reported once if there is a callback,
and only then is the close over. **ConnRefinement** maps the state of `Conn` to it.

**OpenSnapshot** extends `Conn` with the `*Conn` that the open callback receives.
`reportState` hands it the raw connection, but `snapshotLocked` leaves `ioDrained`,
`closeDone` and `reportStats` nil. The goroutines `Users` call its methods, which
are those of `wrap.go` again, the deadline calls included, which act on the raw
connection the wrapper uses; a call that would use the nil condition variable
panics, with or without giving the mutex back, as the code's `defer`s decide.

**Callback** extends `Conn` with what a closed callback may do to the wrapper: call
its `Close` or `SetReconnects`. (`Read`, `Write` and the deadline calls are refused
there and change nothing.)

**ConnViews** follows one wrapper through open and close with a heap of option
arrays, `SysInfo`s and `Info`s, and the three holders of references into it: the
wrapper's user, the open snapshot and the closed snapshot. Any holder may write
to what it can reach. `ToMap`, `Warnings` and the address methods are operators
on a holder's view.

**TcpInfoLinux** is the kernel-version logic of `pkg/tcpinfo`. `AddedIn` is
transcribed from the comments in `RawTCPInfo`, `Gated` from `Unpack`,
`tcpInfoSizes` from `init_linux.go` and `End` from the layout. The kernel is
external: it writes the fields it has that fit in the requested length.
Distribution kernels with back-ported fields are outside the model.

**TcpInfo** is everything else `pkg/tcpinfo` does, on four platforms: a sample is
requested, unpacked, converted and published. **TcpInfoLinuxBase**,
**TcpInfoDarwin** and **TcpInfoWindows** transcribe the structs, tables and
conversions of one platform each, **TcpInfoBase** what they share. The nullable fields
of Linux are two tables, of what `Unpack` puts into a field and of the key `ToMap` gives
it; which are `Valid` is that of some kernel version (`Gated`). On Windows the
request for version 1 and the one for version 0 are two actions.

**Kernel** is `pkg/kernel` on Unix. Here the data is the subject, so a release is a
sequence of characters; `fmt.Sscanf` is modelled by what it does with `%d`, a dot
and `%s`. Numbers have no width, so what is said is said of releases whose numbers fit
an `int`; `Sscanf` refuses others.

**WindowsVersion** has the three places that ask Windows for its version:
`osversion.Get` with `sync.Once` and the variable it fills field by field, the
kernel's `GetKernelVersion`, and `GetOperatingSystem` with the registry. The revision is
a registry DWORD, so that `BuildRevision`'s conversion to `uint32` loses nothing.
**OsVersion** is `CheckHostAndContainerCompat`, with hosts that are upgraded and
containers that are replaced.

**OsRelease** is the lookup of `pkg/os` on Linux: two files that are rewritten, removed,
closed or fail while they are read. A line is a key and a sequence of
characters; single and double quotes are one character.

**Httpstat** is `visit` with its redirect loop, the trace callbacks and the
connections that net/http closes in the background. Time is the number of
stamps taken in this visit. The transport and the dialer are external.
**HttpstatCli** is the rest of the program: the checks of the command line, the
visits, and the file the body is saved to. Of the headers, the data to send and the
client certificate it keeps whether they can be used. **HttpHeaders** is the order of the printed headers; `sort.Sort` is
external and stands for any sequence of swaps of elements out of order.

**Get** is `cmd/get`. net/http's client is external: it reuses idle connections,
follows redirects, and leaves a connection whose body was not read, or that the server
wants closed, to a goroutine that closes it. `CloseIdleConnections` takes the
list of idle connections and closes them one by one; a goroutine may be closing one of
them because the server ended it, and then main waits for it.

The **MC** modules give the constants values. `MCTcpInfo`, `MCHosts` and `MCCommands`
each put several modules into one run. The modules in a run share no variable, so a
variable `part`, chosen at the start, says which one takes steps while the
others rest in one of their initial states; every state of every module is
reached, and no product of unrelated states. **ConnProofs**, **ConnSampleProofs**,
**ConnUsersProofs** and **ConnViewsProofs** hold the proofs about the wrapper,
**TcpInfoProofs**, **HostProofs**, **HttpstatProofs** and **CommandProofs** those about the
other parts.

Definitions introduced by a comment that begins with "Mutant" are faulty versions of the
definition that follows. They are used to check that each property notices a
plausible mistake; no specification refers to them.

## Runs

| Run | Instance | What it shows |
|---|---|---|
| `Conn_safety` | 3 goroutines, TCP where it can and cannot be sampled, 1 byte each way | wake-up, one raw close, report final and complete, agreement of closers, samples and their errors |
| `Conn_times` | 2 goroutines, 2 bytes, 2 clock values, a clock that is set back and one that is not | first and last times |
| `ConnRefinement` | 2 goroutines, `SetDeadline`, with and without callback, fair | the contract is implemented with its liveness, every `Close` returns, winding down |
| `Callback` | 3 goroutines, reconnects 0 and 1, fair | `Close` hangs only on a callback that calls it; reconnects reported |
| `OpenSnapshot` | 1 goroutine on the wrapper, 2 on the snapshot, `SetReadDeadline`, fair | the wrapper behaves as `Conn` whatever happens to the snapshot; one panic at most; calls return unless the mutex is lost |
| `ConnViews` | 2 writes, one address, all platforms | snapshots are detached, addresses kept, maps agree |
| `TcpInfo` | 29 kernel versions, overrides between all; two non-zero fields of a struct, every options word | flags, lengths and gates; options, numbers, nullable ones included, complaints, fallback of Windows |
| `Hosts` | releases of 6 characters, os-release of 2 lines, 2 Windows hosts and goroutines, 20 versions | parsing, printing and comparing; name and version as written; Windows versions agree |
| `Httpstat` | 2 redirects, fair | durations, termination |
| `Commands` | 2 redirects, names of 3 characters, 5 headers, 4 requests | the saved file, the header order, what get reports |

Two runs end in a violation, each of a sentence in the repository:

* `TcpInfoLinux_v49`: on 4.9 the length 148 is too short, and `min_rtt`,
  `data_segs_in`, `data_segs_out` and `delivery_rate` are `Valid` but unwritten.
* `OpenSnapshot_wait`: `Close` of the open callback's snapshot does not wait for I/O
  in flight (wrap.go:289), it panics on the nil condition variable and keeps the
  mutex.

`ValidWasWritten` holds for the other versions, provided the kernel is at least as
new as the package believes it to be. Its exception, `Gaps`, names two ranges of
versions, 4.9 and 6.2 to 6.6. In the second `total_rto*`, added in 6.7, are
`Valid`, because their gate is the 6.2 flag.

**Other differences between comments and code.** These were met while modelling;
the models behave as the code does, and no run is kept for them.

* `RxErr` is not "The last receive error" (README.md:89): end of file and timeouts
  are not recorded (wrap.go:363).
* The closed report may have neither `OpenedInfo` nor an error (wrap.go:167, against
  the comment at wrap.go:110).
* `TxWindowSegs` on Windows and macOS is the peer's window in bytes, and
  `Retransmits` on Windows counts only SYNs (tcpinfo.go:27 and 28).
* `Flavor` keeps its separator (kernel.go:17), and the examples beside the fields of
  the Windows `VersionInfo` are off by one part (kernel_windows.go:15 to 17).
* A read error in os-release passes for the end of the file
  (operatingsystem_linux.go:57).
* `CloseIdleConnections` does not "trigger the closed events for all wrapped connections"
  (cmd/get/main.go:65): one whose body was left unread, as the last one's is, is
  closed by another goroutine, and main may return first.
* With keep-alives disabled it does not "Trigger connection close to gather final
  tcpinfo" either (cmd/httpstat/main.go:378): the connection is closed in the background,
  so a visit may print no statistics, or those of an earlier visit.
* "the server gets to say what the file is called, not where it lands"
  (cmd/httpstat/main.go:516) holds where the slash is the only path separator.
  `path.Base` knows no other, while `os.Create` on Windows, for which httpstat is also
  built (cmd/httpstat/README.md:22), does. `SavedHere` does not make the claim there.
* A client certificate followed by its issuer's is rejected
  (cmd/httpstat/main.go:171).

**Bounds.** Three goroutines are the least that give a closer, a second closer and
an I/O in flight together; the proofs remove this bound. One byte each way
distinguishes counted from lost, two let a first and a last transfer differ. Two clock
values let a stamp be later or earlier than the one before. One deadline call stands
for the three, which differ in the directions they set. Two users of the snapshot give
its closer and an I/O in flight or a further call; the run that ends in a violation
has three, and the proofs any number. Two
writes to the heap let one holder's change follow another's. Versions at and
next to each row cover every outcome of the comparisons. Two non-zero
fields show a field that is lost, doubled or crossed with another. Six
characters hold three numbers, or two with signs, and a rest. Two redirects let an
old connection's close come after a newer one's.

**Symmetry** over goroutines is used in runs that check invariants, never with
fairness.

**Fairness.** `Conn!Fairness`: a goroutine that can run eventually does; a Read or
Write returns once the raw connection is closed, which `net.Conn` demands; the
callback ends, by returning or by panicking. Nothing is assumed of I/O on an
open connection or of calls being made. `SFairSpec` says the same of the users of
the snapshot; `BFairSpec` demands that a callback ends only once the calls it made
have returned. `Httpstat!FairSpec`: lookup, connection and handshake end because of
the 30 and 10 second limits; the server's answer and body have no limit in the
code, and no fairness.

Deadlock is checked except where a program or its calls end (`Httpstat`, `Commands`,
`Hosts`) and where a callback may wait for itself (`Callback`).

## Proofs

The theorems hold for every value of the constants that satisfies the assumptions
named in the modules that declare them: finite sets of goroutines
(`ProcsAssumption`, `UsersAssumption`), bounds that are numbers, inputs of the right
kind (`VersionsAssumption`, `LinesAssumption`, `InputsAssumption`), and, for Windows,
major and minor versions of a byte and builds of a word, as its packed form has them,
and a revision of a double word, as the registry has it (`HostsAssumption`). The bounds of the runs (goroutines, bytes, writes to the heap,
characters of a release, lines of a file, redirects) do not apply to them.

**The wrapper.** `ConnProofs` proves `TypeCorrect`, `Inductive`, `InFlightCounted`,
`WakeupNeverLost`, `ClosesOnce`, `ReportIsFinal`, `ClosersAgree` and the action property
`OnlyWindsDown`. None of the safety properties is inductive alone. That the report
stays final, for instance, needs that nobody is inside Read or Write when the
snapshot is taken; this needs the exact count, and that `beginIO` refuses once
`closeStarted` is set; and that the snapshot is not taken twice needs that there
is one closer, which needs the relation of `closeDone` to the goroutines'
positions. `IndInv` collects these facts:

* `PhaseInv`: nobody is inside before `WrapConn` has returned;
* `CloserInv`: at most one closer, exactly while the done channel is open;
* `RawInv`: `w.Conn`, `closeErr` and the raw Close calls follow its position;
* `CountInv`: the count is exact, guards the wait, and is zero from the snapshot on;
* `ReportInv`: the closed report is the last one and equals the statistics;
* `CloseAgreement`.

Each part has a lemma with one case per action (`ControlStep`, `RawStep`,
`CountStep`, `ReportStep`, `AgreementStep`, and `TypeStep` for types);
`Inductive` combines them, and the theorems follow from it. Frame lemmas
(`ReportFrame`, `AgreementFrame`, `NoneReturned`, `DownFrame`) say which changes
cannot disturb a part, so that the cases of most actions only show their frame.

`ConnSampleProofs` adds times, samples and bytes. `StampsInv` puts the opening time
below all stamps, under a clock that is not set back; under any other only that first
and last are set together, for bytes moved, is proved. `SampleInv` follows the close-time sample from the closer's locals to
the statistics; that nobody else touches it on the way needs `IndInv`. From these
follow `StampsAreOrdered`, `SamplesBeforeClose` and `MissingSamplesExplained`.
`BytesInv` says that what the raw connection moved is what is counted and what the
goroutines still have to count; at the snapshot `CountInv` leaves nobody who has, so
`ReportIsComplete`.

`ConnUsersProofs` is about those around the wrapper. The refinement of `ConnContract`
is proved action by action: `BeginIsStart`, `AccountIsTransfer`, `DetachIsDrain`,
`CallbackIsReport` and `SignalIsFinish` map an action to the contract's step,
`WrapIsSilent` and `OthersAreSilent` to stuttering, and `WrapperKeepsContract`
combines them. That is the contract without its fairness.
`ReconnectsAreReported` holds with callbacks that call the wrapper again.
`SnapshotIsHarmless` says that the wrapper with any number of users of its open
snapshot implements `Conn!Spec`, where a close or a deadline call of theirs is one of
the owner's, so that every theorem above holds beside them.
`UsersInv` relates a panic to what is left behind by it, a mutex that stays locked or
a snapshot with nothing in flight; hence `AtMostOnePanics`.

`ConnViewsProofs` is a separation argument for a heap of any size and any number of
writes. `ViewsInv`: objects are well formed, a view refers to objects that
exist, and no two holders reach the same one. A clone consists of new objects
(`CloneOptionsFresh`, `CloneSysFresh`, `CloneInfoFresh`, `SnapshotFresh`); what is
appended to the heap or written to an object a view does not reach leaves the view as
it was (`ViewKept`, `WriteView`). `DetachedForEver` follows; `MapsAlwaysAgree` and
`AddressAlwaysKept` need `AgreeInv` and `AddrInv` besides.

**tcpinfo.** `TcpInfoProofs` proves that `AtLeast` is transitive and total, that
`tcpInfoSizes` is sorted, hence that raising all flags below the first hit is
exact (`FlagsAlwaysExact`), and that no buffer shorter than 104 bytes is decoded
although the length may be zero or stale (`BaseAlwaysWritten`). `ResultInv` ties the
last result to the version in force; with the layout of the struct (`GatedEnd`,
`SizeCovers`) follow `ValidAlwaysWritten` and `NoneWithheld`. `SampleInv` does the same for
the samples of all platforms, for `NewestIsTaken` and `TroubleIsWarned`. Two more
theorems need of a sample only that its fields are natural numbers, and so do not
depend on the two non-zero fields or the words of the run:

* `OptionsAlwaysExact`. The loop over the table is a recursive function of the number
  of options seen. It exists (`LoopExists`) and satisfies its equation (`LoopIs`).
  `Listing` is the loop's invariant: the indices of the listed options increase and
  are those whose bit is set. An option is skipped (`ListingSkips`) or appended
  (`ListingAppends`), hence `LoopLists`. `BitValues` says that `Bit` is the bit.
* `FieldsAlwaysApart`. `LinuxKeyOf`, `DarwinKey` and `WindowsKeyOf` give the key of each
  published number; for the nullable fields of Linux it is the composition of the two
  tables, which are shown to be injective (`NullableTables`, `NullableKeysApart`). `LinuxComposed` and its like compose `Unpack` and `ToMap`,
  assignment by assignment, and `SampleCarries` concludes that a key carries its field
  and nothing else. `KeyOfField` is the general fact: then a field that is zeroed changes
  its own key only, and no other field has that key. `TableComplete` says that the
  tables miss no number.

**The host.** `HostProofs` holds for all builds, releases, files and Windows versions.

* `SupportedRelease` and `CompatByCases` turn the loop over the releases into
  inequalities, from which `HostRunsAStretch`, `HostRunsPreviousLTSC` and `UpgradesKeep`
  follow.
* `OnceInv`: whoever has returned from `sync.Once` finds the variable filled in
  (`GetIsWhole`). With `PackedFields`, that packing loses nothing, follows
  `NumbersAlwaysAgree`.
* `AssignedLast` (the last line of a key wins), `TrimCuts` (what is trimmed) and
  `AnswerIsValue` (when the default stands in) give `ValuesAsWritten`.
* `ScanNumber` says where `%d` stops and what it returns, `SplitsScan` and `RestScan` what
  `ParseRelease` makes of it: `ParseIsExact`. `ValueAppend` and `UnsignedPrints` say what
  reading and printing compute, `UnsignedValue` that they are inverse, `ParsePrinted`
  that the parts of a printed version are found again: `PrintedIsParsed`.
  `CheckIsArithmetic` follows from the types of these numbers.

The values of a text and of a line are folds, and `Decimal` is a recursive function.
What they compute is proved by induction, in the form of a least counterexample
(`LeastNat`); that the functions exist, which their definitions as `CHOOSE` leave open,
is proved the same way (`ValueFolds`, `PrintsExists`, `PrintsUnique`).

**The commands.** `HttpstatProofs` holds for every `maxRedirects`. `Inv` adds to the
types how the visits, the redirect count and the lines printed are related
(`Counted`); `RedirectsAreBounded` follows. `DurationsAreSensible` has an invariant
of its own, `Timed`, about the times taken at each step. `CommandProofs` holds for all
names and any number of hops: `LessTotal` and `LessTransitive` say that `Less` is a
strict total order, and `HeadersInOrder` that a sort by it prints the documented
order; `GetInv` relates reports to connections and the idle ones to the list main
works through, for `OnlyLeftIsUnreported`; `SaveInv` the bodies saved to the visits, for
`BodySavedOnce`; and `BaseIsOneName`, that `path.Base` returns a single name, gives
`SavedInPlace`.

**Proved and in no run:** the types, `IndInv`, `InFlightExact`, `SampledBeforeClose`,
`BytesInv`, the contract without fairness, `UsersInv`, `ViewsInv`, `BaseIsWritten`,
`ResultInv`, `RunsAStretch`, `UpgradeKeeps`, `OnceInv`, `GetInv`, `RedirectsBounded`, and that
`Less` is a strict order.

**Only model-checked:**

* all liveness, and with it the fairness part of the refinements: the proof system
  does not cover it.

Every invariant that a passing run checks is also a theorem.

## Not modelled

* Formatting, JSON, colours and the wording of messages.
* `pkg/os/operatingsystem_unix.go`, which returns what the program `uname` printed, and
  `examples/tcpdial`, which has no state.
* The numbers of the congestion algorithm's block on Linux, of which `TcpInfoLinux`
  follows only whether they are there; the `socketcall` variant of the 386 build.
* `IsContainerized`, a test of each line of `/proc/1/cgroup` without state.
* Addresses and errors that snapshots share with the wrapper: they are not written
  to after they are made. The slices in a map that `ToMap` returned.
* Modelled but under no property: which registry value names the Windows release, and
  which visit's statistics httpstat prints.

## Plan

Compose `Conn` with `Httpstat` for several connections.
