------------------------------- MODULE Kernel -------------------------------
(***************************************************************************)
(* pkg/kernel on Unix: the release that uname reports is parsed into a     *)
(* VersionInfo, which can be printed again and compared.  A release is a   *)
(* sequence of characters, since that is what ParseRelease is about: two   *)
(* digits, the dot, a sign and a letter stand for all the others.          *)
(***************************************************************************)
EXTENDS Integers, Sequences, FiniteSetsExt, Folds

CONSTANT MaxLen   \* bound: characters of a release

ASSUME MaxLenAssumption == MaxLen \in Nat

VARIABLES
  release,   \* what uname reports
  unameErr   \* whether uname fails

kernelVars == <<release, unameErr>>

Digits == {"0", "1"}

Chars == Digits \cup {".", "-", "a"}

-----------------------------------------------------------------------------
\* fmt.Sscanf, as ParseRelease uses it: %d takes a sign and as many digits as
\* there are, a dot stands for itself, %s takes the rest.  pos is where the scan
\* goes on, 0 if it failed.  Numbers have no width: what is said holds of releases
\* whose numbers fit an int, since %d fails beyond.
DigitsEnd(s, i) == Max({j \in i..Len(s) + 1 : \A k \in i..j - 1 : s[k] \in Digits})

Digit(c) == IF c = "1" THEN 1 ELSE 0

Value(s) ==
  MapThenFoldSet(LAMBDA d, n : 10 * n + d, 0, LAMBDA i : Digit(s[i]), LAMBDA w : Max(w), DOMAIN s)

Failed == [pos |-> 0, val |-> 0]

\* Mutant: a sign is not taken.
ScanUnsigned(s, i) ==
  LET end == IF i > Len(s) THEN i ELSE DigitsEnd(s, i) IN
  IF end = i THEN Failed ELSE [pos |-> end, val |-> Value(SubSeq(s, i, end - 1))]

ScanInt(s, i) ==
  LET minus == i <= Len(s) /\ s[i] = "-"
      start == IF minus THEN i + 1 ELSE i
      end   == IF start > Len(s) THEN start ELSE DigitsEnd(s, start) IN
  IF end = start THEN Failed
  ELSE [pos |-> end, val |-> (IF minus THEN -1 ELSE 1) * Value(SubSeq(s, start, end - 1))]

ScanDotInt(s, i) == IF i <= Len(s) /\ s[i] = "." THEN ScanInt(s, i + 1) ELSE Failed

\* nil, with an error.
NoRelease == [ok |-> FALSE, Kernel |-> 0, Major |-> 0, Minor |-> 0, Flavor |-> <<>>]

\* Mutant: without a third number the rest loses its separator.
ParseReleaseNoRest(s) ==
  LET kernel == ScanInt(s, 1)
      major  == IF kernel.pos = 0 THEN Failed ELSE ScanDotInt(s, kernel.pos) IN
  IF major.pos = 0 THEN NoRelease
  ELSE LET partial == SubSeq(s, major.pos, Len(s))
           minor   == ScanDotInt(partial, 1) IN
       [ok |-> TRUE, Kernel |-> kernel.val, Major |-> major.val, Minor |-> minor.val,
        Flavor |-> IF minor.pos = 0 THEN SubSeq(partial, 2, Len(partial))
                   ELSE SubSeq(partial, minor.pos, Len(partial))]

\* ParseRelease: the first two numbers are required, the third is not.
ParseRelease(s) ==
  LET kernel == ScanInt(s, 1)
      major  == IF kernel.pos = 0 THEN Failed ELSE ScanDotInt(s, kernel.pos) IN
  IF major.pos = 0 THEN NoRelease
  ELSE LET partial == SubSeq(s, major.pos, Len(s))
           minor   == ScanDotInt(partial, 1) IN
       [ok |-> TRUE, Kernel |-> kernel.val, Major |-> major.val, Minor |-> minor.val,
        Flavor |-> IF minor.pos = 0 THEN partial ELSE SubSeq(partial, minor.pos, Len(partial))]

\* %d of a number.
Decimal(n) ==
  LET Unsigned[k \in Nat] ==
        IF k < 10 THEN <<IF k = 0 THEN "0" ELSE "1">>
        ELSE Unsigned[k \div 10] \o Unsigned[k % 10] IN
  IF n < 0 THEN <<"-">> \o Unsigned[-n] ELSE Unsigned[n]

\* VersionInfo.String.
String(v) ==
  Decimal(v.Kernel) \o <<".">> \o Decimal(v.Major) \o <<".">> \o Decimal(v.Minor) \o v.Flavor

\* Mutant: a smaller major is forgiven when the minor is larger.
CompareByMinor(a, b) ==
  IF a.Kernel < b.Kernel THEN -1 ELSE IF a.Kernel > b.Kernel THEN 1
  ELSE IF a.Minor < b.Minor THEN -1 ELSE IF a.Minor > b.Minor THEN 1
  ELSE IF a.Major < b.Major THEN -1 ELSE IF a.Major > b.Major THEN 1 ELSE 0

CompareKernelVersion(a, b) ==
  IF a.Kernel < b.Kernel THEN -1 ELSE IF a.Kernel > b.Kernel THEN 1
  ELSE IF a.Major < b.Major THEN -1 ELSE IF a.Major > b.Major THEN 1
  ELSE IF a.Minor < b.Minor THEN -1 ELSE IF a.Minor > b.Minor THEN 1 ELSE 0

\* GetKernelVersion.
GetKernelVersion == IF unameErr THEN NoRelease ELSE ParseRelease(release)

\* CheckKernelVersion, whose answer is also "no" when there is an error.
CheckKernelVersion(k, major, minor) ==
  GetKernelVersion.ok /\
  CompareKernelVersion(GetKernelVersion,
    [NoRelease EXCEPT !.Kernel = k, !.Major = major, !.Minor = minor]) >= 0

-----------------------------------------------------------------------------
\* Hosts of all releases: one character more, or a uname that fails.
KernelInit == release = <<>> /\ unameErr = FALSE

NextRelease ==
  /\ Len(release) < MaxLen
  /\ \E c \in Chars : release' = Append(release, c)
  /\ unameErr' = FALSE

UnameFails == unameErr' = ~unameErr /\ UNCHANGED release

KernelNext == NextRelease \/ UnameFails

KernelSpec == KernelInit /\ [][KernelNext]_kernelVars

-----------------------------------------------------------------------------
Signed(s) ==
  \/ s # <<>> /\ \A i \in DOMAIN s : s[i] \in Digits
  \/ Len(s) > 1 /\ s[1] = "-" /\ \A i \in 2..Len(s) : s[i] \in Digits

SignedValue(s) == IF s[1] = "-" THEN -Value(Tail(s)) ELSE Value(s)

\* Behind the second number, which ends at b, stand a dot, the third number with
\* all its digits and the flavor, or, when no number follows, the flavor at once.
RestAsWritten(v, r, b) ==
  \E k \in b + 1..Len(r) + 1 :
    /\ v.Flavor = SubSeq(r, k, Len(r))
    /\ IF k = b + 1
       THEN v.Minor = 0 /\ \A e \in b + 2..Len(r) : r[b + 1] = "." => ~Signed(SubSeq(r, b + 2, e))
       ELSE /\ r[b + 1] = "." /\ Signed(SubSeq(r, b + 2, k - 1)) /\ (k <= Len(r) => r[k] \notin Digits)
            /\ v.Minor = SignedValue(SubSeq(r, b + 2, k - 1))

\* ParseRelease, against a definition by the shape of the release: it succeeds
\* exactly when the release begins with two numbers and a dot between them, and
\* takes these, with all the digits of the second; a third number is taken when
\* one follows, and nothing of the rest is lost.
ParsesNumbers ==
  LET r == release
      v == ParseRelease(release)
      Splits == {p \in (1..Len(r)) \X (1..Len(r)) :
                   /\ p[1] < p[2] /\ r[p[1]] = "."
                   /\ Signed(SubSeq(r, 1, p[1] - 1)) /\ Signed(SubSeq(r, p[1] + 1, p[2]))
                   /\ (p[2] < Len(r) => r[p[2] + 1] \notin Digits)} IN
  /\ v.ok <=> Splits # {}
  /\ \A p \in Splits :
       /\ v.Kernel = SignedValue(SubSeq(r, 1, p[1] - 1))
       /\ v.Major = SignedValue(SubSeq(r, p[1] + 1, p[2]))
       /\ RestAsWritten(v, r, p[2])

\* A version that is printed and parsed again is the same version: String and
\* ParseRelease agree on where the numbers end and the flavor begins, with and
\* without a third number.
RoundTrip ==
  LET v == ParseRelease(release) IN v.ok => ParseRelease(String(v)) = v

\* CheckKernelVersion, against arithmetic: a host passes exactly when its version
\* is known and, read as digits of one number to the base 1200, not below the one
\* asked for.
CheckIsNumeric ==
  LET v == GetKernelVersion
      Weight(k, major, minor) == 1440000 * k + 1200 * major + minor IN
  \A k, major, minor \in {0, 1, 10} :
    v.Major >= 0 /\ v.Major < 1200 /\ v.Minor >= 0 /\ v.Minor < 1200 =>
      (CheckKernelVersion(k, major, minor)
         <=> v.ok /\ Weight(v.Kernel, v.Major, v.Minor) >= Weight(k, major, minor))

-----------------------------------------------------------------------------
=============================================================================
