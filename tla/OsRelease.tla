----------------------------- MODULE OsRelease ------------------------------
(***************************************************************************)
(* pkg/os on Linux: the name and the version of the distribution, read     *)
(* from os-release.  The two files are lists of lines that the             *)
(* distribution's tools rewrite; opening or reading one may fail.          *)
(* IsContainerized, a test of each line of one file, is left out.          *)
(***************************************************************************)
EXTENDS Integers, Sequences, FiniteSetsExt, Folds

CONSTANTS
  Lines,      \* lines of os-release: [key, body], the body a sequence of characters
  MaxLines    \* lines a file may have

VARIABLES etc, alt   \* /etc/os-release and /usr/lib/os-release

releaseVars == <<etc, alt>>

ASSUME LinesAssumption ==
  MaxLines \in Nat /\ \A l \in Lines : l.key \in STRING /\ l.body \in Seq(STRING)

\* Opening a file says it is there, it is not there, or fails; reading stops short
\* before line number stop (an I/O error, or a line of more than 64 KiB).
File(open, lines, stop) == [open |-> open, lines |-> lines, stop |-> stop]

Absent == File("absent", <<>>, 1)
Denied == File("denied", <<>>, 1)

-----------------------------------------------------------------------------
Trimmed == {"quote", "blank"}

\* Mutant: only the leading quotes go.
TrimLeft(s) ==
  LET keep == {i \in DOMAIN s : s[i] \notin Trimmed}
  IN IF keep = {} THEN <<>> ELSE SubSeq(s, Min(keep), Len(s))

\* strings.Trim(value, `"' `).
Trim(s) ==
  LET keep == {i \in DOMAIN s : s[i] \notin Trimmed}
  IN IF keep = {} THEN <<>> ELSE SubSeq(s, Min(keep), Max(keep))

\* The lines bufio.Scanner delivers.
Scanned(file) == SubSeq(file.lines, 1, file.stop - 1)

\* The loop: a later assignment of the key replaces an earlier one.
Assigned(lines, key) ==
  MapThenFoldSet(LAMBDA l, value : IF l.key = key THEN Trim(l.body) ELSE value, <<>>,
                 LAMBDA i : lines[i], LAMBDA w : Max(w), DOMAIN lines)

Result(val, err) == [val |-> val, err |-> err]

getValueFromOsRelease(key) ==
  LET file == IF etc.open = "absent" THEN alt ELSE etc
  IN IF file.open # "ok" THEN Result(<<>>, file.open) ELSE Result(Assigned(Scanned(file), key), "")

GetOperatingSystem ==
  LET r == getValueFromOsRelease("PRETTY_NAME")
  IN IF r.err = "" /\ r.val = <<>> THEN Result(<<"Linux">>, "") ELSE r

GetOperatingSystemVersion == getValueFromOsRelease("VERSION_ID")

-----------------------------------------------------------------------------
Bodies == UNION {[1..n -> Lines] : n \in 0..MaxLines}

ReleaseInit == etc = Absent /\ alt = Absent

\* The distribution writes a file, removes it or closes it to us; or reading it
\* begins to fail.
RewriteEtc ==
  /\ \/ \E b \in Bodies : \E stop \in 1..Len(b) + 1 : etc' = File("ok", b, stop)
     \/ etc' \in {Absent, Denied}
  /\ UNCHANGED alt

RewriteAlt ==
  /\ \/ \E l \in Lines : alt' = File("ok", <<l>>, 2)
     \/ alt' \in {Absent, Denied}
  /\ UNCHANGED etc

ReleaseNext == RewriteEtc \/ RewriteAlt

ReleaseSpec == ReleaseInit /\ [][ReleaseNext]_releaseVars

-----------------------------------------------------------------------------
AllTrimmed(s) == \A i \in DOMAIN s : s[i] \in Trimmed

Answer(key) == IF key = "PRETTY_NAME" THEN GetOperatingSystem ELSE GetOperatingSystemVersion

Default(key) == IF key = "PRETTY_NAME" THEN <<"Linux">> ELSE <<>>

\* GetOperatingSystem and GetOperatingSystemVersion answer with what the last
\* assignment of their key says, of those the read delivers: quotes and blanks are
\* taken off both ends, and nothing more. The default stands for no assignment and
\* for one with nothing but quotes and blanks.
ValueAsWritten ==
  \A key \in {"PRETTY_NAME", "VERSION_ID"} :
    LET r == Answer(key)
        file == IF etc.open = "absent" THEN alt ELSE etc
        at == {i \in DOMAIN Scanned(file) : file.lines[i].key = key}
        body == file.lines[Max(at)].body
    IN r.err = "" =>
         IF at = {} THEN r.val = Default(key)
         ELSE IF AllTrimmed(body) THEN r.val = Default(key)
         ELSE /\ \E m, n \in 0..Len(body) :
                   /\ m + Len(r.val) + n = Len(body)
                   /\ body = SubSeq(body, 1, m) \o r.val \o SubSeq(body, Len(body) - n + 1, Len(body))
                   /\ AllTrimmed(SubSeq(body, 1, m))
                   /\ AllTrimmed(SubSeq(body, Len(body) - n + 1, Len(body)))
              /\ Head(r.val) \notin Trimmed /\ r.val[Len(r.val)] \notin Trimmed
=============================================================================
