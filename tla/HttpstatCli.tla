---------------------------- MODULE HttpstatCli -----------------------------
(***************************************************************************)
(* cmd/httpstat: the command line, the request that every visit makes of   *)
(* it, and the file the body is saved to.  Httpstat models what visit      *)
(* measures and how it follows redirects; here a visit is reduced to the   *)
(* request, the kind of response, and what readResponseBody does.          *)
(***************************************************************************)
EXTENDS Integers, Sequences, FiniteSetsExt

CONSTANTS
  CommandLines,    \* records with a field per flag, and: wrong, the flags main
                   \* refuses; uri; windows, the build.  POST stands for PUT as
                   \* well, GET for every other method; d, whether there is a body
                   \* to send; H and E, whether the headers and the file can be used.
  PathNames,       \* names the server may give, and paths, as sequences of characters
  maxRedirects     \* 10 in the code

ASSUME CliAssumption == maxRedirects \in Nat /\ \A n \in PathNames : n \in Seq(STRING)

VARIABLES
  opts, pc,
  method, scheme,    \* the global httpMethod; the scheme of the URL being visited
  redirectsFollowed,
  last,              \* the kind of the last response
  files              \* names of the files created, in order

cliVars == <<opts, pc, method, scheme, redirectsFollowed, last, files>>

CliInit ==
  /\ opts \in CommandLines /\ pc = "main"
  /\ method = opts.X /\ scheme = "" /\ redirectsFollowed = 0
  /\ last = "none" /\ files = <<>>

Same == UNCHANGED <<opts, method, scheme, redirectsFollowed, last, files>>

-----------------------------------------------------------------------------
\* parseURL: without a scheme it is https, but for port 80.
Scheme(uri) ==
  IF uri.scheme # "" THEN uri.scheme ELSE IF uri.port80 THEN "http" ELSE "https"

\* The checks of main, in their order.
Verdict ==
  IF "version" \in opts.wrong THEN "exit 0"
  ELSE IF "families" \in opts.wrong THEN "exit -1"
  ELSE IF "args" \in opts.wrong THEN "exit 2"
  ELSE IF (opts.X = "POST" /\ ~opts.d) \/ opts.uri.bad THEN "fatal"
  ELSE "visit"

\* main, up to the visit.
Main ==
  /\ pc = "main" /\ pc' = Verdict
  /\ IF Verdict = "visit"
     THEN method' = (IF opts.I THEN "HEAD" ELSE method) /\ scheme' = Scheme(opts.uri)
     ELSE UNCHANGED <<method, scheme>>
  /\ UNCHANGED <<opts, redirectsFollowed, last, files>>

\* readClientCert: without -E there is none; a file can be used if its last key
\* belongs to its last certificate.
CertLoads == opts.E \in {"none", "usable"}

\* newRequest with the body of createBody and the headers; for https the client
\* certificate, if any, is loaded; then client.Do.
Send ==
  /\ pc = "visit" /\ opts.H # "malformed" /\ (scheme = "https" => CertLoads)
  /\ \E kind \in {"final", "redirect", "noLocation", "badLocation"} : last' = kind
  /\ pc' = "body" /\ UNCHANGED <<opts, method, scheme, redirectsFollowed, files>>

\* The data file cannot be opened, a header has no colon, the certificate does not
\* load, or the request fails.
SendFails == pc = "visit" /\ pc' = "fatal" /\ Same

-----------------------------------------------------------------------------
\* path.Base.
Base(p) ==
  LET named == {i \in DOMAIN p : p[i] # "/"}
      cut == SubSeq(p, 1, Max(named))
      slashes == {i \in DOMAIN cut : cut[i] = "/"}
  IN IF p = <<>> THEN <<".">> ELSE IF named = {} THEN <<"/">>
     ELSE SubSeq(cut, Max({0} \cup slashes) + 1, Len(cut))

\* Mutant: the name in the header is taken as it is.
RemoteNameRaw(header, uri) == IF header \in {<<>>, <<".">>} THEN Base(uri) ELSE header

\* The name for -O, from the Content-Disposition header or the URL.
RemoteName(header, uri) == IF Base(header) = <<".">> THEN Base(uri) ELSE Base(header)

\* What os.Create takes to separate the names of a path.
Separators == IF opts.windows THEN {"/", "\\"} ELSE {"/"}

NoName == {<<"/">>, <<".">>, <<".", ".">>}

Saving == opts.O \/ opts.o # <<>>

\* Mutant: the body of a redirect is saved as well.
SkipsHead == method = "HEAD"

SkipsBody == last # "final" \/ method = "HEAD"

\* readResponseBody: nothing is read, or the body is discarded, or it goes to a
\* file, which stays when the copy fails.
ReadBody ==
  /\ pc = "body"
  /\ \/ (SkipsBody \/ ~Saving) /\ pc' = "redirect" /\ Same
     \/ /\ ~SkipsBody /\ Saving
        /\ \E header \in PathNames, uri \in {p \in PathNames : p # <<>> /\ p[1] = "/"} :
             LET name == IF opts.O THEN RemoteName(header, uri) ELSE opts.o
             IN /\ ~(opts.O /\ name \in NoName)
                /\ files' = Append(files, name)
        /\ pc' \in {"redirect", "fatal"}
        /\ UNCHANGED <<opts, method, scheme, redirectsFollowed, last>>

\* There is no remote name, or the file cannot be created.
CreateFails == pc = "body" /\ ~SkipsBody /\ Saving /\ pc' = "fatal" /\ Same

\* The end of visit.
Follow ==
  /\ pc = "redirect"
  /\ IF opts.L /\ last = "redirect"
     THEN /\ redirectsFollowed' = redirectsFollowed + 1
          /\ pc' = IF redirectsFollowed' > maxRedirects THEN "fatal" ELSE "visit"
          /\ scheme' \in {"http", "https"}
     ELSE /\ pc' = IF opts.L /\ last = "badLocation" THEN "fatal" ELSE "over"
          /\ UNCHANGED <<scheme, redirectsFollowed>>
  /\ UNCHANGED <<opts, method, last, files>>

CliNext == Main \/ Send \/ SendFails \/ ReadBody \/ CreateFails \/ Follow

CliSpec == CliInit /\ [][CliNext]_cliVars

-----------------------------------------------------------------------------
\* However many redirects are followed, at most one file is created, for the body
\* of the last response; and a run that ends well has created it exactly if it was
\* asked to and there was a body.
SavedOnce ==
  /\ Len(files) <= 1
  /\ files # <<>> => last = "final"
  /\ pc = "over" => (Len(files) = 1 <=> (Saving /\ method # "HEAD" /\ last = "final"))

\* "path.Base both: the server gets to say what the file is called, not where it
\* lands": with -O the file has a name of its own, whatever header and URL say, and
\* where the slash is the only separator that name has none, so the file is in the
\* working directory.  Nothing of the kind is said of a build for Windows, where
\* os.Create knows a separator that path.Base does not.  With -o alone the file is
\* the user's.
SavedHere ==
  \A i \in DOMAIN files :
    IF opts.O THEN /\ files[i] # <<>> /\ files[i] \notin NoName
                   /\ opts.windows \/ Range(files[i]) \cap Separators = {}
    ELSE files[i] = opts.o

=============================================================================
