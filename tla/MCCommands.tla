----------------------------- MODULE MCCommands -----------------------------
(***************************************************************************)
(* The command line and the headers of httpstat, and the program get, for  *)
(* TLC.  They share no variable, so one at a time takes steps while the    *)
(* others stay in an initial state.                                        *)
(***************************************************************************)
EXTENDS HttpstatCli, HttpHeaders, Get

VARIABLE part   \* which of them takes steps

mcVars == <<part, cliVars, vars, getVars>>

Plain ==
  [wrong |-> {}, X |-> "GET", d |-> FALSE, I |-> FALSE, L |-> FALSE, O |-> FALSE, o |-> <<>>,
   H |-> "fine", E |-> "none", uri |-> [scheme |-> "", port80 |-> FALSE, bad |-> FALSE], windows |-> FALSE]

CliRests == CliInit /\ opts = Plain
HeadersRest == Init /\ names = <<>>

MCInit ==
  /\ GetInit
  /\ \/ part = "cli" /\ CliInit /\ HeadersRest
     \/ part = "headers" /\ CliRests /\ Init
     \/ part = "get" /\ CliRests /\ HeadersRest

MCNext ==
  /\ UNCHANGED part
  /\ \/ part = "cli" /\ CliNext /\ UNCHANGED <<vars, getVars>>
     \/ part = "headers" /\ Next /\ UNCHANGED <<cliVars, getVars>>
     \/ part = "get" /\ GetNext /\ UNCHANGED <<cliVars, vars>>

MCSpec == MCInit /\ [][MCNext]_mcVars

\* Every combination of the flags that decide on request and file, the other flags
\* one at a time.
SomeLines ==
  {[Plain EXCEPT !.X = x, !.d = d, !.I = i, !.L = l, !.O = s, !.o = o] :
      x \in {"GET", "POST", "HEAD"}, d \in BOOLEAN, i \in BOOLEAN, l \in BOOLEAN,
      s \in BOOLEAN, o \in {<<>>, <<"/", "a">>}}
  \cup {[Plain EXCEPT !.O = TRUE, !.L = l, !.windows = TRUE] : l \in BOOLEAN}
  \cup {[Plain EXCEPT !.wrong = w] : w \in SUBSET {"version", "families", "args"}}
  \cup {[Plain EXCEPT !.H = "malformed", !.L = TRUE]}
  \cup {[Plain EXCEPT !.E = e, !.uri = u] :
          e \in {"usable", "unusable"},
          u \in [scheme : {"", "http", "https"}, port80 : BOOLEAN, bad : BOOLEAN]}

\* Names of up to three characters.
ShortNames == UNION {[1..n -> {"/", ".", "a"}] : n \in 0..3}

\* Five header names: the server's, two that end at the first hop, two that do
\* not, with the hop-by-hop ones before, between and after the others.
FiveNames == {"Connection", "Date", "Server", "Upgrade", "Via"}
TwoHopByHop == {"Connection", "Upgrade"}
Alphabetical ==
  [n \in FiveNames |-> CASE n = "Connection" -> 1 [] n = "Date" -> 2 [] n = "Server" -> 3
                         [] n = "Upgrade" -> 4 [] OTHER -> 5]
=============================================================================
