---------------------------- MODULE ConnContract ----------------------------
(***************************************************************************)
(* What the wrapper promises its users, without goroutines, mutex or       *)
(* condition variable.  A connection carries bytes until it has drained;   *)
(* then the totals are reported once, and only then is Close over.         *)
(***************************************************************************)
EXTENDS Naturals

CONSTANT Dirs

VARIABLES
  life,         \* "open", "closing", "drained", "over"
  total,        \* bytes moved per direction
  callback,     \* a report callback was given
  report        \* the totals reported: a sequence of at most one element

cvars == <<life, total, callback, report>>

CInit ==
  /\ life = "open"
  /\ total = [d \in Dirs |-> 0]
  /\ callback \in BOOLEAN
  /\ report = <<>>

\* Bytes are moved, also while I/O that was under way at Close is finishing.
Transfer ==
  /\ life \in {"open", "closing"}
  /\ total' \in [Dirs -> Nat]
  /\ \A d \in Dirs : total'[d] >= total[d]
  /\ UNCHANGED <<life, callback, report>>

StartClose == life = "open" /\ life' = "closing" /\ UNCHANGED <<total, callback, report>>

Drain == life = "closing" /\ life' = "drained" /\ UNCHANGED <<total, callback, report>>

Report ==
  /\ life = "drained" /\ callback /\ report = <<>>
  /\ report' = <<total>>
  /\ UNCHANGED <<life, total, callback>>

Finish ==
  /\ life = "drained"
  /\ callback => report # <<>>
  /\ life' = "over"
  /\ UNCHANGED <<total, callback, report>>

CNext == Transfer \/ StartClose \/ Drain \/ Report \/ Finish

CSafety == CInit /\ [][CNext]_cvars

CSpec == CSafety /\ WF_cvars(Drain) /\ WF_cvars(Report \/ Finish)
=============================================================================
