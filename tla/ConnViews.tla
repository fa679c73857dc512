----------------------------- MODULE ConnViews ------------------------------
(***************************************************************************)
(* What a user of the wrapper is given to look at: the wrapper's own       *)
(* exported fields, the snapshots handed to the callback, and the results  *)
(* of ToMap, Warnings and the address methods.  Info and SysInfo are       *)
(* pointers and the options are slices, so the module has a heap: whether  *)
(* a snapshot is detached is a matter of which objects Clone copies.       *)
(*                                                                         *)
(* The statistics, and the interleavings of Close with other calls, are    *)
(* the matter of Conn; here one goroutine opens, uses and closes the       *)
(* wrapper, and any holder may write to what it holds in between.          *)
(***************************************************************************)
EXTENDS Integers, Sequences, FiniteSets

CONSTANTS
  Addrs,        \* addresses a raw connection can report
  MaxChanges    \* bound: writes by the holders

ASSUME AddrsAssumption == "nil" \notin Addrs

ASSUME MaxChangesAssumption == MaxChanges \in Nat

VARIABLES
  platform,   \* decides what SysInfo holds and what its Clone copies
  emitOpen,   \* WithEmitOpenCallback(true)
  step,       \* "new", "open", "closed"
  heap,       \* the objects: option arrays, SysInfos, Infos; nil is 0
  rawAddr,    \* what the raw connection's LocalAddr returns
  views,      \* the holders: "wrapper", "opened" and "closed" (snapshots)
  seen,       \* for each holder what it had when it got it
  touched,    \* the holders that wrote to what they hold
  wrapAddr    \* the raw connection's address when it was wrapped

vars == <<platform, emitOpen, step, heap, rawAddr, views, seen, touched, wrapAddr>>

Holders == {"wrapper", "opened", "closed"}

nil == 0

\* The fields of *Conn a view shows; conn says whether w.Conn is set.
NoView == [conn |-> FALSE, addr |-> "nil", OpenedInfo |-> nil, ClosedInfo |-> nil,
           infoErr |-> FALSE, reconnects |-> 0]

-----------------------------------------------------------------------------
\* A heap with one more object; its reference is the length of the heap.
New(h, obj) == [heap |-> Append(h, obj), ref |-> Len(h) + 1]

\* cloneOptions: appending no options to a nil slice leaves it nil.
CloneOptions(h, o) ==
  IF o = nil THEN [heap |-> h, ref |-> nil]
  ELSE IF h[o].val = "empty" THEN [heap |-> h, ref |-> nil]
  ELSE New(h, h[o])

\* Mutant: the struct is copied and the slices in it are shared.
ShallowSysClone(h, s) == IF s = nil THEN [heap |-> h, ref |-> nil] ELSE New(h, h[s])

\* SysInfo.Clone: the one of Windows has no slices to copy.
CloneSys(h, s) ==
  IF s = nil THEN [heap |-> h, ref |-> nil]
  ELSE LET tx == CloneOptions(h, h[s].tx)
           rx == CloneOptions(tx.heap, h[s].rx) IN
       New(rx.heap, [h[s] EXCEPT !.tx = tx.ref, !.rx = rx.ref])

\* Info.Clone.
CloneInfo(h, i) ==
  IF i = nil THEN [heap |-> h, ref |-> nil]
  ELSE LET tx  == CloneOptions(h, h[i].tx)
           rx  == CloneOptions(tx.heap, h[i].rx)
           sys == CloneSys(rx.heap, h[i].sys) IN
       New(sys.heap, [h[i] EXCEPT !.tx = tx.ref, !.rx = rx.ref, !.sys = sys.ref])

\* Unpack and ToInfo: the Info shares the slices of the SysInfo it points to.
\* With no options Linux leaves both slices nil, macOS only the second.
Sample(h, options, retransmits) ==
  LET tx == IF platform = "windows" \/ (platform = "linux" /\ options = "empty")
            THEN [heap |-> h, ref |-> nil] ELSE New(h, [val |-> options])
      rx == IF platform = "windows" \/ options = "empty"
            THEN [heap |-> tx.heap, ref |-> nil] ELSE New(tx.heap, [val |-> options])
      sys == New(rx.heap, [tx |-> tx.ref, rx |-> rx.ref, val |-> retransmits]) IN
  New(sys.heap, [tx |-> IF platform = "windows" THEN nil ELSE tx.ref,
                 rx |-> IF platform = "windows" THEN nil ELSE rx.ref,
                 sys |-> sys.ref, val |-> retransmits])

\* collectTCPInfo: a sample, a failure, or a sample with an error.
Collected ==
  {[heap |-> heap, ref |-> nil, err |-> e] : e \in BOOLEAN} \cup
  {[heap |-> s.heap, ref |-> s.ref, err |-> e] :
     s \in {Sample(heap, o, r) : o \in {"empty", "some"}, r \in {"quiet", "lossy"}},
     e \in BOOLEAN}

\* applyTCPInfoLocked.
Apply(v, field, c) ==
  [v EXCEPT ![field] = IF c.ref # nil THEN c.ref ELSE @,
            !.infoErr = IF c.ref # nil \/ c.err THEN c.err ELSE @]

\* Mutant: the raw connection is asked first.
LiveAddrFirst(v) == IF v.conn THEN rawAddr ELSE v.addr

\* localAddrLocked and remoteAddrLocked.
AddrLocked(v) == IF v.addr # "nil" THEN v.addr ELSE IF v.conn THEN rawAddr ELSE "nil"

\* snapshotLocked on the view v, in the heap h.
SnapshotLocked(h, v) ==
  LET opened == CloneInfo(h, v.OpenedInfo)
      closed == CloneInfo(opened.heap, v.ClosedInfo) IN
  [heap |-> closed.heap,
   view |-> [v EXCEPT !.conn = FALSE, !.addr = AddrLocked(v),
                      !.OpenedInfo = opened.ref, !.ClosedInfo = closed.ref]]

-----------------------------------------------------------------------------
\* What can be read through a reference; a nil and an empty slice read alike.
OptionsAt(h, o) == IF o = nil THEN "empty" ELSE h[o].val

InfoAt(h, i) ==
  IF i = nil THEN [val |-> "none"]
  ELSE [val |-> h[i].val, tx |-> OptionsAt(h, h[i].tx), rx |-> OptionsAt(h, h[i].rx),
        sysVal |-> h[h[i].sys].val,
        sysTx |-> OptionsAt(h, h[h[i].sys].tx), sysRx |-> OptionsAt(h, h[h[i].sys].rx)]

Contents(h, v) == <<InfoAt(h, v.OpenedInfo), InfoAt(h, v.ClosedInfo)>>

\* The objects a holder of the view can write to.
Reach(h, v) ==
  (UNION {{i, h[i].tx, h[i].rx, h[i].sys, h[h[i].sys].tx, h[h[i].sys].rx} :
            i \in {v.OpenedInfo, v.ClosedInfo} \ {nil}}) \ {nil}

\* Conn.warnings: the reconnects, then for each Info its own and the system's.
Warnings(h, v) ==
  LET One(i) == IF i = nil THEN <<>>
                ELSE (IF h[i].val = "lossy" THEN <<"retransmits">> ELSE <<>>) \o
                     (IF h[h[i].sys].val = "lossy" THEN <<"sys">> ELSE <<>>) IN
  (IF v.reconnects > 0 THEN <<"reconnects">> ELSE <<>>) \o
    One(v.OpenedInfo) \o One(v.ClosedInfo)

\* addrString, as the methods (fallback "unknown") and ToMap (fallback "") call it.
AddrString(v, fallback) == IF AddrLocked(v) = "nil" THEN fallback ELSE AddrLocked(v)

\* ToMap, where a key that is left out has the value "absent".
ToMap(h, v) ==
  [reconnects |-> v.reconnects, localAddr |-> AddrString(v, ""), warnings |-> Warnings(h, v),
   infoErr |-> IF v.infoErr THEN "present" ELSE "absent",
   openedInfo |-> InfoAt(h, v.OpenedInfo), closedInfo |-> InfoAt(h, v.ClosedInfo)]

-----------------------------------------------------------------------------
Init ==
  /\ platform \in {"linux", "darwin", "windows"} /\ emitOpen \in BOOLEAN
  /\ step = "new" /\ heap = <<>>
  /\ rawAddr \in Addrs \cup {"nil"} /\ wrapAddr = "nil"
  /\ views = [a \in Holders |-> NoView]
  /\ seen = [a \in Holders |-> Contents(<<>>, NoView)]
  /\ touched = {}

Same == UNCHANGED <<platform, emitOpen>>

\* WrapConnWithContext: the addresses, the first sample, and the snapshot of the
\* open callback, which is also given the raw connection.
WrapConn ==
  /\ step = "new" /\ step' = "open" /\ wrapAddr' = rawAddr
  /\ \E c \in Collected :
       LET w == Apply([NoView EXCEPT !.conn = TRUE, !.addr = rawAddr], "OpenedInfo", c)
           s == SnapshotLocked(c.heap, w) IN
       IF emitOpen
       THEN /\ heap' = s.heap
            /\ views' = [views EXCEPT !["wrapper"] = w, !["opened"] = [s.view EXCEPT !.conn = TRUE]]
            /\ seen' = [seen EXCEPT !["wrapper"] = Contents(c.heap, w),
                                    !["opened"] = Contents(c.heap, w)]
       ELSE /\ heap' = c.heap
            /\ views' = [views EXCEPT !["wrapper"] = w]
            /\ seen' = [seen EXCEPT !["wrapper"] = Contents(c.heap, w)]
  /\ UNCHANGED <<rawAddr, touched>> /\ Same

\* Mutant: the snapshot is taken before the last sample is applied.
SnapshotThenApply(w, c) ==
  LET v == [w EXCEPT !.conn = FALSE] IN
  [wrapper |-> Apply(v, "ClosedInfo", c), snap |-> SnapshotLocked(c.heap, v)]

\* The end of Close: w.Conn is cleared before the snapshot is taken.
Finish(w, c) ==
  LET v == Apply([w EXCEPT !.conn = FALSE], "ClosedInfo", c) IN
  [wrapper |-> v, snap |-> SnapshotLocked(c.heap, v)]

\* Close.
Close ==
  /\ step = "open" /\ step' = "closed"
  /\ \E c \in Collected :
       LET f == Finish(views["wrapper"], c) IN
       /\ heap' = f.snap.heap
       /\ views' = [views EXCEPT !["wrapper"] = f.wrapper, !["closed"] = f.snap.view]
       /\ seen' = [seen EXCEPT !["wrapper"][2] = InfoAt(c.heap, f.wrapper.ClosedInfo),
                               !["closed"] = Contents(c.heap, f.wrapper)]
  /\ UNCHANGED <<rawAddr, touched, wrapAddr>> /\ Same

\* SetReconnects; after Close it is no longer reported.
SetReconnects ==
  /\ step # "new" /\ views["wrapper"].reconnects = 0
  /\ views' = [views EXCEPT !["wrapper"].reconnects = 1]
  /\ touched' = IF step = "closed" THEN touched \cup {"wrapper"} ELSE touched
  /\ UNCHANGED <<step, heap, rawAddr, seen, wrapAddr>> /\ Same

\* The raw connection learns or forgets its address.
RawAddrChanges ==
  /\ rawAddr' \in Addrs \cup {"nil"}
  /\ UNCHANGED <<step, heap, views, seen, touched, wrapAddr>> /\ Same

\* A holder writes to an object within its reach; an empty slice has no element
\* to write to.
Change(a, o) ==
  /\ heap[o].val # "empty"
  /\ Cardinality({x \in DOMAIN heap : heap[x].val = "changed"}) < MaxChanges
  /\ heap' = [heap EXCEPT ![o].val = "changed"]
  /\ touched' = touched \cup {a}
  /\ UNCHANGED <<step, rawAddr, views, seen, wrapAddr>> /\ Same

Next ==
  \/ WrapConn \/ Close \/ SetReconnects \/ RawAddrChanges
  \/ \E a \in Holders : \E o \in Reach(heap, views[a]) : Change(a, o)

Spec == Init /\ [][Next]_vars

-----------------------------------------------------------------------------
\* A holder that writes nothing goes on reading what it was given, whatever the
\* others write: a snapshot is detached from the wrapper, from the other snapshot
\* and from the sample it was made of, and it says what the wrapper said.
Detached ==
  \A a \in Holders \ touched : Contents(heap, views[a]) = seen[a]

\* The holders that have been given something.
Got ==
  (IF step = "new" THEN {} ELSE {"wrapper"} \cup IF emitOpen THEN {"opened"} ELSE {}) \cup
  (IF step = "closed" THEN {"closed"} ELSE {})

\* An address that the raw connection knew when it was wrapped is what the
\* wrapper and both snapshots give for ever, whatever the raw connection says
\* later or once it is closed.
AddressKept ==
  wrapAddr # "nil" => \A a \in Got : AddrString(views[a], "unknown") = wrapAddr

\* After Close, the wrapper's ToMap and that of the snapshot in the callback say
\* the same: infos, warnings, error, address and reconnects.
MapsAgree ==
  step = "closed" /\ touched \cap {"wrapper", "closed"} = {} =>
    ToMap(heap, views["wrapper"]) = ToMap(heap, views["closed"])
=============================================================================
