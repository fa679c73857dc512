-------------------------- MODULE ConnViewsProofs ---------------------------
(***************************************************************************)
(* Proofs about ConnViews, for every set of addresses and every number of  *)
(* writes by the holders.  The heart is a separation argument: what two    *)
(* holders can reach never overlaps, because Clone returns only objects    *)
(* that were not in the heap before.                                       *)
(***************************************************************************)
EXTENDS ConnViews, SequenceTheorems, TLAPS

\* The objects of the heap.
Counts == {"quiet", "lossy", "changed"}
SliceObj == [val : {"empty", "some", "changed"}]
SysObj == [tx : Nat, rx : Nat, val : Counts]
InfoObj == [tx : Nat, rx : Nat, sys : Nat, val : Counts]
Obj == SliceObj \cup SysObj \cup InfoObj

\* A reference to a slice, a SysInfo or an Info whose own references are sound.
IsSlice(h, o) == o = nil \/ (o \in DOMAIN h /\ h[o] \in SliceObj)
IsSys(h, s) ==
  s \in DOMAIN h /\ h[s] \in SysObj /\ IsSlice(h, h[s].tx) /\ IsSlice(h, h[s].rx)
IsInfo(h, i) ==
  /\ i \in DOMAIN h /\ h[i] \in InfoObj
  /\ IsSlice(h, h[i].tx) /\ IsSlice(h, h[i].rx) /\ IsSys(h, h[i].sys)

\* The objects that can be reached from an Info.
Foot(h, i) ==
  {i, h[i].tx, h[i].rx, h[i].sys, h[h[i].sys].tx, h[h[i].sys].rx} \ {nil}

\* The heap g has the objects of the heap h, and perhaps more.
Grown(h, g) == Len(h) <= Len(g) /\ \A x \in DOMAIN h : g[x] = h[x]

\* A reference to an object that is not in the heap h.
Fresh(h, o) == o = nil \/ o > Len(h)

\* A heap that has grown from one that has is a heap that has grown.
LEMMA GrownOn ==
  ASSUME NEW h \in Seq(Obj), NEW g \in Seq(Obj), NEW k \in Seq(Obj), Grown(h, g), Grown(g, k)
  PROVE  Grown(h, k)
BY DEF Grown

\* New adds the object behind all others.
LEMMA NewGrows ==
  ASSUME NEW h \in Seq(Obj), NEW obj \in Obj
  PROVE  /\ New(h, obj).heap \in Seq(Obj) /\ Grown(h, New(h, obj).heap)
         /\ New(h, obj).ref = Len(h) + 1
         /\ New(h, obj).ref \in DOMAIN New(h, obj).heap
         /\ New(h, obj).heap[New(h, obj).ref] = obj
<1> HIDE DEF Obj
<1>1. New(h, obj).heap = Append(h, obj) /\ New(h, obj).ref = Len(h) + 1
  BY DEF New
<1>2. Append(h, obj) \in Seq(Obj) /\ Len(Append(h, obj)) = Len(h) + 1
      /\ \A x \in DOMAIN h : Append(h, obj)[x] = h[x]
  OBVIOUS
<1>3. Append(h, obj)[Len(h) + 1] = obj
  OBVIOUS
<1> QED
  BY <1>1, <1>2, <1>3 DEF Grown

\* A slice stays what it is when the heap grows.
LEMMA SliceKept ==
  ASSUME NEW h \in Seq(Obj), NEW g \in Seq(Obj), Grown(h, g), NEW o, IsSlice(h, o)
  PROVE  IsSlice(g, o) /\ OptionsAt(g, o) = OptionsAt(h, o)
BY DEF Grown, IsSlice, OptionsAt

\* So does a SysInfo.
LEMMA SysKept ==
  ASSUME NEW h \in Seq(Obj), NEW g \in Seq(Obj), Grown(h, g), NEW s, IsSys(h, s)
  PROVE  IsSys(g, s) /\ g[s] = h[s]
<1>1. s \in DOMAIN g /\ g[s] = h[s]
  BY DEF Grown, IsSys
<1> QED
  BY <1>1, SliceKept DEF IsSys

\* And so does an Info: it is sound, reads alike and reaches the same old objects.
LEMMA InfoKept ==
  ASSUME NEW h \in Seq(Obj), NEW g \in Seq(Obj), Grown(h, g), NEW i, IsInfo(h, i)
  PROVE  /\ IsInfo(g, i) /\ InfoAt(g, i) = InfoAt(h, i)
         /\ Foot(g, i) = Foot(h, i) /\ Foot(h, i) \subseteq DOMAIN h
<1>1. i \in DOMAIN g /\ g[i] = h[i]
  BY DEF Grown, IsInfo
<1>2. IsSys(g, h[i].sys) /\ g[h[i].sys] = h[h[i].sys] /\ IsSys(h, h[i].sys)
  BY SysKept DEF IsInfo
<1>3. IsInfo(g, i)
  BY <1>1, <1>2, SliceKept DEF IsInfo
<1>4. /\ OptionsAt(g, h[i].tx) = OptionsAt(h, h[i].tx)
      /\ OptionsAt(g, h[i].rx) = OptionsAt(h, h[i].rx)
      /\ OptionsAt(g, h[h[i].sys].tx) = OptionsAt(h, h[h[i].sys].tx)
      /\ OptionsAt(g, h[h[i].sys].rx) = OptionsAt(h, h[h[i].sys].rx)
  BY <1>2, SliceKept DEF IsInfo, IsSys
<1>5. InfoAt(g, i) = InfoAt(h, i)
  BY <1>1, <1>2, <1>4 DEF InfoAt
<1>6. Foot(g, i) = Foot(h, i)
  BY <1>1, <1>2 DEF Foot
<1>7. Foot(h, i) \subseteq DOMAIN h
  BY <1>2 DEF Foot, IsInfo, IsSys, IsSlice
<1> QED
  BY <1>3, <1>5, <1>6, <1>7

-----------------------------------------------------------------------------
\* cloneOptions returns a slice of its own that reads alike.
LEMMA CloneOptionsFresh ==
  ASSUME NEW h \in Seq(Obj), NEW o, IsSlice(h, o)
  PROVE  LET c == CloneOptions(h, o) IN
         /\ c.heap \in Seq(Obj) /\ Grown(h, c.heap)
         /\ IsSlice(c.heap, c.ref) /\ Fresh(h, c.ref) /\ c.ref \in Nat
         /\ OptionsAt(c.heap, c.ref) = OptionsAt(h, o)
<1> DEFINE c == CloneOptions(h, o)
<1>1. CASE o = nil \/ OptionsAt(h, o) = "empty"
  <2>1. c.heap = h /\ c.ref = nil
    BY <1>1 DEF CloneOptions, OptionsAt
  <2> QED
    BY <1>1, <2>1 DEF Grown, IsSlice, Fresh, OptionsAt, nil
<1>2. CASE o # nil /\ OptionsAt(h, o) # "empty"
  <2>1. c = New(h, h[o]) /\ h[o] \in SliceObj /\ h[o] \in Obj
    BY <1>2 DEF CloneOptions, OptionsAt, IsSlice, Obj
  <2>2. /\ c.heap \in Seq(Obj) /\ Grown(h, c.heap) /\ c.ref = Len(h) + 1
        /\ c.ref \in DOMAIN c.heap /\ c.heap[c.ref] = h[o]
    BY <2>1, NewGrows
  <2> HIDE DEF c
  <2>3. c.ref # nil /\ c.ref > Len(h) /\ c.ref \in Nat
    BY <2>2 DEF nil
  <2> QED
    BY <1>2, <2>1, <2>2, <2>3 DEF IsSlice, Fresh, OptionsAt, c
<1> QED
  BY <1>1, <1>2

\* A SysInfo made of fresh slices is fresh as a whole.
LEMMA SysMade ==
  ASSUME NEW h \in Seq(Obj), NEW g \in Seq(Obj), Grown(h, g), NEW obj \in SysObj,
         IsSlice(g, obj.tx), IsSlice(g, obj.rx)
  PROVE  LET c == New(g, obj) IN
         /\ c.heap \in Seq(Obj) /\ Grown(h, c.heap) /\ Grown(g, c.heap)
         /\ IsSys(c.heap, c.ref) /\ c.heap[c.ref] = obj
         /\ c.ref \in Nat /\ c.ref > Len(h) /\ c.ref # nil
<1> DEFINE c == New(g, obj)
<1>1. /\ c.heap \in Seq(Obj) /\ Grown(g, c.heap) /\ c.ref = Len(g) + 1
      /\ c.ref \in DOMAIN c.heap /\ c.heap[c.ref] = obj
  BY NewGrows DEF Obj
<1> HIDE DEF c
<1>2. Grown(h, c.heap)
  BY <1>1, GrownOn
<1>3. IsSlice(c.heap, obj.tx) /\ IsSlice(c.heap, obj.rx)
  BY <1>1, SliceKept
<1>4. c.ref \in Nat /\ c.ref > Len(h) /\ c.ref # nil
  BY <1>1 DEF Grown, nil
<1> QED
  BY <1>1, <1>2, <1>3, <1>4 DEF IsSys, c

\* SysInfo.Clone returns a SysInfo and slices of its own that read alike.
LEMMA CloneSysFresh ==
  ASSUME NEW h \in Seq(Obj), NEW s, IsSys(h, s)
  PROVE  LET c == CloneSys(h, s) IN
         /\ c.heap \in Seq(Obj) /\ Grown(h, c.heap)
         /\ IsSys(c.heap, c.ref) /\ c.ref \in Nat /\ c.ref > Len(h)
         /\ c.heap[c.ref].val = h[s].val
         /\ Fresh(h, c.heap[c.ref].tx) /\ Fresh(h, c.heap[c.ref].rx)
         /\ OptionsAt(c.heap, c.heap[c.ref].tx) = OptionsAt(h, h[s].tx)
         /\ OptionsAt(c.heap, c.heap[c.ref].rx) = OptionsAt(h, h[s].rx)
<1>0. s # nil /\ h[s] \in SysObj /\ IsSlice(h, h[s].tx) /\ IsSlice(h, h[s].rx)
  BY DEF IsSys, nil
<1>1. PICK tx : tx = CloneOptions(h, h[s].tx)
  OBVIOUS
<1>2. /\ tx.heap \in Seq(Obj) /\ Grown(h, tx.heap) /\ tx.ref \in Nat
      /\ IsSlice(tx.heap, tx.ref) /\ Fresh(h, tx.ref)
      /\ OptionsAt(tx.heap, tx.ref) = OptionsAt(h, h[s].tx)
  BY <1>0, <1>1, CloneOptionsFresh
<1>3. PICK rx : rx = CloneOptions(tx.heap, h[s].rx)
  OBVIOUS
<1>4. IsSlice(tx.heap, h[s].rx) /\ OptionsAt(tx.heap, h[s].rx) = OptionsAt(h, h[s].rx)
  BY <1>0, <1>2, SliceKept
<1>5. /\ rx.heap \in Seq(Obj) /\ Grown(tx.heap, rx.heap) /\ rx.ref \in Nat
      /\ IsSlice(rx.heap, rx.ref) /\ Fresh(tx.heap, rx.ref)
      /\ OptionsAt(rx.heap, rx.ref) = OptionsAt(h, h[s].rx)
  BY <1>2, <1>3, <1>4, CloneOptionsFresh
<1>6. Grown(h, rx.heap) /\ Fresh(h, rx.ref)
  <2>1. Len(h) \in Nat /\ Len(tx.heap) \in Nat /\ Len(h) <= Len(tx.heap)
    BY <1>2 DEF Grown
  <2>2. Fresh(h, rx.ref)
    BY <1>5, <2>1 DEF Fresh
  <2> QED
    BY <1>2, <1>5, <2>2, GrownOn
<1>7. IsSlice(rx.heap, tx.ref) /\ OptionsAt(rx.heap, tx.ref) = OptionsAt(h, h[s].tx)
  BY <1>2, <1>5, SliceKept
<1>8. PICK obj \in SysObj : /\ obj = [h[s] EXCEPT !.tx = tx.ref, !.rx = rx.ref]
                            /\ obj.tx = tx.ref /\ obj.rx = rx.ref /\ obj.val = h[s].val
  <2> DEFINE obj == [h[s] EXCEPT !.tx = tx.ref, !.rx = rx.ref]
  <2>1. obj \in SysObj /\ obj.tx = tx.ref /\ obj.rx = rx.ref /\ obj.val = h[s].val
    BY Zenon, <1>0, <1>2, <1>5 DEF SysObj
  <2> QED
    BY Zenon, <2>1
<1>9. PICK c : c = New(rx.heap, obj)
  OBVIOUS
<1>10. CloneSys(h, s) = c
  BY <1>0, <1>1, <1>3, <1>8, <1>9 DEF CloneSys
<1>11. /\ c.heap \in Seq(Obj) /\ Grown(h, c.heap) /\ Grown(rx.heap, c.heap)
       /\ IsSys(c.heap, c.ref) /\ c.heap[c.ref] = obj /\ c.ref \in Nat /\ c.ref > Len(h)
  <2>1. IsSlice(rx.heap, obj.tx) /\ IsSlice(rx.heap, obj.rx)
    BY <1>5, <1>7, <1>8
  <2> QED
    BY <1>5, <1>6, <1>9, <2>1, SysMade
<1>12. /\ OptionsAt(c.heap, tx.ref) = OptionsAt(h, h[s].tx)
       /\ OptionsAt(c.heap, rx.ref) = OptionsAt(h, h[s].rx)
  BY <1>5, <1>7, <1>11, SliceKept
<1> QED
  BY <1>2, <1>6, <1>8, <1>10, <1>11, <1>12

\* An Info made of fresh parts is fresh as a whole and reads as its parts do.
LEMMA InfoMade ==
  ASSUME NEW h \in Seq(Obj), NEW g \in Seq(Obj), Grown(h, g), NEW obj \in InfoObj,
         IsSlice(g, obj.tx), IsSlice(g, obj.rx), IsSys(g, obj.sys),
         Fresh(h, obj.tx), Fresh(h, obj.rx), Fresh(h, obj.sys),
         Fresh(h, g[obj.sys].tx), Fresh(h, g[obj.sys].rx)
  PROVE  LET c == New(g, obj) IN
         /\ c.heap \in Seq(Obj) /\ Grown(h, c.heap)
         /\ IsInfo(c.heap, c.ref) /\ c.ref \in Nat /\ c.ref # nil
         /\ \A o \in Foot(c.heap, c.ref) : o > Len(h)
         /\ InfoAt(c.heap, c.ref) =
              [val |-> obj.val, tx |-> OptionsAt(g, obj.tx), rx |-> OptionsAt(g, obj.rx),
               sysVal |-> g[obj.sys].val, sysTx |-> OptionsAt(g, g[obj.sys].tx),
               sysRx |-> OptionsAt(g, g[obj.sys].rx)]
<1> DEFINE c == New(g, obj)
<1>1. /\ c.heap \in Seq(Obj) /\ Grown(g, c.heap) /\ c.ref = Len(g) + 1
      /\ c.ref \in DOMAIN c.heap /\ c.heap[c.ref] = obj
  BY NewGrows DEF Obj
<1> HIDE DEF c
<1>2. Grown(h, c.heap)
  BY <1>1, GrownOn
<1>3. /\ IsSlice(c.heap, obj.tx) /\ OptionsAt(c.heap, obj.tx) = OptionsAt(g, obj.tx)
      /\ IsSlice(c.heap, obj.rx) /\ OptionsAt(c.heap, obj.rx) = OptionsAt(g, obj.rx)
  BY <1>1, SliceKept
<1>4. IsSys(c.heap, obj.sys) /\ c.heap[obj.sys] = g[obj.sys]
  BY <1>1, SysKept
<1>5. /\ OptionsAt(c.heap, g[obj.sys].tx) = OptionsAt(g, g[obj.sys].tx)
      /\ OptionsAt(c.heap, g[obj.sys].rx) = OptionsAt(g, g[obj.sys].rx)
  BY <1>1, SliceKept DEF IsSys
<1>6. c.ref \in Nat /\ c.ref > Len(h) /\ c.ref # nil
  BY <1>1 DEF Grown, nil
<1>7. IsInfo(c.heap, c.ref)
  BY <1>1, <1>3, <1>4 DEF IsInfo
<1>8. \A o \in Foot(c.heap, c.ref) : o > Len(h)
  BY <1>1, <1>4, <1>6 DEF Foot, Fresh
<1>9. InfoAt(c.heap, c.ref) =
        [val |-> obj.val, tx |-> OptionsAt(g, obj.tx), rx |-> OptionsAt(g, obj.rx),
         sysVal |-> g[obj.sys].val, sysTx |-> OptionsAt(g, g[obj.sys].tx),
         sysRx |-> OptionsAt(g, g[obj.sys].rx)]
  BY Zenon, <1>1, <1>3, <1>4, <1>5, <1>6 DEF InfoAt
<1> QED
  BY Zenon, <1>1, <1>2, <1>6, <1>7, <1>8, <1>9 DEF c

\* Info.Clone shares no object with anything that was there before, and reads as the
\* Info it was made of.
LEMMA CloneInfoFresh ==
  ASSUME NEW h \in Seq(Obj), NEW i, IsInfo(h, i)
  PROVE  LET c == CloneInfo(h, i) IN
         /\ c.heap \in Seq(Obj) /\ Grown(h, c.heap)
         /\ IsInfo(c.heap, c.ref) /\ c.ref \in Nat /\ c.ref # nil
         /\ \A o \in Foot(c.heap, c.ref) : o > Len(h)
         /\ InfoAt(c.heap, c.ref) = InfoAt(h, i)
<1>0. i # nil /\ h[i] \in InfoObj /\ IsSlice(h, h[i].tx) /\ IsSlice(h, h[i].rx)
      /\ IsSys(h, h[i].sys)
  BY DEF IsInfo, nil
<1>1. PICK tx : tx = CloneOptions(h, h[i].tx)
  OBVIOUS
<1>2. /\ tx.heap \in Seq(Obj) /\ Grown(h, tx.heap) /\ tx.ref \in Nat
      /\ IsSlice(tx.heap, tx.ref) /\ Fresh(h, tx.ref)
      /\ OptionsAt(tx.heap, tx.ref) = OptionsAt(h, h[i].tx)
  BY <1>0, <1>1, CloneOptionsFresh
<1>3. PICK rx : rx = CloneOptions(tx.heap, h[i].rx)
  OBVIOUS
<1>4. IsSlice(tx.heap, h[i].rx) /\ OptionsAt(tx.heap, h[i].rx) = OptionsAt(h, h[i].rx)
  BY <1>0, <1>2, SliceKept
<1>5. /\ rx.heap \in Seq(Obj) /\ Grown(tx.heap, rx.heap) /\ rx.ref \in Nat
      /\ IsSlice(rx.heap, rx.ref) /\ Fresh(tx.heap, rx.ref)
      /\ OptionsAt(rx.heap, rx.ref) = OptionsAt(h, h[i].rx)
  BY <1>2, <1>3, <1>4, CloneOptionsFresh
<1>6. Grown(h, rx.heap)
  BY <1>2, <1>5, GrownOn
<1>7. PICK sys : sys = CloneSys(rx.heap, h[i].sys)
  OBVIOUS
<1>8. IsSys(rx.heap, h[i].sys) /\ rx.heap[h[i].sys] = h[h[i].sys]
  BY <1>0, <1>6, <1>5, SysKept
<1>9. /\ sys.heap \in Seq(Obj) /\ Grown(rx.heap, sys.heap)
      /\ IsSys(sys.heap, sys.ref) /\ sys.ref \in Nat /\ sys.ref > Len(rx.heap)
      /\ sys.heap[sys.ref].val = h[h[i].sys].val
      /\ Fresh(rx.heap, sys.heap[sys.ref].tx) /\ Fresh(rx.heap, sys.heap[sys.ref].rx)
      /\ OptionsAt(sys.heap, sys.heap[sys.ref].tx) = OptionsAt(rx.heap, h[h[i].sys].tx)
      /\ OptionsAt(sys.heap, sys.heap[sys.ref].rx) = OptionsAt(rx.heap, h[h[i].sys].rx)
  <2>1. PICK s : s = h[i].sys
    OBVIOUS
  <2>2. /\ sys.heap \in Seq(Obj) /\ Grown(rx.heap, sys.heap)
        /\ IsSys(sys.heap, sys.ref) /\ sys.ref \in Nat /\ sys.ref > Len(rx.heap)
        /\ sys.heap[sys.ref].val = rx.heap[s].val
        /\ Fresh(rx.heap, sys.heap[sys.ref].tx) /\ Fresh(rx.heap, sys.heap[sys.ref].rx)
        /\ OptionsAt(sys.heap, sys.heap[sys.ref].tx) = OptionsAt(rx.heap, rx.heap[s].tx)
        /\ OptionsAt(sys.heap, sys.heap[sys.ref].rx) = OptionsAt(rx.heap, rx.heap[s].rx)
    <3>1. IsSys(rx.heap, s) /\ sys = CloneSys(rx.heap, s)
      BY <1>7, <1>8, <2>1
    <3> QED
      BY Zenon, <1>5, <3>1, CloneSysFresh
  <2> QED
    BY Zenon, <1>8, <2>1, <2>2
<1>10. /\ OptionsAt(rx.heap, h[h[i].sys].tx) = OptionsAt(h, h[h[i].sys].tx)
       /\ OptionsAt(rx.heap, h[h[i].sys].rx) = OptionsAt(h, h[h[i].sys].rx)
  BY <1>0, <1>5, <1>6, SliceKept DEF IsSys
<1>11. Grown(h, sys.heap)
  BY Zenon, <1>5, <1>6, <1>9, GrownOn
<1>12. /\ Fresh(h, tx.ref) /\ Fresh(h, rx.ref) /\ Fresh(h, sys.ref)
       /\ Fresh(h, sys.heap[sys.ref].tx) /\ Fresh(h, sys.heap[sys.ref].rx)
  <2>1. /\ Len(h) \in Nat /\ Len(tx.heap) \in Nat /\ Len(rx.heap) \in Nat
        /\ Len(h) <= Len(tx.heap) /\ Len(h) <= Len(rx.heap)
    BY <1>2, <1>5, <1>6 DEF Grown
  <2>2. sys.heap[sys.ref].tx \in Nat /\ sys.heap[sys.ref].rx \in Nat
    BY Zenon, <1>9 DEF IsSys, SysObj
  <2> QED
    BY SMTT(20), <1>2, <1>5, <1>9, <2>1, <2>2, SMTT(30) DEF Fresh
<1>13. /\ IsSlice(sys.heap, tx.ref) /\ OptionsAt(sys.heap, tx.ref) = OptionsAt(h, h[i].tx)
       /\ IsSlice(sys.heap, rx.ref) /\ OptionsAt(sys.heap, rx.ref) = OptionsAt(h, h[i].rx)
  <2>1. IsSlice(rx.heap, tx.ref) /\ OptionsAt(rx.heap, tx.ref) = OptionsAt(h, h[i].tx)
    BY <1>2, <1>5, SliceKept
  <2> QED
    BY Zenon, <1>5, <1>9, <2>1, SliceKept
<1>14. PICK obj \in InfoObj :
         /\ obj = [h[i] EXCEPT !.tx = tx.ref, !.rx = rx.ref, !.sys = sys.ref]
         /\ obj.tx = tx.ref /\ obj.rx = rx.ref /\ obj.sys = sys.ref /\ obj.val = h[i].val
  <2> DEFINE obj == [h[i] EXCEPT !.tx = tx.ref, !.rx = rx.ref, !.sys = sys.ref]
  <2>1. /\ obj \in InfoObj /\ obj.tx = tx.ref /\ obj.rx = rx.ref /\ obj.sys = sys.ref
        /\ obj.val = h[i].val
    BY ZenonT(30), <1>0, <1>2, <1>5, <1>9 DEF InfoObj
  <2> QED
    BY Zenon, <2>1
<1>15. PICK c : c = New(sys.heap, obj)
  OBVIOUS
<1>16. CloneInfo(h, i) = c
  BY Zenon, <1>0, <1>1, <1>3, <1>7, <1>14, <1>15 DEF CloneInfo
<1>17. /\ IsSlice(sys.heap, obj.tx) /\ IsSlice(sys.heap, obj.rx) /\ IsSys(sys.heap, obj.sys)
       /\ Fresh(h, obj.tx) /\ Fresh(h, obj.rx) /\ Fresh(h, obj.sys)
       /\ Fresh(h, sys.heap[obj.sys].tx) /\ Fresh(h, sys.heap[obj.sys].rx)
  BY Zenon, <1>9, <1>12, <1>13, <1>14
<1>18. /\ c.heap \in Seq(Obj) /\ Grown(h, c.heap)
       /\ IsInfo(c.heap, c.ref) /\ c.ref \in Nat /\ c.ref # nil
       /\ \A o \in Foot(c.heap, c.ref) : o > Len(h)
       /\ InfoAt(c.heap, c.ref) =
            [val |-> obj.val, tx |-> OptionsAt(sys.heap, obj.tx), rx |-> OptionsAt(sys.heap, obj.rx),
             sysVal |-> sys.heap[obj.sys].val, sysTx |-> OptionsAt(sys.heap, sys.heap[obj.sys].tx),
             sysRx |-> OptionsAt(sys.heap, sys.heap[obj.sys].rx)]
  BY Zenon, <1>9, <1>11, <1>15, <1>17, InfoMade
<1>19. InfoAt(c.heap, c.ref) = InfoAt(h, i)
  BY Zenon, <1>0, <1>9, <1>10, <1>13, <1>14, <1>18 DEF InfoAt
<1> QED
  BY Zenon, <1>16, <1>18, <1>19

\* A slice of Unpack, or none.
LEMMA SliceMade ==
  ASSUME NEW h \in Seq(Obj), NEW obj \in SliceObj,
         NEW c \in {[heap |-> h, ref |-> nil], New(h, obj)}
  PROVE  /\ c.heap \in Seq(Obj) /\ Grown(h, c.heap) /\ c.ref \in Nat
         /\ IsSlice(c.heap, c.ref) /\ Fresh(h, c.ref)
<1>1. CASE c = [heap |-> h, ref |-> nil]
  BY <1>1 DEF Grown, IsSlice, Fresh, nil
<1>2. CASE c = New(h, obj)
  <2>1. /\ c.heap \in Seq(Obj) /\ Grown(h, c.heap) /\ c.ref = Len(h) + 1
        /\ c.ref \in DOMAIN c.heap /\ c.heap[c.ref] = obj
    BY <1>2, NewGrows DEF Obj
  <2> QED
    BY <2>1 DEF IsSlice, Fresh
<1> QED
  BY <1>1, <1>2

\* A sample of the socket is a new Info, with a SysInfo and slices that are new too.
LEMMA SampleFresh ==
  ASSUME NEW h \in Seq(Obj), NEW o \in {"empty", "some"}, NEW r \in {"quiet", "lossy"}
  PROVE  LET c == Sample(h, o, r) IN
         /\ c.heap \in Seq(Obj) /\ Grown(h, c.heap)
         /\ IsInfo(c.heap, c.ref) /\ c.ref \in Nat /\ c.ref # nil
         /\ \A x \in Foot(c.heap, c.ref) : x > Len(h)
<1>1. PICK tx : tx = IF platform = "windows" \/ (platform = "linux" /\ o = "empty")
                     THEN [heap |-> h, ref |-> nil] ELSE New(h, [val |-> o])
  BY Zenon
<1>0. [val |-> o] \in SliceObj
  BY DEF SliceObj
<1>2. /\ tx.heap \in Seq(Obj) /\ Grown(h, tx.heap) /\ tx.ref \in Nat
      /\ IsSlice(tx.heap, tx.ref) /\ Fresh(h, tx.ref)
  BY <1>0, <1>1, SliceMade
<1>3. PICK rx : rx = IF platform = "windows" \/ o = "empty"
                     THEN [heap |-> tx.heap, ref |-> nil] ELSE New(tx.heap, [val |-> o])
  BY Zenon
<1>4. /\ rx.heap \in Seq(Obj) /\ Grown(tx.heap, rx.heap) /\ rx.ref \in Nat
      /\ IsSlice(rx.heap, rx.ref) /\ Fresh(tx.heap, rx.ref)
  BY <1>0, <1>2, <1>3, SliceMade
<1>5. Grown(h, rx.heap) /\ IsSlice(rx.heap, tx.ref) /\ Fresh(h, rx.ref)
  <2>1. Len(h) \in Nat /\ Len(tx.heap) \in Nat /\ Len(h) <= Len(tx.heap)
    BY <1>2 DEF Grown
  <2>2. Fresh(h, rx.ref)
    BY <1>4, <2>1 DEF Fresh
  <2> QED
    BY <1>2, <1>4, <2>2, GrownOn, SliceKept
<1>6. PICK so \in SysObj : so = [tx |-> tx.ref, rx |-> rx.ref, val |-> r]
                           /\ so.tx = tx.ref /\ so.rx = rx.ref
  <2> DEFINE so == [tx |-> tx.ref, rx |-> rx.ref, val |-> r]
  <2>1. so \in SysObj /\ so.tx = tx.ref /\ so.rx = rx.ref
    BY <1>2, <1>4 DEF SysObj, Counts
  <2> QED
    BY <2>1
<1>7. PICK sys : sys = New(rx.heap, so)
  OBVIOUS
<1>8. /\ sys.heap \in Seq(Obj) /\ Grown(h, sys.heap) /\ Grown(rx.heap, sys.heap)
      /\ IsSys(sys.heap, sys.ref) /\ sys.heap[sys.ref] = so
      /\ sys.ref \in Nat /\ sys.ref > Len(h)
  <2>1. IsSlice(rx.heap, so.tx) /\ IsSlice(rx.heap, so.rx)
    BY <1>4, <1>5, <1>6
  <2> QED
    BY <1>4, <1>5, <1>7, <2>1, SysMade
<1>9. PICK a \in {nil, tx.ref}, b \in {nil, rx.ref} :
        a = (IF platform = "windows" THEN nil ELSE tx.ref)
        /\ b = (IF platform = "windows" THEN nil ELSE rx.ref)
  OBVIOUS
<1>10. PICK obj \in InfoObj :
         /\ obj = [tx |-> a, rx |-> b, sys |-> sys.ref, val |-> r]
         /\ obj.tx = a /\ obj.rx = b /\ obj.sys = sys.ref
  <2> DEFINE obj == [tx |-> a, rx |-> b, sys |-> sys.ref, val |-> r]
  <2>1. obj \in InfoObj /\ obj.tx = a /\ obj.rx = b /\ obj.sys = sys.ref
    BY <1>2, <1>4, <1>8, <1>9 DEF InfoObj, Counts, nil
  <2> QED
    BY <2>1
<1>11. Sample(h, o, r) = New(sys.heap, obj)
  BY Zenon, <1>1, <1>3, <1>6, <1>7, <1>9, <1>10 DEF Sample
<1>12. IsSlice(sys.heap, a) /\ IsSlice(sys.heap, b)
  <2>1. IsSlice(sys.heap, tx.ref) /\ IsSlice(sys.heap, rx.ref)
    BY <1>4, <1>5, <1>8, SliceKept
  <2> QED
    BY <1>9, <2>1 DEF IsSlice
<1>13. /\ IsSlice(sys.heap, obj.tx) /\ IsSlice(sys.heap, obj.rx) /\ IsSys(sys.heap, obj.sys)
       /\ Fresh(h, obj.tx) /\ Fresh(h, obj.rx) /\ Fresh(h, obj.sys)
       /\ Fresh(h, sys.heap[obj.sys].tx) /\ Fresh(h, sys.heap[obj.sys].rx)
  BY Zenon, <1>2, <1>5, <1>6, <1>8, <1>9, <1>10, <1>12 DEF Fresh
<1> QED
  BY Zenon, <1>8, <1>11, <1>13, InfoMade

-----------------------------------------------------------------------------
\* A view whose Infos are sound or nil.
ViewType == [conn : BOOLEAN, addr : Addrs \cup {"nil"}, OpenedInfo : Nat, ClosedInfo : Nat,
             infoErr : BOOLEAN, reconnects : Nat]

RefInfo(h, i) == i = nil \/ IsInfo(h, i)

IsView(h, v) == v \in ViewType /\ RefInfo(h, v.OpenedInfo) /\ RefInfo(h, v.ClosedInfo)

\* What a view reaches is what its Infos reach.
LEMMA ReachIsFeet ==
  ASSUME NEW h, NEW v, NEW o
  PROVE  o \in Reach(h, v) <=>
           \E i \in {v.OpenedInfo, v.ClosedInfo} : i # nil /\ o \in Foot(h, i)
BY Zenon DEF Reach, Foot

\* The clone of a nil Info is nil; the rest is CloneInfoFresh.
LEMMA CloneRefFresh ==
  ASSUME NEW h \in Seq(Obj), NEW i \in Nat, RefInfo(h, i)
  PROVE  LET c == CloneInfo(h, i) IN
         /\ c.heap \in Seq(Obj) /\ Grown(h, c.heap)
         /\ RefInfo(c.heap, c.ref) /\ c.ref \in Nat /\ (c.ref = nil <=> i = nil)
         /\ c.ref # nil => \A o \in Foot(c.heap, c.ref) : o > Len(h)
         /\ InfoAt(c.heap, c.ref) = InfoAt(h, i)
<1>1. CASE i = nil
  <2>1. CloneInfo(h, i).heap = h /\ CloneInfo(h, i).ref = nil
    BY <1>1 DEF CloneInfo
  <2> QED
    BY <1>1, <2>1 DEF Grown, RefInfo, InfoAt, nil
<1>2. CASE i # nil
  BY <1>2, CloneInfoFresh DEF RefInfo
<1> QED
  BY <1>1, <1>2

\* Growth of the heap does not disturb an Info or a nil.
LEMMA RefKept ==
  ASSUME NEW h \in Seq(Obj), NEW g \in Seq(Obj), Grown(h, g), NEW i, RefInfo(h, i)
  PROVE  /\ RefInfo(g, i) /\ InfoAt(g, i) = InfoAt(h, i)
         /\ i # nil => Foot(g, i) = Foot(h, i) /\ Foot(h, i) \subseteq DOMAIN h
<1>1. CASE i = nil
  BY Zenon, <1>1 DEF RefInfo, InfoAt
<1>2. CASE i # nil
  BY <1>2, InfoKept DEF RefInfo
<1> QED
  BY <1>1, <1>2

\* Nor does it disturb a view.
LEMMA ViewKept ==
  ASSUME NEW h \in Seq(Obj), NEW g \in Seq(Obj), Grown(h, g), NEW v, IsView(h, v)
  PROVE  /\ IsView(g, v) /\ Contents(g, v) = Contents(h, v)
         /\ Reach(g, v) = Reach(h, v) /\ Reach(h, v) \subseteq DOMAIN h
<1>1. /\ RefInfo(g, v.OpenedInfo) /\ InfoAt(g, v.OpenedInfo) = InfoAt(h, v.OpenedInfo)
      /\ v.OpenedInfo # nil =>
           Foot(g, v.OpenedInfo) = Foot(h, v.OpenedInfo) /\ Foot(h, v.OpenedInfo) \subseteq DOMAIN h
  BY RefKept DEF IsView
<1>2. /\ RefInfo(g, v.ClosedInfo) /\ InfoAt(g, v.ClosedInfo) = InfoAt(h, v.ClosedInfo)
      /\ v.ClosedInfo # nil =>
           Foot(g, v.ClosedInfo) = Foot(h, v.ClosedInfo) /\ Foot(h, v.ClosedInfo) \subseteq DOMAIN h
  BY RefKept DEF IsView
<1>3. IsView(g, v) /\ Contents(g, v) = Contents(h, v)
  BY <1>1, <1>2 DEF IsView, Contents
<1>4. \A o : o \in Reach(g, v) <=> o \in Reach(h, v)
  BY Zenon, <1>1, <1>2, ReachIsFeet
<1>5. Reach(h, v) \subseteq DOMAIN h
  BY <1>1, <1>2, ReachIsFeet
<1> QED
  BY Zenon, <1>3, <1>4, <1>5

\* snapshotLocked makes a view that reads as the view it is made of, and from which
\* nothing can be reached that was there before.
LEMMA SnapshotFresh ==
  ASSUME NEW h \in Seq(Obj), NEW v, IsView(h, v), rawAddr \in Addrs \cup {"nil"}
  PROVE  LET s == SnapshotLocked(h, v) IN
         /\ s.heap \in Seq(Obj) /\ Grown(h, s.heap) /\ IsView(s.heap, s.view)
         /\ Contents(s.heap, s.view) = Contents(h, v)
         /\ \A o \in Reach(s.heap, s.view) : o > Len(h)
         /\ s.view.OpenedInfo = nil <=> v.OpenedInfo = nil
         /\ s.view.ClosedInfo = nil <=> v.ClosedInfo = nil
         /\ ~s.view.conn /\ s.view.addr = AddrLocked(v)
         /\ s.view.infoErr = v.infoErr /\ s.view.reconnects = v.reconnects
<1>0. v \in ViewType /\ AddrLocked(v) \in Addrs \cup {"nil"}
  BY DEF IsView, ViewType, AddrLocked
<1>1. PICK op : op = CloneInfo(h, v.OpenedInfo)
  OBVIOUS
<1>2. /\ op.heap \in Seq(Obj) /\ Grown(h, op.heap)
      /\ RefInfo(op.heap, op.ref) /\ op.ref \in Nat /\ (op.ref = nil <=> v.OpenedInfo = nil)
      /\ op.ref # nil => \A o \in Foot(op.heap, op.ref) : o > Len(h)
      /\ InfoAt(op.heap, op.ref) = InfoAt(h, v.OpenedInfo)
  <2>1. v.OpenedInfo \in Nat /\ RefInfo(h, v.OpenedInfo)
    BY DEF IsView, ViewType
  <2> QED
    BY <1>1, <2>1, CloneRefFresh
<1>3. PICK cs : cs = CloneInfo(op.heap, v.ClosedInfo)
  OBVIOUS
<1>4. /\ v.ClosedInfo \in Nat /\ RefInfo(op.heap, v.ClosedInfo)
      /\ InfoAt(op.heap, v.ClosedInfo) = InfoAt(h, v.ClosedInfo)
  BY <1>2, RefKept DEF IsView, ViewType
<1>5. /\ cs.heap \in Seq(Obj) /\ Grown(op.heap, cs.heap)
      /\ RefInfo(cs.heap, cs.ref) /\ cs.ref \in Nat /\ (cs.ref = nil <=> v.ClosedInfo = nil)
      /\ cs.ref # nil => \A o \in Foot(cs.heap, cs.ref) : o > Len(op.heap)
      /\ InfoAt(cs.heap, cs.ref) = InfoAt(h, v.ClosedInfo)
  BY Zenon, <1>2, <1>3, <1>4, CloneRefFresh
<1>6. /\ RefInfo(cs.heap, op.ref) /\ InfoAt(cs.heap, op.ref) = InfoAt(h, v.OpenedInfo)
      /\ op.ref # nil => Foot(cs.heap, op.ref) = Foot(op.heap, op.ref)
  BY <1>2, <1>5, RefKept
<1>7. PICK w \in ViewType :
        /\ w = [v EXCEPT !.conn = FALSE, !.addr = AddrLocked(v),
                         !.OpenedInfo = op.ref, !.ClosedInfo = cs.ref]
        /\ ~w.conn /\ w.addr = AddrLocked(v) /\ w.OpenedInfo = op.ref /\ w.ClosedInfo = cs.ref
        /\ w.infoErr = v.infoErr /\ w.reconnects = v.reconnects
  <2> DEFINE w == [v EXCEPT !.conn = FALSE, !.addr = AddrLocked(v),
                            !.OpenedInfo = op.ref, !.ClosedInfo = cs.ref]
  <2>1. /\ w \in ViewType
        /\ ~w.conn /\ w.addr = AddrLocked(v) /\ w.OpenedInfo = op.ref /\ w.ClosedInfo = cs.ref
        /\ w.infoErr = v.infoErr /\ w.reconnects = v.reconnects
    BY Zenon, <1>0, <1>2, <1>5 DEF ViewType
  <2> QED
    BY Zenon, <2>1
<1>8. SnapshotLocked(h, v) = [heap |-> cs.heap, view |-> w]
  BY <1>1, <1>3, <1>7 DEF SnapshotLocked
<1>9. Grown(h, cs.heap)
  BY <1>2, <1>5, GrownOn
<1>10. IsView(cs.heap, w) /\ Contents(cs.heap, w) = Contents(h, v)
  BY <1>5, <1>6, <1>7 DEF IsView, Contents
<1>11. ASSUME NEW o \in Reach(cs.heap, w) PROVE o > Len(h)
  <2>1. PICK i \in {op.ref, cs.ref} : i # nil /\ o \in Foot(cs.heap, i)
    BY ZenonT(30), <1>7, <1>11, ReachIsFeet
  <2>2. CASE i = op.ref
    BY Zenon, <1>2, <1>6, <2>1, <2>2
  <2>3. CASE i = cs.ref
    <3>1. o > Len(op.heap)
      BY <1>5, <2>1, <2>3
    <3>2. Foot(cs.heap, cs.ref) \subseteq DOMAIN cs.heap /\ DOMAIN cs.heap \subseteq Nat
      BY <1>5, <2>1, <2>3, RefKept DEF Grown
    <3>3. o \in Nat /\ Len(h) \in Nat /\ Len(op.heap) \in Nat /\ Len(h) <= Len(op.heap)
      BY <1>2, <2>1, <2>3, <3>2 DEF Grown
    <3> QED
      BY <3>1, <3>3
  <2> QED
    BY <2>1, <2>2, <2>3
<1>12. SnapshotLocked(h, v).heap = cs.heap /\ SnapshotLocked(h, v).view = w
  BY <1>8
<1> QED
  BY <1>2, <1>5, <1>7, <1>9, <1>10, <1>11, <1>12

-----------------------------------------------------------------------------
\* The heap after a write to the object o.
WriteTo(h, o) == [h EXCEPT ![o].val = "changed"]

\* Writing to an object changes nothing but what that object holds.
LEMMA WriteSlice ==
  ASSUME NEW h \in Seq(Obj), NEW o \in DOMAIN h, NEW g, g = WriteTo(h, o)
  PROVE  /\ g \in Seq(Obj) /\ DOMAIN g = DOMAIN h
         /\ \A x \in DOMAIN h : x # o => g[x] = h[x]
         /\ \A x \in DOMAIN h :
              /\ h[x] \in SliceObj => g[x] \in SliceObj
              /\ h[x] \in SysObj => g[x] \in SysObj /\ g[x].tx = h[x].tx /\ g[x].rx = h[x].rx
              /\ h[x] \in InfoObj => /\ g[x] \in InfoObj /\ g[x].sys = h[x].sys
                                     /\ g[x].tx = h[x].tx /\ g[x].rx = h[x].rx
<1>1. PICK b : b = [h[o] EXCEPT !.val = "changed"]
  BY Zenon
<1>2. g = [h EXCEPT ![o] = b]
  BY <1>1 DEF WriteTo
<1>3. /\ h[o] \in SliceObj => b \in SliceObj
      /\ h[o] \in SysObj => b \in SysObj /\ b.tx = h[o].tx /\ b.rx = h[o].rx
      /\ h[o] \in InfoObj => /\ b \in InfoObj /\ b.sys = h[o].sys
                             /\ b.tx = h[o].tx /\ b.rx = h[o].rx
  BY <1>1 DEF SliceObj, SysObj, InfoObj, Counts
<1>4. h[o] \in Obj /\ b \in Obj
  <2>1. h[o] \in Obj
    OBVIOUS
  <2> QED
    BY <1>3, <2>1 DEF Obj
<1>5. g \in Seq(Obj) /\ DOMAIN g = DOMAIN h /\ \A x \in DOMAIN h : g[x] = IF x = o THEN b ELSE h[x]
  BY <1>2, <1>4
<1> QED
  BY <1>3, <1>5

\* An Info stays sound when an object is written to, reaches what it reached, and
\* reads alike unless it reaches that object.
LEMMA WriteInfo ==
  ASSUME NEW h \in Seq(Obj), NEW o \in DOMAIN h, NEW g, g = WriteTo(h, o),
         NEW i, IsInfo(h, i)
  PROVE  /\ IsInfo(g, i) /\ Foot(g, i) = Foot(h, i)
         /\ o \notin Foot(h, i) => InfoAt(g, i) = InfoAt(h, i)
<1>1. /\ g \in Seq(Obj) /\ DOMAIN g = DOMAIN h
      /\ \A x \in DOMAIN h : x # o => g[x] = h[x]
      /\ \A x \in DOMAIN h :
           /\ h[x] \in SliceObj => g[x] \in SliceObj
           /\ h[x] \in SysObj => g[x] \in SysObj /\ g[x].tx = h[x].tx /\ g[x].rx = h[x].rx
           /\ h[x] \in InfoObj => /\ g[x] \in InfoObj /\ g[x].sys = h[x].sys
                                  /\ g[x].tx = h[x].tx /\ g[x].rx = h[x].rx
  BY WriteSlice
<1>2. \A x : IsSlice(h, x) => IsSlice(g, x) /\ (x # o => OptionsAt(g, x) = OptionsAt(h, x))
  BY <1>1 DEF IsSlice, OptionsAt
<1>3. PICK s : s = h[i].sys
  OBVIOUS
<1>4. /\ IsSys(g, s) /\ g[s].tx = h[s].tx /\ g[s].rx = h[s].rx /\ s \in DOMAIN h
      /\ IsSlice(h, h[s].tx) /\ IsSlice(h, h[s].rx)
  BY Zenon, <1>1, <1>2, <1>3 DEF IsInfo, IsSys
<1>5. /\ i \in DOMAIN h /\ g[i] \in InfoObj /\ g[i].tx = h[i].tx /\ g[i].rx = h[i].rx /\ g[i].sys = s
      /\ IsSlice(h, h[i].tx) /\ IsSlice(h, h[i].rx)
  BY Zenon, <1>1, <1>3 DEF IsInfo
<1>6. IsInfo(g, i)
  BY Zenon, <1>1, <1>2, <1>4, <1>5 DEF IsInfo
<1>7. Foot(g, i) = Foot(h, i)
  BY Zenon, <1>3, <1>4, <1>5 DEF Foot
<1>8. ASSUME o \notin Foot(h, i) PROVE InfoAt(g, i) = InfoAt(h, i)
  <2>1. o # nil
    BY DEF nil
  <2>2. o # i /\ o # s /\ o # h[i].tx /\ o # h[i].rx /\ o # h[s].tx /\ o # h[s].rx
    BY Zenon, <1>3, <1>8, <2>1 DEF Foot
  <2>3. g[i] = h[i] /\ g[s] = h[s]
    BY Zenon, <1>1, <1>4, <1>5, <2>2
  <2>4. /\ OptionsAt(g, h[i].tx) = OptionsAt(h, h[i].tx)
        /\ OptionsAt(g, h[i].rx) = OptionsAt(h, h[i].rx)
        /\ OptionsAt(g, h[s].tx) = OptionsAt(h, h[s].tx)
        /\ OptionsAt(g, h[s].rx) = OptionsAt(h, h[s].rx)
    BY Zenon, <1>2, <1>4, <1>5, <2>2
  <2> QED
    BY Zenon, <1>3, <2>3, <2>4 DEF InfoAt
<1> QED
  BY <1>6, <1>7, <1>8

\* The same for a view, which is an Info or two.
LEMMA WriteView ==
  ASSUME NEW h \in Seq(Obj), NEW o \in DOMAIN h, NEW g, g = WriteTo(h, o),
         NEW v, IsView(h, v)
  PROVE  /\ IsView(g, v) /\ Reach(g, v) = Reach(h, v)
         /\ o \notin Reach(h, v) => Contents(g, v) = Contents(h, v)
<1>1. ASSUME NEW i \in {v.OpenedInfo, v.ClosedInfo}
      PROVE  /\ RefInfo(g, i)
             /\ i # nil => Foot(g, i) = Foot(h, i)
             /\ (i # nil => o \notin Foot(h, i)) => InfoAt(g, i) = InfoAt(h, i)
  <2>1. CASE i = nil
    BY Zenon, <2>1 DEF RefInfo, InfoAt
  <2>2. CASE i # nil
    <3>1. IsInfo(h, i)
      BY <2>2 DEF IsView, RefInfo
    <3> QED
      BY <2>2, <3>1, WriteInfo DEF RefInfo
  <2> QED
    BY Zenon, <2>1, <2>2
<1>2. IsView(g, v)
  BY <1>1 DEF IsView
<1>3. \A x : x \in Reach(g, v) <=> x \in Reach(h, v)
  BY <1>1, ReachIsFeet
<1>4. ASSUME o \notin Reach(h, v) PROVE Contents(g, v) = Contents(h, v)
  <2>1. \A i \in {v.OpenedInfo, v.ClosedInfo} : i # nil => o \notin Foot(h, i)
    BY <1>4, ReachIsFeet
  <2> QED
    BY <1>1, <2>1 DEF Contents
<1> QED
  BY Zenon, <1>2, <1>3, <1>4

-----------------------------------------------------------------------------
\* The separation invariant: every view is sound and no two holders reach the same
\* object.
ViewsInv ==
  /\ heap \in Seq(Obj) /\ rawAddr \in Addrs \cup {"nil"}
  /\ views = [a \in Holders |-> views[a]] /\ seen = [a \in Holders |-> seen[a]]
  /\ \A a \in Holders : IsView(heap, views[a])
  /\ \A a, b \in Holders : a # b => Reach(heap, views[a]) \cap Reach(heap, views[b]) = {}
  /\ Detached

\* What collectTCPInfo returns is new.
LEMMA CollectedFresh ==
  ASSUME heap \in Seq(Obj), NEW c \in Collected
  PROVE  /\ c.heap \in Seq(Obj) /\ Grown(heap, c.heap) /\ c.err \in BOOLEAN
         /\ RefInfo(c.heap, c.ref) /\ c.ref \in Nat
         /\ c.ref # nil => \A x \in Foot(c.heap, c.ref) : x > Len(heap)
<1>1. CASE \E e \in BOOLEAN : c = [heap |-> heap, ref |-> nil, err |-> e]
  BY <1>1 DEF Grown, RefInfo, nil
<1>2. ASSUME NEW o \in {"empty", "some"}, NEW r \in {"quiet", "lossy"}, NEW e \in BOOLEAN,
             c = [heap |-> Sample(heap, o, r).heap, ref |-> Sample(heap, o, r).ref, err |-> e]
      PROVE  /\ c.heap \in Seq(Obj) /\ Grown(heap, c.heap) /\ c.err \in BOOLEAN
             /\ RefInfo(c.heap, c.ref) /\ c.ref \in Nat
             /\ c.ref # nil => \A x \in Foot(c.heap, c.ref) : x > Len(heap)
  <2>1. c.heap = Sample(heap, o, r).heap /\ c.ref = Sample(heap, o, r).ref /\ c.err = e
    BY <1>2
  <2> QED
    BY Zenon, <2>1, SampleFresh DEF RefInfo
<1> QED
  BY <1>1, <1>2 DEF Collected

\* The fields of a view that applyTCPInfoLocked changes.
LEMMA ApplyFields ==
  ASSUME NEW v \in ViewType, NEW c, c.ref \in Nat, c.err \in BOOLEAN,
         NEW f \in {"OpenedInfo", "ClosedInfo"}
  PROVE  LET w == Apply(v, f, c) IN
         /\ w \in ViewType /\ w.conn = v.conn /\ w.addr = v.addr /\ w.reconnects = v.reconnects
         /\ w.OpenedInfo = IF f = "OpenedInfo" /\ c.ref # nil THEN c.ref ELSE v.OpenedInfo
         /\ w.ClosedInfo = IF f = "ClosedInfo" /\ c.ref # nil THEN c.ref ELSE v.ClosedInfo
<1> DEFINE n == IF c.ref # nil THEN c.ref ELSE v[f]
           e == IF c.ref # nil \/ c.err THEN c.err ELSE v.infoErr
           w == Apply(v, f, c)
<1>1. v["OpenedInfo"] \in Nat /\ v["ClosedInfo"] \in Nat /\ v["infoErr"] \in BOOLEAN
  BY DEF ViewType
<1>2. n \in Nat /\ e \in BOOLEAN
  BY <1>1
<1>3. w = [v EXCEPT ![f] = n, !.infoErr = e]
  BY DEF Apply
<1> HIDE DEF n, e, w
<1>4. CASE f = "OpenedInfo"
  <2>1. w = [v EXCEPT !.OpenedInfo = n, !.infoErr = e]
    BY Zenon, <1>3, <1>4
  <2>2. /\ w \in ViewType /\ w.conn = v.conn /\ w.addr = v.addr /\ w.reconnects = v.reconnects
        /\ w.OpenedInfo = n /\ w.ClosedInfo = v.ClosedInfo
    BY Zenon, <1>2, <2>1 DEF ViewType
  <2> QED
    BY <1>4, <2>2 DEF w, n
<1>5. CASE f = "ClosedInfo"
  <2>1. w = [v EXCEPT !.ClosedInfo = n, !.infoErr = e]
    BY Zenon, <1>3, <1>5
  <2>2. /\ w \in ViewType /\ w.conn = v.conn /\ w.addr = v.addr /\ w.reconnects = v.reconnects
        /\ w.ClosedInfo = n /\ w.OpenedInfo = v.OpenedInfo
    BY Zenon, <1>2, <2>1 DEF ViewType
  <2> QED
    BY <1>5, <2>2 DEF w, n
<1> QED
  BY Zenon, <1>4, <1>5

\* Two views with the same Infos reach and read the same.
LEMMA ViewsAlike ==
  ASSUME NEW h, NEW v, NEW w, v.OpenedInfo = w.OpenedInfo, v.ClosedInfo = w.ClosedInfo
  PROVE  Reach(h, v) = Reach(h, w) /\ Contents(h, v) = Contents(h, w)
BY DEF Reach, Contents

\* A step in which the heap grows and the holders N get new views, each of objects
\* the holder reached before or of new ones.
LEMMA Joined ==
  ASSUME ViewsInv, heap' \in Seq(Obj), Grown(heap, heap'), rawAddr' \in Addrs \cup {"nil"},
         touched' = touched,
         views' = [a \in Holders |-> views'[a]], seen' = [a \in Holders |-> seen'[a]],
         NEW N \in SUBSET Holders,
         \A a \in Holders \ N : views'[a] = views[a] /\ seen'[a] = seen[a],
         \A a \in N : /\ IsView(heap', views'[a])
                      /\ a \notin touched => Contents(heap', views'[a]) = seen'[a]
                      /\ \A o \in Reach(heap', views'[a]) :
                           o \in Reach(heap, views[a]) \/ o > Len(heap),
         \A a, b \in N : a # b => Reach(heap', views'[a]) \cap Reach(heap', views'[b]) = {}
  PROVE  ViewsInv'
<1>1. ASSUME NEW a \in Holders \ N
      PROVE  /\ IsView(heap', views'[a]) /\ Contents(heap', views'[a]) = Contents(heap, views[a])
             /\ Reach(heap', views'[a]) = Reach(heap, views[a])
  BY ViewKept DEF ViewsInv
<1>2. ASSUME NEW a \in Holders PROVE Reach(heap, views[a]) \subseteq 1 .. Len(heap)
  <2>1. Grown(heap, heap)
    BY DEF Grown, ViewsInv
  <2> QED
    BY <2>1, ViewKept DEF ViewsInv
<1>3. \A a \in Holders : IsView(heap', views'[a])
  BY <1>1
<1>4. ASSUME NEW a \in Holders, NEW b \in Holders, a # b,
             NEW o \in Reach(heap', views'[a]), o \in Reach(heap', views'[b])
      PROVE  FALSE
  <2>1. CASE a \in N /\ b \in N
    BY <1>4, <2>1
  <2>2. \A x \in Holders : o \in Reach(heap', views'[x]) => o \in Reach(heap, views[x]) \/ o > Len(heap)
    BY <1>1
  <2>3. CASE a \notin N \/ b \notin N
    <3>1. o \in 1 .. Len(heap)
      BY <1>1, <1>2, <1>4, <2>3
    <3>2. ~(o > Len(heap))
      BY <3>1 DEF ViewsInv
    <3> QED
      BY <1>4, <2>2, <3>2 DEF ViewsInv
  <2> QED
    BY <2>1, <2>3
<1>5. Detached'
  <2> SUFFICES ASSUME NEW a \in Holders, a \notin touched
               PROVE  Contents(heap', views'[a]) = seen'[a]
    BY DEF Detached
  <2> QED
    BY <1>1 DEF ViewsInv, Detached
<1> QED
  BY Zenon, <1>3, <1>4, <1>5 DEF ViewsInv

\* WrapConn gives the wrapper the sample, and the open callback a clone of it.
LEMMA WrapViews ==
  ASSUME ViewsInv, WrapConn
  PROVE  /\ ViewsInv'
         /\ views'["wrapper"].addr = rawAddr
         /\ emitOpen => views'["opened"].addr = rawAddr \/ rawAddr = "nil"
<1>0. rawAddr' = rawAddr /\ touched' = touched
  BY DEF WrapConn
<1>1. PICK c \in Collected :
        LET w == Apply([NoView EXCEPT !.conn = TRUE, !.addr = rawAddr], "OpenedInfo", c)
            s == SnapshotLocked(c.heap, w) IN
        IF emitOpen
        THEN /\ heap' = s.heap
             /\ views' = [views EXCEPT !["wrapper"] = w, !["opened"] = [s.view EXCEPT !.conn = TRUE]]
             /\ seen' = [seen EXCEPT !["wrapper"] = Contents(c.heap, w),
                                     !["opened"] = Contents(c.heap, w)]
        ELSE /\ heap' = c.heap
             /\ views' = [views EXCEPT !["wrapper"] = w]
             /\ seen' = [seen EXCEPT !["wrapper"] = Contents(c.heap, w)]
  BY Zenon DEF WrapConn
<1>2. /\ c.heap \in Seq(Obj) /\ Grown(heap, c.heap) /\ c.err \in BOOLEAN
      /\ RefInfo(c.heap, c.ref) /\ c.ref \in Nat
      /\ c.ref # nil => \A x \in Foot(c.heap, c.ref) : x > Len(heap)
  BY CollectedFresh DEF ViewsInv
<1>3. PICK u \in ViewType : /\ u = [NoView EXCEPT !.conn = TRUE, !.addr = rawAddr]
                            /\ u.addr = rawAddr /\ u.OpenedInfo = nil /\ u.ClosedInfo = nil
  <2> DEFINE u == [NoView EXCEPT !.conn = TRUE, !.addr = rawAddr]
  <2>1. u \in ViewType /\ u.addr = rawAddr /\ u.OpenedInfo = nil /\ u.ClosedInfo = nil
    BY Zenon DEF NoView, ViewType, nil, ViewsInv
  <2> QED
    BY Zenon, <2>1
<1>4. PICK w : w = Apply(u, "OpenedInfo", c)
  OBVIOUS
<1>5. /\ w \in ViewType /\ w.addr = rawAddr /\ w.OpenedInfo \in {c.ref, nil} /\ w.ClosedInfo = nil
  BY ZenonT(30), <1>2, <1>3, <1>4, ApplyFields
<1>6. IsView(c.heap, w) /\ \A o \in Reach(c.heap, w) : o > Len(heap)
  BY <1>2, <1>5, ReachIsFeet DEF IsView, RefInfo
<1>7. "wrapper" \in Holders /\ "opened" \in Holders
  BY DEF Holders
<1>8. CASE ~emitOpen
  <2>1. /\ heap' = c.heap /\ views' = [views EXCEPT !["wrapper"] = w]
        /\ seen' = [seen EXCEPT !["wrapper"] = Contents(c.heap, w)]
    BY <1>1, <1>3, <1>4, <1>8
  <2>2. /\ views' = [a \in Holders |-> views'[a]] /\ seen' = [a \in Holders |-> seen'[a]]
        /\ views'["wrapper"] = w /\ seen'["wrapper"] = Contents(c.heap, w)
        /\ \A a \in Holders \ {"wrapper"} : views'[a] = views[a] /\ seen'[a] = seen[a]
    BY Zenon, <1>7, <2>1 DEF ViewsInv
  <2>3. rawAddr' \in Addrs \cup {"nil"}
    BY <1>0 DEF ViewsInv
  <2>4. {"wrapper"} \in SUBSET Holders
    BY <1>7
  <2>5. /\ \A a \in {"wrapper"} : /\ IsView(heap', views'[a])
                                  /\ Contents(heap', views'[a]) = seen'[a]
                                  /\ \A o \in Reach(heap', views'[a]) : o > Len(heap)
        /\ heap' \in Seq(Obj) /\ Grown(heap, heap')
    BY <1>2, <1>6, <2>1, <2>2
  <2>6. \A a, b \in {"wrapper"} :
          a # b => Reach(heap', views'[a]) \cap Reach(heap', views'[b]) = {}
    OBVIOUS
  <2>7. ViewsInv'
    BY Zenon, <1>0, <2>2, <2>3, <2>4, <2>5, <2>6, Joined
  <2> QED
    BY <1>5, <1>8, <2>2, <2>7
<1>9. CASE emitOpen
  <2>1. PICK s : s = SnapshotLocked(c.heap, w)
    OBVIOUS
  <2>2. /\ s.heap \in Seq(Obj) /\ Grown(c.heap, s.heap) /\ IsView(s.heap, s.view)
        /\ Contents(s.heap, s.view) = Contents(c.heap, w)
        /\ \A o \in Reach(s.heap, s.view) : o > Len(c.heap)
        /\ s.view.addr = AddrLocked(w)
    BY Zenon, <1>2, <1>6, <2>1, SnapshotFresh DEF ViewsInv
  <2>3. PICK z : z = [s.view EXCEPT !.conn = TRUE]
    BY Zenon
  <2>4. /\ z \in ViewType /\ z.addr = s.view.addr
        /\ z.OpenedInfo = s.view.OpenedInfo /\ z.ClosedInfo = s.view.ClosedInfo
    BY Zenon, <2>2, <2>3 DEF ViewType, IsView
  <2>5. Reach(s.heap, z) = Reach(s.heap, s.view) /\ Contents(s.heap, z) = Contents(c.heap, w)
    BY Zenon, <2>2, <2>4, ViewsAlike
  <2>6. /\ heap' = s.heap /\ views' = [views EXCEPT !["wrapper"] = w, !["opened"] = z]
        /\ seen' = [seen EXCEPT !["wrapper"] = Contents(c.heap, w),
                                !["opened"] = Contents(c.heap, w)]
    BY <1>1, <1>3, <1>4, <1>9, <2>1, <2>3
  <2>7. /\ views' = [a \in Holders |-> views'[a]] /\ seen' = [a \in Holders |-> seen'[a]]
        /\ views'["wrapper"] = w /\ seen'["wrapper"] = Contents(c.heap, w)
        /\ views'["opened"] = z /\ seen'["opened"] = Contents(c.heap, w)
        /\ \A a \in Holders \ {"wrapper", "opened"} : views'[a] = views[a] /\ seen'[a] = seen[a]
    BY Zenon, <1>7, <2>6 DEF ViewsInv
  <2>8. /\ IsView(heap', w) /\ Contents(heap', w) = Contents(c.heap, w)
        /\ Reach(heap', w) = Reach(c.heap, w) /\ Reach(c.heap, w) \subseteq 1 .. Len(c.heap)
    <3>1. /\ c.heap \in Seq(Obj) /\ IsView(c.heap, w)
          /\ heap' \in Seq(Obj) /\ Grown(c.heap, heap')
      BY Zenon, <1>2, <1>6, <2>2, <2>6
    <3>2. DOMAIN c.heap = 1 .. Len(c.heap)
      BY <3>1
    <3> QED
      BY Zenon, <3>1, <3>2, ViewKept
  <2>9. IsView(heap', z)
    BY Zenon, <2>2, <2>4, <2>6 DEF IsView
  <2>10. Reach(heap', w) \cap Reach(heap', z) = {}
    <3>1. \A o \in Reach(heap', z) : o > Len(c.heap)
      BY Zenon, <2>2, <2>5, <2>6
    <3>2. Reach(heap', w) \subseteq 1 .. Len(c.heap)
      BY Zenon, <2>8
    <3>3. Len(c.heap) \in Nat
      BY <1>2
    <3> QED
      BY <3>1, <3>2, <3>3
  <2>11. /\ \A o \in Reach(heap', w) : o > Len(heap)
         /\ \A o \in Reach(heap', z) : o > Len(heap)
    <3>1. Len(heap) \in Nat /\ Len(c.heap) \in Nat /\ Len(heap) <= Len(c.heap)
      BY <1>2 DEF Grown, ViewsInv
    <3>2. Reach(heap', z) \subseteq 1 .. Len(heap')
      <4>1. heap' \in Seq(Obj) /\ Grown(heap', heap')
        BY <2>2, <2>6 DEF Grown
      <4> QED
        BY <2>9, <4>1, ViewKept
    <3>3. Len(heap') \in Nat
      BY <2>2, <2>6
    <3>4. \A o \in Reach(heap', z) : o > Len(c.heap) /\ o \in Nat
      BY <2>2, <2>5, <2>6, <3>2, <3>3
    <3> QED
      BY <1>6, <2>8, <3>1, <3>4
  <2>12. Grown(heap, heap') /\ heap' \in Seq(Obj) /\ rawAddr' \in Addrs \cup {"nil"}
    BY Zenon, <1>0, <1>2, <2>2, <2>6, GrownOn DEF ViewsInv
  <2>13. {"wrapper", "opened"} \in SUBSET Holders
    BY <1>7
  <2>14. \A a \in {"wrapper", "opened"} :
           /\ IsView(heap', views'[a])
           /\ Contents(heap', views'[a]) = seen'[a]
           /\ \A o \in Reach(heap', views'[a]) : o > Len(heap)
    BY Zenon, <2>5, <2>6, <2>7, <2>8, <2>9, <2>11
  <2>15. \A a, b \in {"wrapper", "opened"} :
           a # b => Reach(heap', views'[a]) \cap Reach(heap', views'[b]) = {}
    BY <2>7, <2>10
  <2>16. ViewsInv'
    BY Zenon, <1>0, <2>7, <2>12, <2>13, <2>14, <2>15, Joined
  <2>17. z.addr = rawAddr \/ rawAddr = "nil"
    BY Zenon, <1>5, <2>2, <2>4 DEF AddrLocked
  <2> QED
    BY <1>5, <2>7, <2>16, <2>17
<1> QED
  BY <1>8, <1>9

\* After Close the wrapper and the snapshot it gave have no raw connection and the
\* same fields; as long as nobody wrote to the wrapper, they were given the same.
AgreeInv ==
  step = "closed" =>
    LET w == views["wrapper"]  s == views["closed"] IN
    /\ ~w.conn /\ ~s.conn /\ s.addr = w.addr /\ s.infoErr = w.infoErr
    /\ s.OpenedInfo = nil <=> w.OpenedInfo = nil
    /\ s.ClosedInfo = nil <=> w.ClosedInfo = nil
    /\ "wrapper" \notin touched => s.reconnects = w.reconnects /\ seen["closed"] = seen["wrapper"]

\* Close gives the wrapper its last sample, and the close callback a clone of all.
LEMMA CloseViews ==
  ASSUME ViewsInv, Close
  PROVE  /\ ViewsInv' /\ AgreeInv'
         /\ views'["wrapper"].addr = views["wrapper"].addr
         /\ views'["closed"].addr = views["wrapper"].addr
         /\ views'["opened"] = views["opened"]
<1>0. rawAddr' = rawAddr /\ touched' = touched
  BY DEF Close
<1>1. PICK c \in Collected :
        LET f == Finish(views["wrapper"], c) IN
        /\ heap' = f.snap.heap
        /\ views' = [views EXCEPT !["wrapper"] = f.wrapper, !["closed"] = f.snap.view]
        /\ seen' = [seen EXCEPT !["wrapper"][2] = InfoAt(c.heap, f.wrapper.ClosedInfo),
                                !["closed"] = Contents(c.heap, f.wrapper)]
  BY Zenon DEF Close
<1>2. /\ c.heap \in Seq(Obj) /\ Grown(heap, c.heap) /\ c.err \in BOOLEAN
      /\ RefInfo(c.heap, c.ref) /\ c.ref \in Nat
      /\ c.ref # nil => \A x \in Foot(c.heap, c.ref) : x > Len(heap)
  BY CollectedFresh DEF ViewsInv
<1>3. PICK w : w = views["wrapper"]
  OBVIOUS
<1>4. "wrapper" \in Holders /\ "closed" \in Holders /\ "opened" \in Holders
  BY DEF Holders
<1>5. heap \in Seq(Obj) /\ IsView(heap, w) /\ w \in ViewType
  BY <1>3, <1>4 DEF ViewsInv, IsView
<1>6. PICK u \in ViewType :
        /\ u = [w EXCEPT !.conn = FALSE] /\ u.conn = FALSE /\ u.addr = w.addr
        /\ u.OpenedInfo = w.OpenedInfo /\ u.ClosedInfo = w.ClosedInfo
  <2> DEFINE u == [w EXCEPT !.conn = FALSE]
  <2>1. /\ u \in ViewType /\ u.conn = FALSE /\ u.addr = w.addr
        /\ u.OpenedInfo = w.OpenedInfo /\ u.ClosedInfo = w.ClosedInfo
    BY Zenon, <1>5 DEF ViewType
  <2> QED
    BY Zenon, <2>1
<1>7. PICK v : v = Apply(u, "ClosedInfo", c)
  OBVIOUS
<1>8. /\ v \in ViewType /\ v.conn = FALSE /\ v.addr = w.addr /\ v.OpenedInfo = w.OpenedInfo
      /\ v.ClosedInfo = IF c.ref # nil THEN c.ref ELSE w.ClosedInfo
  BY ZenonT(30), <1>2, <1>6, <1>7, ApplyFields
<1>9. PICK s : s = SnapshotLocked(c.heap, v)
  OBVIOUS
<1>10. /\ heap' = s.heap /\ views' = [views EXCEPT !["wrapper"] = v, !["closed"] = s.view]
       /\ seen' = [seen EXCEPT !["wrapper"][2] = InfoAt(c.heap, v.ClosedInfo),
                               !["closed"] = Contents(c.heap, v)]
  BY <1>1, <1>3, <1>6, <1>7, <1>9 DEF Finish
<1>11. /\ IsView(c.heap, w) /\ Contents(c.heap, w) = Contents(heap, w)
       /\ Reach(c.heap, w) = Reach(heap, w)
  BY <1>2, <1>5, ViewKept
<1>12. /\ IsView(c.heap, v)
       /\ \A o \in Reach(c.heap, v) : o \in Reach(heap, w) \/ o > Len(heap)
  <2>1. IsView(c.heap, v)
    BY <1>2, <1>8, <1>11 DEF IsView
  <2>2. \A o \in Reach(c.heap, v) : o \in Reach(c.heap, w) \/ o > Len(heap)
    BY <1>2, <1>8, ReachIsFeet
  <2> QED
    BY <1>11, <2>1, <2>2
<1>13. /\ s.heap \in Seq(Obj) /\ Grown(c.heap, s.heap) /\ IsView(s.heap, s.view)
       /\ Contents(s.heap, s.view) = Contents(c.heap, v)
       /\ \A o \in Reach(s.heap, s.view) : o > Len(c.heap)
       /\ s.view.OpenedInfo = nil <=> v.OpenedInfo = nil
       /\ s.view.ClosedInfo = nil <=> v.ClosedInfo = nil
       /\ ~s.view.conn /\ s.view.addr = AddrLocked(v)
       /\ s.view.infoErr = v.infoErr /\ s.view.reconnects = v.reconnects
  <2>1. c.heap \in Seq(Obj) /\ rawAddr \in Addrs \cup {"nil"} /\ IsView(c.heap, v)
    BY Zenon, <1>2, <1>12 DEF ViewsInv
  <2>2. s = SnapshotLocked(c.heap, v)
    BY Zenon, <1>9
  <2> QED
    BY Zenon, <2>1, <2>2, SnapshotFresh
<1>14. s.view.addr = w.addr
  BY Zenon, <1>8, <1>13 DEF AddrLocked
<1>15. /\ IsView(heap', v) /\ Contents(heap', v) = Contents(c.heap, v)
       /\ Reach(heap', v) = Reach(c.heap, v) /\ Reach(c.heap, v) \subseteq 1 .. Len(c.heap)
  BY <1>2, <1>10, <1>12, <1>13, ViewKept
<1>16. /\ views' = [a \in Holders |-> views'[a]] /\ seen' = [a \in Holders |-> seen'[a]]
       /\ views'["wrapper"] = v /\ views'["closed"] = s.view
       /\ seen'["closed"] = Contents(c.heap, v)
       /\ seen'["wrapper"] = [seen["wrapper"] EXCEPT ![2] = InfoAt(c.heap, v.ClosedInfo)]
       /\ views'["opened"] = views["opened"] /\ seen'["opened"] = seen["opened"]
  BY Zenon, <1>4, <1>10 DEF ViewsInv
<1>17. "wrapper" \notin touched => seen'["wrapper"] = Contents(c.heap, v)
  <2> SUFFICES ASSUME "wrapper" \notin touched
               PROVE  seen'["wrapper"] = Contents(c.heap, v)
    OBVIOUS
  <2>1. seen["wrapper"] = Contents(c.heap, w)
    BY <1>3, <1>4, <1>11 DEF ViewsInv, Detached
  <2>2. seen["wrapper"] = <<InfoAt(c.heap, v.OpenedInfo), InfoAt(c.heap, w.ClosedInfo)>>
    BY <1>8, <2>1 DEF Contents
  <2>3. seen'["wrapper"] = <<InfoAt(c.heap, v.OpenedInfo), InfoAt(c.heap, v.ClosedInfo)>>
    BY <1>16, <2>2
  <2> QED
    BY Zenon, <2>3 DEF Contents
<1>18. Grown(heap, heap') /\ heap' \in Seq(Obj) /\ rawAddr' \in Addrs \cup {"nil"}
  BY Zenon, <1>0, <1>2, <1>10, <1>13, GrownOn DEF ViewsInv
<1>19. Len(heap) \in Nat /\ Len(c.heap) \in Nat /\ Len(heap) <= Len(c.heap)
  BY <1>2, <1>5 DEF Grown
<1>20. Reach(heap', s.view) \subseteq Nat
  <2>1. Grown(heap', heap') /\ Len(heap') \in Nat
    BY <1>18 DEF Grown
  <2>2. Reach(heap', s.view) \subseteq DOMAIN heap'
    BY Zenon, <1>10, <1>13, <2>1, ViewKept
  <2> QED
    BY <1>18, <2>2
<1>21. \A o \in Reach(heap', s.view) : o > Len(heap)
  BY <1>10, <1>13, <1>19, <1>20
<1>22. Reach(heap', v) \cap Reach(heap', s.view) = {}
  BY <1>10, <1>13, <1>15, <1>19
<1>23. {"wrapper", "closed"} \in SUBSET Holders
  BY <1>4
<1>24. \A a \in Holders \ {"wrapper", "closed"} : views'[a] = views[a] /\ seen'[a] = seen[a]
  BY <1>16 DEF Holders
<1>25. \A a \in {"wrapper", "closed"} :
         /\ IsView(heap', views'[a])
         /\ a \notin touched => Contents(heap', views'[a]) = seen'[a]
         /\ \A o \in Reach(heap', views'[a]) : o \in Reach(heap, views[a]) \/ o > Len(heap)
  <2>1. /\ IsView(heap', v)
        /\ "wrapper" \notin touched => Contents(heap', v) = seen'["wrapper"]
        /\ \A o \in Reach(heap', v) : o \in Reach(heap, views["wrapper"]) \/ o > Len(heap)
    BY <1>3, <1>12, <1>15, <1>17
  <2>2. /\ IsView(heap', s.view) /\ Contents(heap', s.view) = seen'["closed"]
    BY Zenon, <1>10, <1>13, <1>16
  <2> QED
    BY <1>16, <1>21, <2>1, <2>2
<1>26. \A a, b \in {"wrapper", "closed"} :
         a # b => Reach(heap', views'[a]) \cap Reach(heap', views'[b]) = {}
  BY <1>16, <1>22
<1>27. ViewsInv'
  BY Zenon, <1>0, <1>16, <1>18, <1>23, <1>24, <1>25, <1>26, Joined
<1>28. AgreeInv'
  BY Zenon, <1>0, <1>8, <1>13, <1>14, <1>16, <1>17 DEF AgreeInv
<1> QED
  BY <1>3, <1>8, <1>14, <1>16, <1>27, <1>28

\* Neither a reconnect count nor a new address of the raw connection changes what
\* the holders reach or read.
LEMMA PlainViews ==
  ASSUME ViewsInv, SetReconnects \/ RawAddrChanges
  PROVE  ViewsInv' /\ \A a \in Holders : views'[a].addr = views[a].addr
<1>1. /\ heap' = heap /\ seen' = seen /\ rawAddr' \in Addrs \cup {"nil"}
      /\ touched \subseteq touched'
  BY DEF SetReconnects, RawAddrChanges, ViewsInv
<1>2. /\ views' = [a \in Holders |-> views'[a]]
      /\ \A a \in Holders : /\ views'[a] \in ViewType /\ views'[a].addr = views[a].addr
                            /\ views'[a].OpenedInfo = views[a].OpenedInfo
                            /\ views'[a].ClosedInfo = views[a].ClosedInfo
  <2>1. \A a \in Holders : views[a] \in ViewType
    BY DEF ViewsInv, IsView
  <2>2. CASE SetReconnects
    <3>1. PICK u : u = [views["wrapper"] EXCEPT !.reconnects = 1]
      BY Zenon
    <3>2. views["wrapper"] \in ViewType
      BY <2>1 DEF Holders
    <3>3. /\ u \in ViewType /\ u.addr = views["wrapper"].addr
          /\ u.OpenedInfo = views["wrapper"].OpenedInfo
          /\ u.ClosedInfo = views["wrapper"].ClosedInfo
      BY <3>1, <3>2 DEF ViewType
    <3>4. views' = [views EXCEPT !["wrapper"] = u]
      BY <2>2, <3>1 DEF SetReconnects
    <3> QED
      BY <2>1, <3>3, <3>4 DEF ViewsInv
  <2>3. CASE RawAddrChanges
    BY <2>1, <2>3 DEF RawAddrChanges, ViewsInv
  <2> QED
    BY <2>2, <2>3
<1>3. \A a \in Holders : /\ Reach(heap, views'[a]) = Reach(heap, views[a])
                         /\ Contents(heap, views'[a]) = Contents(heap, views[a])
                         /\ IsView(heap, views'[a])
  <2> SUFFICES ASSUME NEW a \in Holders
               PROVE  /\ Reach(heap, views'[a]) = Reach(heap, views[a])
                      /\ Contents(heap, views'[a]) = Contents(heap, views[a])
                      /\ IsView(heap, views'[a])
    BY Zenon
  <2>1. /\ views'[a] \in ViewType /\ views'[a].OpenedInfo = views[a].OpenedInfo
        /\ views'[a].ClosedInfo = views[a].ClosedInfo
    BY <1>2
  <2>2. /\ Reach(heap, views'[a]) = Reach(heap, views[a])
        /\ Contents(heap, views'[a]) = Contents(heap, views[a])
    BY Zenon, <2>1, ViewsAlike
  <2>3. IsView(heap, views[a])
    BY DEF ViewsInv
  <2> QED
    BY Zenon, <2>1, <2>2, <2>3 DEF IsView
<1>4. Detached'
  BY <1>1, <1>3 DEF Detached, ViewsInv
<1> QED
  BY Zenon, <1>1, <1>2, <1>3, <1>4 DEF ViewsInv

\* A write reaches one holder, which has then touched what it holds.
LEMMA ChangeViews ==
  ASSUME ViewsInv, NEW a \in Holders, NEW o \in Reach(heap, views[a]), Change(a, o)
  PROVE  ViewsInv'
<1>1. /\ touched' = touched \cup {a} /\ rawAddr' = rawAddr /\ views' = views /\ seen' = seen
      /\ heap' = WriteTo(heap, o)
  BY DEF Change, WriteTo
<1>2. \A b \in Holders : Reach(heap, views[b]) \subseteq DOMAIN heap
  <2>1. Grown(heap, heap)
    BY DEF Grown, ViewsInv
  <2> QED
    BY <2>1, ViewKept DEF ViewsInv
<1>3. o \in DOMAIN heap
  BY <1>2
<1>4. heap' \in Seq(Obj)
  BY Zenon, <1>1, <1>3, WriteSlice DEF ViewsInv
<1>5. ASSUME NEW b \in Holders
      PROVE  /\ IsView(heap', views[b]) /\ Reach(heap', views[b]) = Reach(heap, views[b])
             /\ o \notin Reach(heap, views[b]) => Contents(heap', views[b]) = Contents(heap, views[b])
  BY <1>1, <1>3, WriteView DEF ViewsInv
<1>6. Detached'
  BY Zenon, <1>1, <1>5 DEF Detached, ViewsInv
<1> QED
  BY Zenon, <1>1, <1>4, <1>5, <1>6 DEF ViewsInv

\* The heap is sound to begin with, and every step keeps it so.
LEMMA InitViews == ASSUME Init PROVE ViewsInv
<1>1. NoView \in ViewType /\ NoView.OpenedInfo = nil /\ NoView.ClosedInfo = nil
  BY DEF NoView, ViewType, nil
<1>2. /\ heap = <<>> /\ rawAddr \in Addrs \cup {"nil"}
      /\ views = [a \in Holders |-> NoView]
      /\ seen = [a \in Holders |-> Contents(<<>>, NoView)]
  BY DEF Init
<1>3. Reach(heap, NoView) = {} /\ IsView(heap, NoView)
  BY <1>1, ReachIsFeet DEF IsView, RefInfo
<1>4. heap \in Seq(Obj)
  BY <1>2
<1> QED
  BY <1>2, <1>3, <1>4 DEF ViewsInv, Detached

\* Every step keeps the invariant.
LEMMA StepViews == ASSUME ViewsInv, [Next]_vars PROVE ViewsInv'
<1>1. CASE UNCHANGED vars
  BY Zenon, <1>1 DEF ViewsInv, Detached, vars
<1> QED
  BY Zenon, <1>1, WrapViews, CloseViews, PlainViews, ChangeViews DEF Next

\* The inductive invariant of the views: the objects are well formed, each holder
\* sees only objects of the heap, no object is seen by two holders, and a holder
\* that wrote nothing reads what it was given.
THEOREM ViewsSound == Spec => []ViewsInv
BY InitViews, StepViews, PTL DEF Spec

\* A snapshot is detached: for any sequence of writes by the holders, a holder that
\* wrote nothing goes on reading what it was given.
THEOREM DetachedForEver == Spec => []Detached
<1>1. ViewsInv => Detached
  BY DEF ViewsInv
<1> QED
  BY <1>1, ViewsSound, PTL

\* After Close nothing but the reconnects of the wrapper changes in a view, and
\* whoever changes those has touched the wrapper.
LEMMA StepAgree == ASSUME ViewsInv, AgreeInv, [Next]_vars PROVE AgreeInv'
<1>1. CASE UNCHANGED vars
  BY Zenon, <1>1 DEF AgreeInv, vars
<1>2. CASE WrapConn
  BY <1>2 DEF WrapConn, AgreeInv
<1>3. CASE Close
  BY <1>3, CloseViews
<1>4. CASE SetReconnects
  <2> SUFFICES ASSUME step' = "closed" PROVE AgreeInv'
    BY Zenon DEF AgreeInv
  <2>1. /\ step = "closed" /\ seen' = seen /\ touched' = touched \cup {"wrapper"}
        /\ views' = [views EXCEPT !["wrapper"].reconnects = 1]
    BY <1>4 DEF SetReconnects
  <2>2. PICK w : w = views["wrapper"]
    OBVIOUS
  <2>3. w \in ViewType
    BY <2>2 DEF ViewsInv, IsView, Holders
  <2>4. PICK u : u = [w EXCEPT !.reconnects = 1]
    BY Zenon
  <2>5. /\ u.conn = w.conn /\ u.addr = w.addr /\ u.infoErr = w.infoErr
        /\ u.OpenedInfo = w.OpenedInfo /\ u.ClosedInfo = w.ClosedInfo
    BY <2>3, <2>4 DEF ViewType
  <2>6. views' = [views EXCEPT !["wrapper"] = u]
    BY <2>1, <2>2, <2>4
  <2>7. views'["wrapper"] = u /\ views'["closed"] = views["closed"]
    BY <2>6 DEF ViewsInv, Holders
  <2> QED
    BY <2>1, <2>2, <2>5, <2>7 DEF AgreeInv
<1>5. CASE RawAddrChanges
  BY Zenon, <1>5 DEF RawAddrChanges, AgreeInv
<1>6. ASSUME NEW a \in Holders, NEW o \in Reach(heap, views[a]), Change(a, o) PROVE AgreeInv'
  BY <1>6 DEF Change, AgreeInv
<1> QED
  BY <1>1, <1>2, <1>3, <1>4, <1>5, <1>6 DEF Next

\* What the warnings say depends on what the Infos say and on which are nil.
LEMMA WarningsAlike ==
  ASSUME NEW h, NEW v, NEW w, Contents(h, v) = Contents(h, w), v.reconnects = w.reconnects,
         v.OpenedInfo = nil <=> w.OpenedInfo = nil, v.ClosedInfo = nil <=> w.ClosedInfo = nil
  PROVE  Warnings(h, v) = Warnings(h, w)
<1>1. /\ InfoAt(h, v.OpenedInfo) = InfoAt(h, w.OpenedInfo)
      /\ InfoAt(h, v.ClosedInfo) = InfoAt(h, w.ClosedInfo)
  BY SMTT(20) DEF Contents
<1>2. ASSUME NEW i, NEW j, i # nil, j # nil, InfoAt(h, i) = InfoAt(h, j)
      PROVE  h[i].val = h[j].val /\ h[h[i].sys].val = h[h[j].sys].val
  BY Zenon, <1>2 DEF InfoAt
<1>3. /\ v.OpenedInfo # nil => /\ h[v.OpenedInfo].val = h[w.OpenedInfo].val
                               /\ h[h[v.OpenedInfo].sys].val = h[h[w.OpenedInfo].sys].val
      /\ v.ClosedInfo # nil => /\ h[v.ClosedInfo].val = h[w.ClosedInfo].val
                               /\ h[h[v.ClosedInfo].sys].val = h[h[w.ClosedInfo].sys].val
  BY Zenon, <1>1, <1>2
<1> QED
  BY Zenon, <1>3 DEF Warnings

\* After Close the wrapper and the callback's snapshot tell the same story, as
\* long as neither was written to since: the same infos, warnings, error, address
\* and reconnects in ToMap.
THEOREM MapsAlwaysAgree == Spec => []MapsAgree
<1>1. Init => AgreeInv
  BY Zenon DEF Init, AgreeInv
<1>2. ASSUME ViewsInv, AgreeInv PROVE MapsAgree
  <2> SUFFICES ASSUME step = "closed", "wrapper" \notin touched, "closed" \notin touched
               PROVE  ToMap(heap, views["wrapper"]) = ToMap(heap, views["closed"])
    BY DEF MapsAgree
  <2>1. PICK w, s : w = views["wrapper"] /\ s = views["closed"]
    OBVIOUS
  <2>2. /\ ~w.conn /\ ~s.conn /\ s.addr = w.addr /\ s.infoErr = w.infoErr
        /\ s.OpenedInfo = nil <=> w.OpenedInfo = nil
        /\ s.ClosedInfo = nil <=> w.ClosedInfo = nil
        /\ s.reconnects = w.reconnects /\ seen["closed"] = seen["wrapper"]
    BY Zenon, <1>2, <2>1 DEF AgreeInv
  <2>3. Contents(heap, w) = Contents(heap, s)
    BY Zenon, <1>2, <2>1, <2>2 DEF ViewsInv, Detached, Holders
  <2>4. Warnings(heap, w) = Warnings(heap, s)
    BY Zenon, <2>2, <2>3, WarningsAlike
  <2>5. /\ InfoAt(heap, w.OpenedInfo) = InfoAt(heap, s.OpenedInfo)
        /\ InfoAt(heap, w.ClosedInfo) = InfoAt(heap, s.ClosedInfo)
    BY <2>3 DEF Contents
  <2>6. AddrString(w, "") = AddrString(s, "")
    BY Zenon, <2>2 DEF AddrString, AddrLocked
  <2> QED
    BY Zenon, <2>1, <2>2, <2>4, <2>5, <2>6 DEF ToMap
<1> QED
  BY <1>1, <1>2, StepAgree, ViewsSound, PTL DEF Spec

\* An address that was known when the connection was wrapped is stored in every
\* view that is given out.
AddrInv ==
  /\ step \in {"new", "open", "closed"} /\ (step = "new" => wrapAddr = "nil")
  /\ wrapAddr # "nil" => \A a \in Got : views[a].addr = wrapAddr

\* Every step keeps the addresses.
LEMMA StepAddr == ASSUME ViewsInv, AddrInv, [Next]_vars PROVE AddrInv'
<1>1. CASE UNCHANGED vars
  BY <1>1 DEF AddrInv, vars, Got
<1>2. CASE WrapConn
  <2>1. step' = "open" /\ wrapAddr' = rawAddr /\ emitOpen' = emitOpen
    BY <1>2 DEF WrapConn, Same
  <2> QED
    BY Zenon, <1>2, <2>1, WrapViews DEF AddrInv, Got
<1>3. CASE Close
  <2>1. step = "open" /\ step' = "closed" /\ wrapAddr' = wrapAddr /\ emitOpen' = emitOpen
    BY <1>3 DEF Close, Same
  <2> QED
    BY <1>3, <2>1, CloseViews DEF AddrInv, Got
<1>4. CASE SetReconnects \/ RawAddrChanges
  <2>1. step' = step /\ wrapAddr' = wrapAddr /\ emitOpen' = emitOpen
    BY <1>4 DEF SetReconnects, RawAddrChanges, Same
  <2> QED
    BY <1>4, <2>1, PlainViews DEF AddrInv, Got, Holders
<1>5. ASSUME NEW a \in Holders, NEW o \in Reach(heap, views[a]), Change(a, o) PROVE AddrInv'
  BY <1>5 DEF Change, Same, AddrInv, Got
<1> QED
  BY <1>1, <1>2, <1>3, <1>4, <1>5 DEF Next

\* The wrapper and both snapshots give the address of the moment of wrapping for
\* ever, whatever the raw connection says later.
THEOREM AddressAlwaysKept == Spec => []AddressKept
<1>1. Init => AddrInv
  BY DEF Init, AddrInv
<1>2. AddrInv => AddressKept
  BY DEF AddrInv, AddressKept, AddrString, AddrLocked
<1> QED
  BY <1>1, <1>2, StepAddr, ViewsSound, PTL DEF Spec
=============================================================================
