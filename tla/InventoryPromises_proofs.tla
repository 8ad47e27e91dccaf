------------------------ MODULE InventoryPromises_proofs ------------------------
(***************************************************************************)
(* What the answers of InventoryLedger promise, for every set of bins,     *)
(* sites, trips, keys, sessions and requests: an unpack places its child,  *)
(* an answered call is in the ledgers, no move comes between a pack and    *)
(* the sites it was validated for, a cleared trip is clear, and the        *)
(* ledgers implement the abstract forest.                                  *)
(*                                                                         *)
(* The argument: a key tells what its row says (RowInv), a transaction     *)
(* writes only what its session was asked (Writes) and comes to its commit *)
(* with all of it (Complete); what a pack has read of locations can only   *)
(* be changed by a sighting, for it holds the lock (PackStands).           *)
(***************************************************************************)
EXTENDS InventoryLedger_proofs, WellFoundedInduction

(* Any numbers have a smallest one, and a largest one if bounded.          *)
LEMMA SmallestOf ==
  ASSUME NEW S \in SUBSET Nat, S # {}
  PROVE  \E x \in S : \A y \in S : x <= y
<1> DEFINE R == {p \in Nat \X Nat : p[1] < p[2]}
<1>1. IsWellFoundedOn(R, Nat)
  BY NatLessThanWellFounded DEF OpToRel
<1>2. \A x, y \in Nat : x < y => <<x, y>> \in R
  OBVIOUS
<1> HIDE DEF R
<1>3. PICK x \in S : \A y \in S : ~ (<<y, x>> \in R)
  BY <1>1, WFMin
<1>4. ASSUME NEW y \in S
      PROVE  x <= y
  <2>1. x \in Nat /\ y \in Nat /\ ~(y < x)
    BY <1>2, <1>3
  <2> QED
    BY <2>1
<1> QED
  BY <1>4

-------------------------------------------------------------------------------
(* Identity values are numbers below the next one, and unique.             *)
Ledger(L, next) ==
  /\ next \in Nat
  /\ \A e \in L : e.seq \in Nat /\ e.seq < next
  /\ \A e, f \in L : e.seq = f.seq => e = f

(* A bin that some row locates has a row that decides, and only one.       *)
LEMMA DeciderExists ==
  ASSUME NEW L, NEW next, Ledger(L, next), NEW b, \E e \in L : Locates(e, b)
  PROVE  \E d \in L : Decides(L, d, b)
<1> DEFINE S == {next - e.seq : e \in {f \in L : Locates(f, b)}}
<1>1. S \in SUBSET Nat /\ S # {}
  BY DEF Ledger
<1>2. PICK n \in S : \A m \in S : n <= m
  BY <1>1, SmallestOf
<1>3. PICK d \in L : Locates(d, b) /\ n = next - d.seq
  OBVIOUS
<1>4. ASSUME NEW f \in L, Locates(f, b)
      PROVE  f.seq <= d.seq
  <2>1. next - d.seq <= next - f.seq
    BY <1>2, <1>3, <1>4
  <2> QED
    BY <2>1 DEF Ledger
<1> QED
  BY <1>3, <1>4 DEF Decides

LEMMA DeciderUnique ==
  ASSUME NEW L, NEW next, Ledger(L, next), NEW b,
         NEW d \in L, Decides(L, d, b)
  PROVE  /\ \A e \in L : Decides(L, e, b) => e = d
         /\ FoldBinLocation(L, b) = LocationOf(d)
<1>1. \A e \in L : Decides(L, e, b) => e = d
  BY DEF Decides, Ledger
<1> QED
  BY <1>1 DEF FoldBinLocation

(* The rows of M that are not in L do not decide where b is: then it is    *)
(* where L says.                                                           *)
LEMMA OldDecider ==
  ASSUME NEW M, NEW next, Ledger(M, next), NEW L \in SUBSET M, NEW b,
         \A d \in M \ L : ~Decides(M, d, b)
  PROVE  /\ FoldBinLocation(M, b) = FoldBinLocation(L, b)
         /\ SightedLast(L, b) => SightedLast(M, b)
<1>1. Ledger(L, next)
  BY DEF Ledger
<1>2. CASE \E e \in M : Locates(e, b)
  <2>1. PICK d \in M : Decides(M, d, b)
    BY <1>2, DeciderExists
  <2>2. d \in L /\ Decides(L, d, b)
    BY <2>1 DEF Decides
  <2>3. /\ FoldBinLocation(M, b) = LocationOf(d)
        /\ FoldBinLocation(L, b) = LocationOf(d)
    BY <1>1, <2>1, <2>2, DeciderUnique
  <2>4. \A e \in L : Decides(L, e, b) => e = d
    BY <1>1, <2>2, DeciderUnique
  <2> QED
    BY <2>1, <2>2, <2>3, <2>4 DEF SightedLast
<1>3. CASE ~ \E e \in M : Locates(e, b)
  BY <1>3 DEF FoldBinLocation, Decides, SightedLast
<1> QED
  BY <1>2, <1>3

(* Rows that are no moves leave a bin where it was, or sighted.            *)
LEMMA SightingsOnly ==
  ASSUME NEW M, NEW next, Ledger(M, next), NEW L \in SUBSET M,
         \A e \in M \ L : e.kind \notin MoveKinds,
         NEW b, NEW location,
         FoldBinLocation(L, b) = location \/ SightedLast(L, b)
  PROVE  FoldBinLocation(M, b) = location \/ SightedLast(M, b)
<1>1. CASE \E d \in M \ L : Decides(M, d, b)
  BY <1>1 DEF SightedLast, SightingKinds, Decides, Locates
<1>2. CASE \A d \in M \ L : ~Decides(M, d, b)
  BY <1>2, OldDecider
<1> QED
  BY <1>1, <1>2

-------------------------------------------------------------------------------
(* Keys of different origin differ, and a key determines its parts.        *)
LEMMA KeyParts ==
  /\ \A k, x : <<"client", k>> # <<"containment-unpack-place", x>>
  /\ \A k, x : <<"containment-unpack-place", k>> = <<"containment-unpack-place", x>> => k = x
  /\ \A k, b, x : /\ <<"client", k>> # <<"binplace", b, x>>
                  /\ <<"containment-unpack-place", k>> # <<"binplace", b, x>>
  /\ \A k, t, b, x : /\ <<"client", k>> # <<"arrive-all", t, b, x>>
                     /\ <<"containment-unpack-place", k>> # <<"arrive-all", t, b, x>>
  /\ \A k, a, t, b, x : <<"binplace", a, k>> # <<"arrive-all", t, b, x>>
  /\ \A a, k, b, x : <<"binplace", a, k>> = <<"binplace", b, x>> => a = b /\ k = x
  /\ \A a, b, c, t, x, y : <<"arrive-all", a, b, c>> = <<"arrive-all", t, x, y>> =>
       a = t /\ b = x /\ c = y
OBVIOUS

(* Every session but s keeps all its registers.                            *)
Bystanders(s) ==
  OthersKeep(s) /\ \A t \in Sessions \ {s} : plan'[t] = plan[t] /\ done'[t] = done[t]

Own(s) == Writes(s) /\ Arrivals(s) /\ Complete(s) /\ PackStands(s)

LEMMA OthersRecords ==
  ASSUME NEW s, Bystanders(s), NEW t \in Sessions \ {s}
  PROVE  /\ \A x, arrivals : Records(t, x, arrivals)' <=> Records(t, x, arrivals)
         /\ \A f : Contains(f, t)' <=> Contains(f, t)
BY DEF Bystanders, OthersKeep, Records, Contains, UnpackPlace, ArriveEvent, EventOf

(* A session that is at no statement after its first has written nothing.  *)
LEMMA UnwrittenOwn ==
  ASSUME NEW s \in Sessions, \A e \in trips : e.by # s, \A e \in nest : e.by # s,
         pc[s] # "commit", done[s] = {},
         ev[s] \in Events => Records(s, ev[s], plan[s]) /\ req[s].op # "unpack",
         PackStands(s)
  PROVE  Own(s)
BY DEF Own, Writes, Arrivals, Complete

(* A step of s that writes no row keeps what holds of the other sessions.  *)
LEMMA QuietPromise ==
  ASSUME PromiseInv, NEW s \in Sessions, Bystanders(s),
         UNCHANGED <<trips, nest, tripSeq>>, Own(s)'
  PROVE  RowInv' /\ TransactionInv'
<1>1. RowInv /\ TransactionInv /\ TypeInv
  BY DEF PromiseInv, IInv
<1>2. ASSUME NEW t \in Sessions \ {s}
      PROVE  Own(t)'
  <2>1. /\ pc'[t] = pc[t] /\ req'[t] = req[t] /\ ev'[t] = ev[t] /\ seen'[t] = seen[t]
        /\ plan'[t] = plan[t] /\ done'[t] = done[t]
    BY DEF Bystanders, OthersKeep
  <2>2. Writes(t) /\ Arrivals(t) /\ Complete(t) /\ PackStands(t)
    BY <1>1 DEF TransactionInv
  <2>3. Writes(t)'
    BY <2>1, <2>2, OthersRecords DEF Writes
  <2>4. Arrivals(t)' /\ Complete(t)' /\ PackStands(t)'
    BY <2>1, <2>2 DEF Arrivals, Complete, PackStands, Stands
  <2> QED
    BY <2>3, <2>4 DEF Own
<1>3. RowInv'
  <2>1. \A e : KeyTells(e)' <=> KeyTells(e)
    BY DEF KeyTells
  <2>2. ASSUME NEW f \in nest, f.kind = "unpack", f.by # None, pc'[f.by] = "commit"
        PROVE  \E e \in trips : Places(e, f)
    <3>1. f.by \in Sessions
      BY <1>1, <2>2, RowTypes DEF NestRows
    <3>2. CASE f.by # s
      BY <1>1, <2>2, <3>1, <3>2 DEF RowInv, Bystanders, OthersKeep
    <3>3. CASE f.by = s
      <4>1. Contains(f, s)' /\ Complete(s)' /\ Writes(s)'
        BY <2>2, <3>3 DEF Own, Writes
      <4>2. req'[s].op = "unpack" /\ f.bin = req'[s].bin /\ f.key = req'[s].key
            /\ f.site = seen'[s]
        BY <2>2, <4>1 DEF Contains
      <4>3. PICK e \in trips : e.by = s
        BY <2>2, <3>3, <4>1, <4>2 DEF Complete
      <4>4. EventIn(e) = UnpackPlace(req'[s], seen'[s])
        BY <4>1, <4>2, <4>3 DEF Writes, Records
      <4> QED
        BY <2>2, <3>3, <4>2, <4>3, <4>4 DEF Places, EventIn, UnpackPlace
    <3> QED
      BY <3>2, <3>3
  <2> QED
    BY <1>1, <2>1, <2>2 DEF RowInv
<1> QED
  BY <1>2, <1>3 DEF TransactionInv, Own

(* After its transaction a session promises nothing.                       *)
LEMMA EndedOwn ==
  ASSUME TypeInv, NEW s \in Sessions, NEW answer \in Resting,
         EndTransaction(s, answer),
         \A e \in trips' : e.by # s, \A e \in nest' : e.by # s
  PROVE  Bystanders(s) /\ pc'[s] # "commit" /\ Own(s)'
<1>1. /\ pc'[s] = answer /\ req'[s] = NoRequest /\ ev'[s] = NoEvent /\ done'[s] = {}
      /\ Bystanders(s)
  BY DEF TypeInv, TypeOK, EndTransaction, Goto, Bystanders, OthersKeep
<1>2. pc'[s] # "commit" /\ req'[s].op = "none" /\ ev'[s] \notin Events
  BY <1>1, ConstantTypes DEF Resting, NoRequest
<1>3. Own(s)'
  BY <1>1, <1>2 DEF Own, Writes, Arrivals, Complete, PackStands
<1> QED
  BY <1>1, <1>2, <1>3

LEMMA EndOnlyPromise ==
  ASSUME PromiseInv, NEW s \in Sessions, NEW answer \in Resting,
         EndTransaction(s, answer),
         UNCHANGED <<trips, nest, tripSeq, nestSeq, crashes>>,
         \A e \in nest : e.by # s, \A e \in trips : e.by # s
  PROVE  RowInv' /\ TransactionInv'
<1>1. TypeInv
  BY DEF PromiseInv, IInv
<1>2. Bystanders(s) /\ Own(s)'
  BY <1>1, EndedOwn
<1> QED
  BY <1>2, QuietPromise

(* Rolling back takes both rows of an unpack, and no committed one.        *)
LEMMA RollbackPromise ==
  ASSUME PromiseInv, NEW s \in Sessions, NEW answer \in Resting, Rollback(s, answer)
  PROVE  RowInv' /\ TransactionInv'
<1>1. /\ EndTransaction(s, answer)
      /\ trips' = {e \in trips : e.by # s}
      /\ nest' = {e \in nest : e.by # s}
      /\ tripSeq' = tripSeq
  BY DEF Rollback
<1>2. TypeInv /\ RowInv /\ TransactionInv
  BY DEF PromiseInv, IInv
<1>3. Bystanders(s) /\ pc'[s] # "commit" /\ Own(s)'
  BY <1>1, <1>2, EndedOwn
<1>4. RowInv'
  <2>1. \A e \in trips' : KeyTells(e)'
    BY <1>1, <1>2 DEF RowInv, KeyTells, Places
  <2>2. ASSUME NEW f \in nest', f.kind = "unpack"
        PROVE  (\E e \in trips' : Places(e, f)) \/ (f.by # None /\ pc'[f.by] # "commit")
    <3>1. f \in nest /\ f.by # s /\ f.by \in Sessions \cup {None}
      BY <1>1, <1>2, RowTypes DEF NestRows
    <3>2. CASE \E e \in trips : Places(e, f)
      BY <1>1, <3>1, <3>2 DEF Places
    <3>3. CASE f.by # None /\ pc[f.by] # "commit"
      BY <1>3, <3>1, <3>3 DEF Bystanders, OthersKeep
    <3> QED
      BY <1>2, <2>2, <3>1, <3>2, <3>3 DEF RowInv
  <2> QED
    BY <1>1, <1>2, <2>1, <2>2 DEF RowInv
<1>5. ASSUME NEW t \in Sessions \ {s}
      PROVE  Own(t)'
  <2>1. /\ pc'[t] = pc[t] /\ req'[t] = req[t] /\ ev'[t] = ev[t] /\ seen'[t] = seen[t]
        /\ plan'[t] = plan[t] /\ done'[t] = done[t]
    BY <1>3 DEF Bystanders, OthersKeep
  <2>2. Writes(t) /\ Arrivals(t) /\ Complete(t) /\ PackStands(t)
    BY <1>2 DEF TransactionInv
  <2>3. Writes(t)'
    BY <1>1, <1>3, <2>1, <2>2, OthersRecords DEF Writes
  <2>4. Arrivals(t)'
    BY <1>1, <1>2, <2>1, <2>2, RowTypes DEF Arrivals, RowsOf, Visible
  <2>5. Complete(t)'
    BY <1>1, <2>1, <2>2 DEF Complete
  <2>6. Committed(trips') = Committed(trips) /\ Committed(nest') = Committed(nest)
    BY <1>1, <1>2, RowTypes DEF Committed
  <2>7. PackStands(t)'
    BY <2>1, <2>2, <2>6 DEF PackStands, Stands
  <2> QED
    BY <2>3, <2>4, <2>5, <2>7 DEF Own
<1> QED
  BY <1>3, <1>4, <1>5 DEF TransactionInv, Own

LEMMA RefusePromise ==
  ASSUME PromiseInv, NEW s \in Sessions, Refuse(s)
  PROVE  RowInv' /\ TransactionInv'
BY RollbackPromise DEF Refuse, Resting

-------------------------------------------------------------------------------
(* A step that only moves the program counter, before the commit.          *)
LEMMA GotoPromise ==
  ASSUME PromiseInv, NEW s \in Sessions, NEW label \in Busy \ {"commit"},
         pc[s] # "commit", Goto(s, label),
         UNCHANGED <<trips, nest, tripSeq, txVars>>,
         label = "checksum" => done[s] = {}, PackStands(s)'
  PROVE  RowInv' /\ TransactionInv'
<1>1. TypeInv /\ TransactionInv
  BY DEF PromiseInv, IInv
<1>2. Bystanders(s) /\ pc'[s] = label
  BY <1>1 DEF TypeInv, TypeOK, Goto, txVars, Bystanders, OthersKeep
<1>3. Writes(s)' /\ Arrivals(s)' /\ Complete(s)'
  BY <1>1, <1>2 DEF TransactionInv, Writes, Arrivals, Complete, Records, Contains, txVars
<1> QED
  BY <1>2, <1>3, QuietPromise DEF Own

(* One lemma per action.                                                   *)
LEMMA BeginPromise ==
  ASSUME PromiseInv, NEW s \in Sessions, NEW r \in Requests, Begin(s, r)
  PROVE  RowInv' /\ TransactionInv'
<1>1. TypeInv /\ SessionInv /\ TransactionInv
  BY DEF PromiseInv, IInv
<1>2. /\ \A e \in nest : e.by # s
      /\ \A e \in trips : e.by # s
  BY <1>1, NothingWritten DEF Begin
<1>3. ev[s] = NoEvent /\ req[s] = NoRequest
  BY <1>1 DEF TypeInv, ControlInv, Registers, Begin
<1>4. done[s] = {}
  BY <1>1, <1>3 DEF TransactionInv, Arrivals, NoRequest
<1>5. Bystanders(s)
  BY <1>1 DEF TypeInv, TypeOK, Begin, Goto, Bystanders, OthersKeep
<1>6. UNCHANGED <<trips, nest, tripSeq, nestSeq, seen, plan, done>>
  BY DEF Begin
<1>7. /\ pc'[s] \in {"prior", "insert", "refused", "verify", "checksum", "lock"}
      /\ \/ req'[s].op \in {"event", "place_existing"} /\ ev'[s] = EventOf(req'[s])
         \/ ev'[s] = NoEvent
  BY <1>1, <1>3 DEF TypeInv, TypeOK, Begin, Goto, FirstStep
<1>8. Own(s)'
  BY <1>2, <1>4, <1>6, <1>7, ConstantTypes
     DEF Own, Writes, Records, Arrivals, Complete, PackStands
<1> QED
  BY <1>5, <1>6, <1>8, QuietPromise

LEMMA ReadPriorPromise ==
  ASSUME PromiseInv, NEW s \in Sessions, ReadPrior(s)
  PROVE  RowInv' /\ TransactionInv'
<1>1. /\ Goto(s, IF RowsOf(Visible(trips, s), ev[s].key) = {} THEN "lock" ELSE "insert")
      /\ UNCHANGED <<trips, nest, tripSeq, txVars>> /\ pc[s] = "prior"
  BY DEF ReadPrior
<1>2. req[s].op # "pack"
  BY <1>1 DEF PromiseInv, IInv, TypeInv, ControlInv, Registers, Recording
<1>3. PackStands(s)'
  BY <1>1, <1>2 DEF PackStands, txVars
<1> QED
  BY <1>1, <1>3, GotoPromise DEF Busy

LEMMA AcquireLockPromise ==
  ASSUME PromiseInv, NEW s \in Sessions, AcquireLock(s)
  PROVE  RowInv' /\ TransactionInv'
<1>1. /\ Goto(s, IF ev[s] = NoEvent THEN "validate" ELSE "check")
      /\ UNCHANGED <<trips, nest, tripSeq, txVars>> /\ pc[s] = "lock"
  BY DEF AcquireLock
<1>2. pc'[s] \in {"validate", "check"}
  BY <1>1 DEF PromiseInv, IInv, TypeInv, TypeOK, Goto
<1>3. PackStands(s)'
  BY <1>2 DEF PackStands
<1> QED
  BY <1>1, <1>3, GotoPromise DEF Busy

LEMMA CheckTopLevelPromise ==
  ASSUME PromiseInv, NEW s \in Sessions, CheckTopLevel(s)
  PROVE  RowInv' /\ TransactionInv'
<1>1. CASE Refuse(s)
  BY <1>1, RefusePromise
<1>2. CASE Goto(s, "insert") /\ UNCHANGED <<trips, nest, tripSeq, txVars>>
  <2>1. pc'[s] = "insert"
    BY <1>2 DEF PromiseInv, IInv, TypeInv, TypeOK, Goto
  <2>2. PackStands(s)'
    BY <2>1 DEF PackStands
  <2> QED
    BY <1>2, <2>2, GotoPromise DEF CheckTopLevel, Busy
<1> QED
  BY <1>1, <1>2 DEF CheckTopLevel

LEMMA VerifyPlacementPromise ==
  ASSUME PromiseInv, NEW s \in Sessions, VerifyPlacement(s)
  PROVE  RowInv' /\ TransactionInv'
<1>1. CASE Refuse(s)
  BY <1>1, RefusePromise
<1>2. CASE Goto(s, "prior") /\ UNCHANGED <<trips, nest, tripSeq, txVars>>
  <2>1. pc'[s] = "prior"
    BY <1>2 DEF PromiseInv, IInv, TypeInv, TypeOK, Goto
  <2>2. PackStands(s)'
    BY <2>1 DEF PackStands
  <2> QED
    BY <1>2, <2>2, GotoPromise DEF VerifyPlacement, Busy
<1> QED
  BY <1>1, <1>2 DEF VerifyPlacement

LEMMA ReadChecksumPromise ==
  ASSUME PromiseInv, NEW s \in Sessions, ReadChecksum(s)
  PROVE  RowInv' /\ TransactionInv'
<1>1. /\ \A e \in nest : e.by # s
      /\ \A e \in trips : e.by # s
  BY NothingWritten DEF PromiseInv, IInv, ReadChecksum
<1>2. req[s].op = "arrive_all" /\ done[s] = {}
  BY DEF PromiseInv, IInv, TypeInv, ControlInv, Registers, TransactionInv, Arrivals,
         ReadChecksum
<1>3. CASE Refuse(s)
  BY <1>3, RefusePromise
<1>4. CASE /\ EndTransaction(s, "recorded")
           /\ UNCHANGED <<trips, nest, tripSeq, nestSeq, crashes>>
  BY <1>1, <1>4, EndOnlyPromise DEF Resting
<1>5. ASSUME NEW left, NEW b \in left, NEW site,
             ev' = [ev EXCEPT ![s] = ArriveEvent(req[s].trip, b, site)],
             plan' = [plan EXCEPT ![s] = left],
             seen' = [seen EXCEPT ![s] = site],
             Goto(s, "prior"),
             UNCHANGED <<trips, nest, tripSeq, nestSeq, lock, req, done, crashes>>
      PROVE  RowInv' /\ TransactionInv'
  <2>1. /\ Bystanders(s) /\ pc'[s] = "prior" /\ plan'[s] = left /\ seen'[s] = site
        /\ ev'[s] = ArriveEvent(req[s].trip, b, site)
    BY <1>5 DEF PromiseInv, IInv, TypeInv, TypeOK, Goto, Bystanders, OthersKeep
  <2>2. Records(s, ev[s], plan[s] \ done[s])'
    BY <1>2, <1>5, <2>1 DEF Records
  <2>3. Own(s)'
    BY <1>1, <1>2, <1>5, <2>1, <2>2 DEF Own, Writes, Arrivals, Complete, PackStands
  <2> QED
    BY <1>5, <2>1, <2>3, QuietPromise
<1> QED
  BY <1>3, <1>4, <1>5 DEF ReadChecksum

(* A location with a site is that site.                                    *)
LEMMA SiteOfLocation ==
  ASSUME NEW L, NEW b, FoldBinLocation(L, b).site # None
  PROVE  FoldBinLocation(L, b) = AtSite(FoldBinLocation(L, b).site)
BY DEF FoldBinLocation, LocationOf, AtSite, InTransit, Unknown

(* A bin in no container is its own location source.                       *)
LEMMA TopLevelSource ==
  ASSUME NEW L, NEW b, ParentOf(L, b) = None
  PROVE  LocationSource(L, b) = b
<1>1. \A c \in Bins : ~Inside(L, b, c)
  BY NoneIsNoBin DEF ParentOf
<1>2. ClosedAbove(L, b, {})
  BY <1>1 DEF ClosedAbove
<1>3. PathFor(L, b) = {}
  BY <1>2 DEF PathFor
<1> QED
  BY <1>3 DEF LocationSource

LEMMA OwnRowsAside ==
  ASSUME NEW s \in Sessions, NEW L, \A e \in L : e.by # s
  PROVE  Visible(L, s) = Committed(L)
BY DEF Visible, Committed

LEMMA ValidatePromise ==
  ASSUME PromiseInv, NEW s \in Sessions, Validate(s)
  PROVE  RowInv' /\ TransactionInv'
<1> DEFINE where == WhereIs(Visible(trips, s), Visible(nest, s), req[s].box)
<1>1. /\ \A e \in nest : e.by # s
      /\ \A e \in trips : e.by # s
  BY NothingWritten DEF PromiseInv, IInv, Validate
<1>2. /\ ev[s] = NoEvent /\ req[s].op \in Containing
      /\ done[s] = {}
  BY DEF PromiseInv, IInv, TypeInv, ControlInv, Registers, TransactionInv, Arrivals,
         Validate, Containing
<1>3. CASE Refuse(s)
  BY <1>3, RefusePromise
<1>4. CASE /\ EndTransaction(s, "existed")
           /\ UNCHANGED <<trips, nest, tripSeq, nestSeq, crashes>>
  BY <1>1, <1>4, EndOnlyPromise DEF Resting
<1>5. CASE /\ seen' = [seen EXCEPT ![s] = where.site]
           /\ Goto(s, IF req[s].op = "pack" THEN "child" ELSE "append")
           /\ UNCHANGED <<trips, nest, tripSeq, nestSeq, lock, req, ev, plan, done,
                          crashes>>
  <2>1. /\ Bystanders(s) /\ seen'[s] = where.site
        /\ pc'[s] = IF req[s].op = "pack" THEN "child" ELSE "append"
    BY <1>5 DEF PromiseInv, IInv, TypeInv, TypeOK, Goto, Bystanders, OthersKeep
  <2>2. where.site # None => Stands(LocationSource(Committed(nest), req[s].box), where.site)
    BY <1>1, OwnRowsAside, SiteOfLocation DEF WhereIs, Stands
  <2>3. PackStands(s)'
    BY <1>5, <2>1, <2>2 DEF PackStands, Stands
  <2>4. Own(s)'
    BY <1>1, <1>2, <1>5, <2>1, <2>3, ConstantTypes, UnwrittenOwn
       DEF Own, Writes, Arrivals, Complete, Containing
  <2> QED
    BY <1>5, <2>1, <2>4, QuietPromise
<1> QED
  BY <1>3, <1>4, <1>5 DEF Validate

LEMMA ReadChildPromise ==
  ASSUME PromiseInv, NEW s \in Sessions, ReadChild(s)
  PROVE  RowInv' /\ TransactionInv'
<1>1. CASE Refuse(s)
  BY <1>1, RefusePromise
<1>2. CASE /\ SameKnownSite(s) /\ Goto(s, "append")
           /\ UNCHANGED <<trips, nest, tripSeq, nestSeq, lock, txVars, crashes>>
  <2>1. pc'[s] = "append" /\ pc[s] = "child"
    BY <1>2 DEF PromiseInv, IInv, TypeInv, TypeOK, Goto, ReadChild
  <2>2. Validated(s) /\ PackStands(s)
    BY DEF PromiseInv, IInv, SessionInv, TransactionInv
  <2>3. Visible(trips, s) = Committed(trips) /\ Visible(nest, s) = Committed(nest)
    BY <2>1, NothingWritten, OwnRowsAside DEF PromiseInv, IInv
  <2>4. req[s].op = "pack" /\ ParentOf(Committed(nest), req[s].bin) = None
    BY <2>1, <2>2, <2>3 DEF Validated, MayPack
  <2>5. Stands(req[s].bin, seen[s])
    BY <1>2, <2>3, <2>4, TopLevelSource DEF SameKnownSite, WhereIs, Stands
  <2>6. PackStands(s)'
    BY <1>2, <2>1, <2>2, <2>4, <2>5 DEF PackStands, Stands, SameKnownSite, txVars
  <2> QED
    BY <1>2, <2>1, <2>6, GotoPromise DEF Busy
<1> QED
  BY <1>1, <1>2 DEF ReadChild

-------------------------------------------------------------------------------
(* What one round of arrive_all leaves to do.                              *)
LEMMA NextArrivalRecords ==
  ASSUME TypeInv, NEW s \in Sessions, req[s].op = "arrive_all",
         NEW arrived, NextArrival(s, arrived), UNCHANGED <<req, seen, plan>>
  PROVE  /\ Bystanders(s) /\ done'[s] = arrived
         /\ \/ pc'[s] = "commit" /\ plan[s] \subseteq arrived
            \/ pc'[s] = "prior" /\ Records(s, ev[s], plan[s] \ done[s])'
<1>1. Bystanders(s) /\ done'[s] = arrived
  BY DEF TypeInv, TypeOK, NextArrival, Goto, Bystanders, OthersKeep
<1>2. CASE plan[s] \ arrived = {} /\ Goto(s, "commit")
  BY <1>1, <1>2 DEF TypeInv, TypeOK, Goto
<1>3. ASSUME NEW b \in plan[s] \ arrived, Goto(s, "prior"),
             ev' = [ev EXCEPT ![s] = ArriveEvent(req[s].trip, b, seen[s])]
      PROVE  pc'[s] = "prior" /\ Records(s, ev[s], plan[s] \ done[s])'
  BY <1>1, <1>3 DEF TypeInv, TypeOK, Goto, Records
<1> QED
  BY <1>1, <1>2, <1>3 DEF NextArrival

(* The arrival just recorded, or found, joins those that are done.         *)
LEMMA ArrivalOwn ==
  ASSUME PromiseInv, TypeInv', NEW s \in Sessions, req[s].op = "arrive_all",
         pc[s] = "insert", NextArrival(s, done[s] \cup {ev[s].bin}),
         UNCHANGED <<nest, req, seen, plan>>,
         trips \subseteq trips',
         \A e \in trips' \ trips : e.by = s => EventIn(e) = ev[s],
         RowsOf(Visible(trips', s), ev[s].key) # {}
  PROVE  Bystanders(s) /\ Own(s)'
<1>1. TypeInv /\ Writes(s) /\ Arrivals(s) /\ Complete(s)
  BY DEF PromiseInv, IInv, TransactionInv
<1>2. PICK b \in plan[s] \ done[s] : ev[s] = ArriveEvent(req[s].trip, b, seen[s])
  BY <1>1 DEF Writes, Records, TypeInv, ControlInv, Registers
<1>3. ev[s].bin = b /\ ev[s].key = <<"arrive-all", req[s].trip, b, seen[s]>>
  BY <1>2 DEF ArriveEvent
<1>4. /\ Bystanders(s) /\ done'[s] = done[s] \cup {b}
      /\ \/ pc'[s] = "commit" /\ plan[s] \subseteq done'[s]
         \/ pc'[s] = "prior" /\ Records(s, ev[s], plan[s] \ done[s])'
  BY <1>1, <1>3, NextArrivalRecords
<1>5. Writes(s)'
  <2>1. ASSUME NEW e \in trips', e.by = s
        PROVE  Records(s, EventIn(e), done[s])'
    <3>1. CASE e \in trips
      BY <1>1, <1>4, <2>1, <3>1 DEF Writes, Records
    <3>2. CASE e \notin trips
      BY <1>2, <1>4, <2>1, <3>2 DEF Records
    <3> QED
      BY <3>1, <3>2
  <2> QED
    BY <1>1, <1>4, <2>1 DEF Writes, Contains
<1>6. Arrivals(s)'
  <2>1. ASSUME NEW a \in done'[s]
        PROVE  RowsOf(Visible(trips', s), <<"arrive-all", req[s].trip, a, seen[s]>>) # {}
    <3>1. CASE a \in done[s]
      BY <1>1, <3>1 DEF Arrivals, RowsOf, Visible
    <3>2. CASE a = b
      BY <1>3, <3>2
    <3> QED
      BY <1>4, <3>1, <3>2
  <2> QED
    BY <1>4, <2>1 DEF Arrivals
<1>7. Complete(s)' /\ PackStands(s)'
  BY <1>4 DEF Complete, PackStands, Recording, Containing
<1> QED
  BY <1>4, <1>5, <1>6, <1>7 DEF Own

(* A step of s that adds rows of its own, none of them committed, keeps    *)
(* what holds of the other sessions.                                       *)
LEMMA OthersOwn ==
  ASSUME PromiseInv, NEW s \in Sessions, Bystanders(s),
         trips \subseteq trips', \A e \in trips' \ trips : e.by = s,
         nest \subseteq nest', \A e \in nest' \ nest : e.by = s,
         NEW t \in Sessions \ {s}
  PROVE  Own(t)'
<1>1. /\ pc'[t] = pc[t] /\ req'[t] = req[t] /\ ev'[t] = ev[t] /\ seen'[t] = seen[t]
      /\ plan'[t] = plan[t] /\ done'[t] = done[t]
  BY DEF Bystanders, OthersKeep
<1>2. Writes(t) /\ Arrivals(t) /\ Complete(t) /\ PackStands(t)
  BY DEF PromiseInv, TransactionInv
<1>3. Writes(t)'
  BY <1>1, <1>2, OthersRecords DEF Writes
<1>4. Arrivals(t)' /\ Complete(t)'
  BY <1>1, <1>2 DEF Arrivals, Complete, RowsOf, Visible
<1>5. Committed(trips') = Committed(trips) /\ Committed(nest') = Committed(nest)
  BY RowTypes DEF PromiseInv, IInv, Committed
<1>6. PackStands(t)'
  BY <1>1, <1>2, <1>5 DEF PackStands, Stands
<1> QED
  BY <1>3, <1>4, <1>6 DEF Own

LEMMA InsertEventPromise ==
  ASSUME PromiseInv, TypeInv', NEW s \in Sessions, InsertEvent(s)
  PROVE  RowInv' /\ TransactionInv'
<1> DEFINE row == [seq |-> tripSeq, by |-> s, kind |-> ev[s].kind, bin |-> ev[s].bin,
                   site |-> ev[s].site, trip |-> ev[s].trip, key |-> ev[s].key]
<1>1. /\ TypeInv /\ RowInv /\ TransactionInv
      /\ pc[s] = "insert"
      /\ RowsOf(trips, ev[s].key) = {}
      /\ trips' = trips \cup {row}
      /\ tripSeq' = tripSeq + 1
      /\ UNCHANGED <<nest, nestSeq, req, seen, plan>>
  BY DEF PromiseInv, IInv, InsertEvent
<1>2. /\ ev[s] \in Events /\ req[s].op \in Recording
      /\ Writes(s) /\ Arrivals(s)
      /\ Records(s, ev[s], plan[s] \ done[s])
  BY <1>1 DEF TypeInv, ControlInv, Registers, TransactionInv, Writes
<1>3. EventIn(row) = ev[s]
  BY <1>2 DEF EventIn, Events
<1>4. Bystanders(s) /\ Own(s)'
  <2>1. CASE req[s].op = "arrive_all" /\ NextArrival(s, done[s] \cup {ev[s].bin})
    <3>1. row \in RowsOf(Visible(trips', s), ev[s].key)
      BY <1>1 DEF RowsOf, Visible
    <3> QED
      BY <1>1, <1>3, <2>1, <3>1, ArrivalOwn
  <2>2. CASE req[s].op # "arrive_all" /\ Goto(s, "commit") /\ UNCHANGED <<ev, done>>
    <3>1. pc'[s] = "commit" /\ Bystanders(s)
      BY <1>1, <2>2 DEF TypeInv, TypeOK, Goto, Bystanders, OthersKeep
    <3>2. \A e \in trips' : e.by = s => Records(s, EventIn(e), done[s])
      BY <1>1, <1>2, <1>3, <2>2 DEF Writes, Records
    <3>3. Writes(s)'
      BY <1>1, <1>2, <2>2, <3>1, <3>2 DEF Writes, Records, Contains
    <3>4. Complete(s)'
      <4>1. row \in trips' /\ row.by = s
        BY <1>1
      <4>2. req[s].op \in Containing => \E f \in nest : f.by = s
        BY <1>2 DEF Writes, Recording, Containing
      <4> QED
        BY <1>1, <1>2, <2>2, <4>1, <4>2 DEF Complete
    <3>5. Arrivals(s)' /\ PackStands(s)'
      BY <1>1, <1>2, <2>2, <3>1 DEF Arrivals, PackStands, Recording
    <3> QED
      BY <3>1, <3>3, <3>4, <3>5 DEF Own
  <2> QED
    BY <2>1, <2>2 DEF InsertEvent
<1>5. KeyTells(row)
  <2>1. CASE req[s].op \in {"event", "place_existing"} /\ ev[s] = EventOf(req[s])
    BY <2>1, KeyParts DEF EventOf, KeyTells
  <2>2. CASE req[s].op = "unpack" /\ ev[s] = UnpackPlace(req[s], seen[s])
    <3>1. PICK f \in nest : f.by = s
      BY <1>2, <2>2 DEF Writes
    <3>2. Places(row, f)
      BY <1>2, <2>2, <3>1 DEF Writes, Contains, Places, UnpackPlace
    <3> QED
      BY <2>2, <3>2, KeyParts DEF KeyTells, UnpackPlace, Places
  <2>3. ASSUME NEW b, ev[s] = ArriveEvent(req[s].trip, b, seen[s])
        PROVE  KeyTells(row)
    BY <2>3, KeyParts DEF ArriveEvent, KeyTells
  <2> QED
    BY <1>2, <2>1, <2>2, <2>3 DEF Records
<1>6. RowInv'
  <2>1. \A e \in trips' : KeyTells(e)'
    BY <1>1, <1>5 DEF RowInv, KeyTells
  <2>2. \A e, f \in trips' : e.seq = f.seq \/ e.key = f.key => e = f
    BY <1>1, RowTypes DEF RowInv, RowsOf, TripRows
  <2>3. \A e \in trips' : e.seq < tripSeq'
    BY <1>1, RowTypes DEF RowInv, TripRows, TypeInv, TypeOK
  <2>4. ASSUME NEW f \in nest, f.kind = "unpack"
        PROVE  (\E e \in trips' : Places(e, f)) \/ (f.by # None /\ pc'[f.by] # "commit")
    <3>1. f.by \in Sessions \cup {None}
      BY <1>1, RowTypes DEF NestRows
    <3>2. CASE f.by # s
      BY <1>1, <1>4, <2>4, <3>1, <3>2 DEF RowInv, Bystanders, OthersKeep
    <3>3. CASE f.by = s
      <4>1. Contains(f, s)
        BY <1>2, <3>3 DEF Writes
      <4>2. ev[s] = UnpackPlace(req[s], seen[s])
        BY <1>2, <2>4, <4>1 DEF Contains, Records
      <4>3. Places(row, f)
        BY <2>4, <3>3, <4>1, <4>2 DEF Contains, Places, UnpackPlace
      <4> QED
        BY <1>1, <4>3
    <3> QED
      BY <3>2, <3>3
  <2> QED
    BY <1>1, <2>1, <2>2, <2>3, <2>4 DEF RowInv
<1> QED
  BY <1>1, <1>4, <1>6, OthersOwn DEF TransactionInv, Own

LEMMA ReplayEventPromise ==
  ASSUME PromiseInv, TypeInv', NEW s \in Sessions, ReplayEvent(s)
  PROVE  RowInv' /\ TransactionInv'
<1>1. /\ pc[s] = "insert"
      /\ RowsOf(Visible(trips, s), ev[s].key) # {}
  BY DEF ReplayEvent, KeyIsSettled, RowsOf
<1>2. CASE req[s].op = "arrive_all"
  <2>1. /\ NextArrival(s, done[s] \cup {ev[s].bin})
        /\ UNCHANGED <<trips, nest, tripSeq, nestSeq, lock, req, seen, plan, crashes>>
    BY <1>2 DEF ReplayEvent
  <2>2. Bystanders(s) /\ Own(s)'
    BY <1>1, <1>2, <2>1, ArrivalOwn
  <2> QED
    BY <2>1, <2>2, QuietPromise
<1>3. CASE req[s].op \in {"event", "place_existing"}
  <2>1. /\ \A e \in nest : e.by # s
        /\ \A e \in trips : e.by # s
    BY <1>1, <1>3, NothingWritten DEF PromiseInv, IInv
  <2>2. CASE /\ EndTransaction(s, "existed")
             /\ UNCHANGED <<trips, nest, tripSeq, nestSeq, crashes>>
    BY <2>1, <2>2, EndOnlyPromise DEF Resting
  <2>3. CASE Refuse(s)
    BY <2>3, RefusePromise
  <2> QED
    BY <1>3, <2>2, <2>3 DEF ReplayEvent
<1> QED
  BY <1>2, <1>3 DEF ReplayEvent

LEMMA AppendPromise ==
  ASSUME PromiseInv, TypeInv', NEW s \in Sessions, AppendContainment(s)
  PROVE  RowInv' /\ TransactionInv'
<1> DEFINE row == [seq |-> nestSeq, by |-> s, kind |-> req[s].op, bin |-> req[s].bin,
                   box |-> req[s].box, site |-> seen[s], key |-> req[s].key]
<1>1. /\ TypeInv /\ SessionInv /\ NestInv /\ RowInv /\ TransactionInv
      /\ pc[s] = "append"
      /\ nest' = nest \cup {row}
      /\ nestSeq' = nestSeq + 1
      /\ UNCHANGED <<trips, tripSeq, lock, req, seen, plan, done>>
  BY DEF PromiseInv, IInv, AppendContainment
<1>2. /\ \A e \in nest : e.by # s
      /\ \A e \in trips : e.by # s
  BY <1>1, NothingWritten
<1>3. /\ req[s].op \in Containing /\ ev[s] = NoEvent /\ seen[s] \in Sites
      /\ RowsOf(nest, req[s].key) = {}
      /\ done[s] = {} /\ PackStands(s)
  BY <1>1 DEF TypeInv, ControlInv, Registers, SessionInv, Validated, TransactionInv,
              Arrivals, Containing
<1>4. /\ Bystanders(s)
      /\ \/ req[s].op = "pack" /\ pc'[s] = "commit" /\ ev'[s] = NoEvent
         \/ /\ req[s].op = "unpack" /\ pc'[s] = "prior"
            /\ ev'[s] = UnpackPlace(req[s], seen[s])
  BY <1>1, <1>3 DEF TypeInv, TypeOK, AppendContainment, Goto, Bystanders, OthersKeep
<1>5. row \in nest' /\ row.by = s /\ \A f : f = row => Contains(f, s)'
  BY <1>1 DEF Contains
<1>6. Own(s)'
  <2>1. Writes(s)'
    <3>1. pc'[s] # "commit" /\ ev'[s] \in Events => Records(s, ev[s], plan[s] \ done[s])'
      BY <1>1, <1>4 DEF Records
    <3>2. \A f \in nest' : f.by = s => f = row
      BY <1>1, <1>2
    <3> QED
      BY <1>1, <1>2, <1>5, <3>1, <3>2 DEF Writes
  <2>2. Arrivals(s)' /\ Complete(s)'
    BY <1>1, <1>3, <1>4, <1>5 DEF Arrivals, Complete, Containing, Recording
  <2>3. Committed(trips') = Committed(trips) /\ Committed(nest') = Committed(nest)
    BY <1>1, RowTypes DEF Committed
  <2>4. PackStands(s)'
    BY <1>1, <1>3, <1>4, <2>3 DEF PackStands, Stands
  <2> QED
    BY <2>1, <2>2, <2>4 DEF Own
<1>7. RowInv'
  <2>1. \A e \in trips' : KeyTells(e)'
    BY <1>1 DEF RowInv, KeyTells
  <2>2. \A e, f \in nest' : e.seq = f.seq \/ e.key = f.key => e = f
    BY <1>1, <1>3, RowTypes DEF RowInv, RowsOf, NestRows, NestInv, Numbered
  <2>3. ASSUME NEW f \in nest', f.kind = "unpack"
        PROVE  (\E e \in trips : Places(e, f)) \/ (f.by # None /\ pc'[f.by] # "commit")
    <3>1. CASE f \in nest
      <4>1. f.by # s /\ f.by \in Sessions \cup {None}
        BY <1>1, <1>2, <3>1, RowTypes DEF NestRows
      <4> QED
        BY <1>1, <1>4, <2>3, <3>1, <4>1 DEF RowInv, Bystanders, OthersKeep
    <3>2. CASE f = row
      BY <1>1, <1>4, <2>3, <3>2, RowTypes
    <3> QED
      BY <1>1, <3>1, <3>2
  <2> QED
    BY <1>1, <2>1, <2>2, <2>3 DEF RowInv
<1> QED
  BY <1>1, <1>4, <1>6, <1>7, OthersOwn DEF TransactionInv, Own

-------------------------------------------------------------------------------
(* A commit of s rewrites the writer of its rows and nothing else.         *)
Settled(e, s) == [e EXCEPT !.by = IF @ = s THEN None ELSE @]

LEMMA SettledTrip ==
  ASSUME TypeInv, NEW s \in Sessions, NEW e \in trips
  PROVE  /\ Settled(e, s).seq = e.seq /\ Settled(e, s).kind = e.kind
         /\ Settled(e, s).bin = e.bin /\ Settled(e, s).site = e.site
         /\ Settled(e, s).trip = e.trip /\ Settled(e, s).key = e.key
         /\ Settled(e, s).by = IF e.by = s THEN None ELSE e.by
         /\ e.by # s => Settled(e, s) = e
         /\ Settled(e, s) \in Settle(trips, s)
<1>1. e \in TripRows
  BY RowTypes
<1> QED
  BY <1>1 DEF Settled, Settle, TripRows

LEMMA SettledContainment ==
  ASSUME TypeInv, NEW s \in Sessions, NEW f \in nest
  PROVE  /\ Settled(f, s).seq = f.seq /\ Settled(f, s).kind = f.kind
         /\ Settled(f, s).bin = f.bin /\ Settled(f, s).box = f.box
         /\ Settled(f, s).site = f.site /\ Settled(f, s).key = f.key
         /\ Settled(f, s).by = IF f.by = s THEN None ELSE f.by
         /\ f.by # s => Settled(f, s) = f
         /\ Settled(f, s) \in Settle(nest, s)
<1>1. f \in NestRows
  BY RowTypes
<1> QED
  BY <1>1 DEF Settled, Settle, NestRows

LEMMA SettledOf ==
  ASSUME NEW s, NEW L, NEW e \in Settle(L, s)
  PROVE  \E f \in L : e = Settled(f, s)
BY DEF Settle, Settled

(* What a commit makes visible.                                            *)
LEMMA CommittedAfter ==
  ASSUME PromiseInv, NEW s \in Sessions, Commit(s)
  PROVE  /\ Committed(trips) \in SUBSET Committed(trips')
         /\ \A d \in Committed(trips') \ Committed(trips) :
              \E e \in trips : e.by = s /\ d = Settled(e, s)
         /\ \A e \in trips : e.by = s => Settled(e, s) \in Committed(trips')
         /\ Ledger(Committed(trips), tripSeq) /\ Ledger(Committed(trips'), tripSeq)
<1>1. TypeInv /\ RowInv /\ trips' = Settle(trips, s)
  BY DEF PromiseInv, IInv, Commit
<1>2. \A e \in trips : e.by = None => Settled(e, s) = e
  BY <1>1, SettledTrip, RowTypes
<1>3. \A e \in trips : e.by # None /\ e.by # s => Settled(e, s).by # None
  BY <1>1, SettledTrip
<1>4. Ledger(trips, tripSeq)
  BY <1>1, RowTypes DEF Ledger, RowInv, TripRows, TypeInv, TypeOK
<1>5. Ledger(trips', tripSeq)
  <2>1. \A e \in trips' : e.seq \in Nat /\ e.seq < tripSeq
    BY <1>1, <1>4, SettledOf, SettledTrip DEF Ledger
  <2>2. ASSUME NEW d \in trips', NEW e \in trips', d.seq = e.seq
        PROVE  d = e
    <3>1. PICK f \in trips, g \in trips : d = Settled(f, s) /\ e = Settled(g, s)
      BY <1>1, SettledOf
    <3>2. f = g
      BY <1>1, <1>4, <2>2, <3>1, SettledTrip DEF Ledger
    <3> QED
      BY <3>1, <3>2
  <2> QED
    BY <1>4, <2>1, <2>2 DEF Ledger
<1>6. \A e \in trips : e.by = s => Settled(e, s) \in Committed(trips')
  BY <1>1, SettledTrip DEF Committed
<1>7. Committed(trips) \in SUBSET Committed(trips')
  BY <1>1, <1>2, SettledTrip DEF Committed
<1>8. ASSUME NEW d \in Committed(trips') \ Committed(trips)
      PROVE  \E e \in trips : e.by = s /\ d = Settled(e, s)
  <2>1. PICK e \in trips : d = Settled(e, s)
    BY <1>1, SettledOf DEF Committed
  <2>2. d.by = None
    BY DEF Committed
  <2>3. e.by = s
    BY <1>2, <1>3, <2>1, <2>2 DEF Committed
  <2> QED
    BY <2>1, <2>3
<1> QED
  BY <1>4, <1>5, <1>6, <1>7, <1>8 DEF Ledger, Committed

LEMMA CommitRows ==
  ASSUME PromiseInv, NEW s \in Sessions, Commit(s), Bystanders(s)
  PROVE  RowInv'
<1>1. /\ TypeInv /\ RowInv
      /\ pc[s] = "commit"
      /\ trips' = Settle(trips, s) /\ nest' = Settle(nest, s)
      /\ tripSeq' = tripSeq
  BY DEF PromiseInv, IInv, Commit
<1>2. \A e \in trips, f \in nest : Places(e, f) => Places(Settled(e, s), Settled(f, s))
  BY <1>1, SettledTrip, SettledContainment DEF Places
<1>3. ASSUME NEW d \in trips'
      PROVE  d.seq < tripSeq /\ KeyTells(d)'
  <2>1. PICK e \in trips : d = Settled(e, s)
    BY <1>1, SettledOf
  <2>2. d.seq < tripSeq
    BY <1>1, <2>1, SettledTrip DEF RowInv
  <2>3. KeyTells(e)
    BY <1>1 DEF RowInv
  <2>4. \A f \in nest : Places(e, f) => \E g \in nest' : Places(d, g)
    BY <1>1, <1>2, <2>1, SettledContainment
  <2>5. KeyTells(d)'
    BY <1>1, <2>1, <2>3, <2>4, SettledTrip DEF KeyTells
  <2> QED
    BY <2>2, <2>5
<1>4. ASSUME NEW d \in trips', NEW e \in trips', d.seq = e.seq \/ d.key = e.key
      PROVE  d = e
  <2>1. PICK f \in trips, g \in trips : d = Settled(f, s) /\ e = Settled(g, s)
    BY <1>1, SettledOf
  <2>2. f = g
    BY <1>1, <1>4, <2>1, SettledTrip DEF RowInv
  <2> QED
    BY <2>1, <2>2
<1>5. ASSUME NEW d \in nest', NEW e \in nest', d.seq = e.seq \/ d.key = e.key
      PROVE  d = e
  <2>1. PICK f \in nest, g \in nest : d = Settled(f, s) /\ e = Settled(g, s)
    BY <1>1, SettledOf
  <2>2. f = g
    BY <1>1, <1>5, <2>1, SettledContainment DEF RowInv
  <2> QED
    BY <2>1, <2>2
<1>6. ASSUME NEW g \in nest', g.kind = "unpack"
      PROVE  (\E d \in trips' : Places(d, g)) \/ (g.by # None /\ pc'[g.by] # "commit")
  <2>1. PICK f \in nest : g = Settled(f, s)
    BY <1>1, SettledOf
  <2>2. f.kind = "unpack"
    BY <1>1, <1>6, <2>1, SettledContainment
  <2>3. CASE \E e \in trips : Places(e, f)
    BY <1>1, <1>2, <2>1, <2>3, SettledTrip
  <2>4. CASE f.by # None /\ pc[f.by] # "commit"
    <3>1. f.by \in Sessions \ {s}
      BY <1>1, <2>4, RowTypes DEF NestRows
    <3>2. g = f
      BY <1>1, <2>1, <3>1, SettledContainment
    <3> QED
      BY <2>4, <3>1, <3>2 DEF Bystanders, OthersKeep
  <2> QED
    BY <1>1, <2>2, <2>3, <2>4 DEF RowInv
<1> QED
  BY <1>1, <1>3, <1>4, <1>5, <1>6 DEF RowInv

LEMMA CommitPromise ==
  ASSUME PromiseInv, NEW s \in Sessions, Commit(s)
  PROVE  RowInv' /\ TransactionInv'
<1>1. /\ TypeInv /\ SessionInv /\ TransactionInv
      /\ EndTransaction(s, "recorded")
      /\ trips' = Settle(trips, s) /\ nest' = Settle(nest, s)
  BY DEF PromiseInv, IInv, Commit
<1>2. /\ \A d \in trips' : d.by # s /\ (d.by # None => d \in trips)
      /\ \A e \in trips : e.by # s => e \in trips'
  <2>1. \A e \in trips : /\ Settled(e, s).by # s
                         /\ Settled(e, s).by # None => Settled(e, s) = e
    BY <1>1, SettledTrip, RowTypes
  <2> QED
    BY <1>1, <2>1, SettledOf, SettledTrip
<1>3. /\ \A g \in nest' : g.by # s /\ (g.by # None => g \in nest)
      /\ \A f \in nest : f.by # s => f \in nest'
  <2>1. \A f \in nest : /\ Settled(f, s).by # s
                        /\ Settled(f, s).by # None => Settled(f, s) = f
    BY <1>1, SettledContainment, RowTypes
  <2> QED
    BY <1>1, <2>1, SettledOf, SettledContainment
<1>4. Bystanders(s) /\ Own(s)'
  BY <1>1, <1>2, <1>3, EndedOwn DEF Resting
<1>5. ASSUME NEW t \in Sessions \ {s}
      PROVE  Own(t)'
  <2>1. /\ pc'[t] = pc[t] /\ req'[t] = req[t] /\ ev'[t] = ev[t] /\ seen'[t] = seen[t]
        /\ plan'[t] = plan[t] /\ done'[t] = done[t]
    BY <1>4 DEF Bystanders, OthersKeep
  <2>2. Writes(t) /\ Arrivals(t) /\ Complete(t) /\ PackStands(t)
    BY <1>1 DEF TransactionInv
  <2>3. t # None
    BY <1>1, RowTypes
  <2>4. Writes(t)'
    BY <1>2, <1>3, <1>4, <2>1, <2>2, <2>3, OthersRecords DEF Writes
  <2>5. Arrivals(t)'
    <3>1. \A k : RowsOf(Visible(trips, t), k) # {} => RowsOf(Visible(trips', t), k) # {}
      BY <1>1, <1>2, RowTypes DEF RowsOf, Visible
    <3> QED
      BY <2>1, <2>2, <3>1 DEF Arrivals
  <2>6. Complete(t)'
    BY <1>2, <1>3, <2>1, <2>2 DEF Complete
  <2>7. PackStands(t)'
    <3> SUFFICES ASSUME req[t].op = "pack", pc[t] \in {"child", "append", "commit"}
                 PROVE  PackStands(t)'
      BY <2>1 DEF PackStands
    <3>1. lock = t
      BY <1>1, <2>2 DEF SessionInv, HoldsLock, PendingNest, Complete, Containing
    <3>2. Committed(nest') = Committed(nest)
      BY <1>1, <3>1, SettledNest
    <3>3. \A d \in Committed(trips') \ Committed(trips) : d.kind \notin MoveKinds
      <4>1. \A e \in trips : e.by = s => e.kind \notin MoveKinds
        BY <1>1, <3>1 DEF SessionInv, PendingTrips
      <4> QED
        BY <1>1, <4>1, CommittedAfter, SettledTrip
    <3>4. \A b, site : Stands(b, site) => Stands(b, site)'
      BY <3>3, CommittedAfter, SightingsOnly DEF Stands
    <3> QED
      BY <2>1, <2>2, <3>2, <3>4 DEF PackStands
  <2> QED
    BY <2>4, <2>5, <2>6, <2>7 DEF Own
<1> QED
  BY <1>4, <1>5, CommitRows DEF TransactionInv, Own

-------------------------------------------------------------------------------
LEMMA InitPromise == Init => PromiseInv
<1> SUFFICES ASSUME Init
             PROVE  PromiseInv
  OBVIOUS
<1>1. RowInv
  BY DEF Init, RowInv
<1>2. TransactionInv
  BY ConstantTypes
     DEF Init, TransactionInv, Writes, Arrivals, Complete, PackStands, NoRequest
<1> QED
  BY <1>1, <1>2, InitIInv DEF PromiseInv

LEMMA NextPromise == PromiseInv /\ [Next]_vars => PromiseInv'
<1> SUFFICES ASSUME PromiseInv, [Next]_vars
             PROVE  PromiseInv'
  OBVIOUS
<1>1. IInv' /\ TypeInv'
  BY NextIInv DEF PromiseInv, IInv
<1>2. ASSUME NEW s \in Sessions, NEW r \in Requests, Begin(s, r)
      PROVE  RowInv' /\ TransactionInv'
  BY <1>2, BeginPromise
<1>3. ASSUME NEW s \in Sessions, Step(s)
      PROVE  RowInv' /\ TransactionInv'
  BY <1>1, <1>3, ReadPriorPromise, AcquireLockPromise, CheckTopLevelPromise,
     InsertEventPromise, ReplayEventPromise, VerifyPlacementPromise,
     ReadChecksumPromise, ValidatePromise, ReadChildPromise, AppendPromise,
     CommitPromise
     DEF Step
<1>4. ASSUME NEW s \in Sessions, Crash(s)
      PROVE  RowInv' /\ TransactionInv'
  BY <1>4, RollbackPromise DEF Crash, Resting
<1>5. ASSUME UNCHANGED vars
      PROVE  RowInv' /\ TransactionInv'
  <2>1. \A s \in Sessions : Own(s)'
    BY <1>5 DEF vars, PromiseInv, TransactionInv, Own, Writes, Arrivals, Complete,
                PackStands, Stands, Records, Contains
  <2>2. RowInv'
    BY <1>5 DEF vars, PromiseInv, RowInv, KeyTells
  <2> QED
    BY <2>1, <2>2 DEF TransactionInv, Own
<1>6. RowInv' /\ TransactionInv'
  BY <1>2, <1>3, <1>4, <1>5 DEF Next, Rest
<1> QED
  BY <1>1, <1>6 DEF PromiseInv

(* The inductive invariant holds.                                          *)
THEOREM PromiseInvariance == Spec => []PromiseInv
BY InitPromise, NextPromise, PTL DEF Spec

(* An unpack and the placement of its child are one fact in every          *)
(* committed state, whatever crashes and retries come between.             *)
THEOREM UnpackIsWhole == Spec => []UnpackPlacesChild
<1>1. PromiseInv => UnpackPlacesChild
  <2> SUFFICES ASSUME PromiseInv, NEW k \in Keys
               PROVE  LET unpacks == {e \in RowsOf(Committed(nest), k) : e.kind = "unpack"}
                          places == RowsOf(Committed(trips), <<"containment-unpack-place", k>>)
                      IN  /\ unpacks = {} <=> places = {}
                          /\ \A e \in unpacks, f \in places : e.bin = f.bin /\ e.site = f.site
    BY DEF UnpackPlacesChild
  <2> DEFINE key == <<"containment-unpack-place", k>>
  <2>1. RowInv
    BY DEF PromiseInv
  <2>2. ASSUME NEW f \in nest, f.kind = "unpack", f.by = None, f.key = k
        PROVE  \E e \in trips : e.by = None /\ e.key = key
    BY <2>1, <2>2 DEF RowInv, Places
  <2>3. ASSUME NEW e \in trips, e.by = None, e.key = key
        PROVE  \E f \in nest : /\ f.by = None /\ f.kind = "unpack" /\ f.key = k
                               /\ f.bin = e.bin /\ f.site = e.site
    BY <2>1, <2>3, KeyParts DEF RowInv, KeyTells, Places
  <2>4. \A e, f \in nest : e.key = k /\ f.key = k => e = f
    BY <2>1 DEF RowInv
  <2> QED
    BY <2>2, <2>3, <2>4 DEF RowsOf, Committed
<1> QED
  BY <1>1, PromiseInvariance, PTL

-------------------------------------------------------------------------------
(* Only its own steps move a session.                                      *)
LEMMA OthersStay ==
  ASSUME NEW t \in Sessions, NEW s \in Sessions \ {t},
         Step(t) \/ Crash(t) \/ \E r \in Requests : Begin(t, r)
  PROVE  pc'[s] = pc[s] \/ pc \notin [Sessions -> Resting \cup Busy]
BY DEF Step, Crash, Begin, ReadPrior, AcquireLock, CheckTopLevel, InsertEvent, ReplayEvent,
       VerifyPlacement, ReadChecksum, Validate, ReadChild, AppendContainment, Commit,
       Refuse, Rollback, EndTransaction, NextArrival, Goto

(* A call is answered by a commit, or by a row it finds, or because its    *)
(* trip was clear.                                                         *)
LEMMA AnsweringStep ==
  ASSUME TypeInv, Next, NEW s \in Sessions, Answered(s)
  PROVE  \/ Commit(s)
         \/ /\ req[s].op \in {"event", "place_existing"} /\ ReplayEvent(s)
            /\ UNCHANGED <<trips, nest>>
         \/ /\ Unaccounted(Visible(trips, s), req[s].trip) = {} /\ ReadChecksum(s)
            /\ UNCHANGED <<trips, nest>>
         \/ /\ Validate(s)
            /\ RowsOf(Visible(nest, s), req[s].key) # {}
            /\ \A e \in RowsOf(Visible(nest, s), req[s].key) : SameAction(e, req[s])
            /\ UNCHANGED <<trips, nest>>
<1>1. /\ pc \in [Sessions -> Resting \cup Busy]
      /\ pc[s] \in Busy /\ pc'[s] \in {"recorded", "existed"}
      /\ pc[s] \notin {"recorded", "existed"}
  BY DEF TypeInv, TypeOK, Answered, Busy
<1>2. ~ \E t \in Sessions \ {s} : Step(t) \/ Crash(t) \/ \E r \in Requests : Begin(t, r)
  BY <1>1, OthersStay
<1>3. \A r \in Requests : ~Begin(s, r)
  BY <1>1 DEF Begin, Resting, Busy
<1>4. ~Rest
  BY <1>1 DEF Rest, vars
<1>5. ~Crash(s) /\ ~Refuse(s)
  BY <1>1 DEF Crash, Refuse, Rollback, EndTransaction, Goto
<1>6. Step(s)
  BY <1>2, <1>3, <1>4, <1>5 DEF Next
<1>7. /\ ~ReadPrior(s) /\ ~AcquireLock(s) /\ ~CheckTopLevel(s) /\ ~VerifyPlacement(s)
      /\ ~ReadChild(s) /\ ~AppendContainment(s)
  BY <1>1, <1>5 DEF ReadPrior, AcquireLock, CheckTopLevel, VerifyPlacement, ReadChild,
                    AppendContainment, Goto
<1>8. ~InsertEvent(s)
  BY <1>1 DEF InsertEvent, NextArrival, Goto
<1>9. ReplayEvent(s) => /\ req[s].op \in {"event", "place_existing"}
                        /\ UNCHANGED <<trips, nest>>
  BY <1>1, <1>5 DEF ReplayEvent, NextArrival, Goto
<1>10. ReadChecksum(s) => /\ Unaccounted(Visible(trips, s), req[s].trip) = {}
                          /\ UNCHANGED <<trips, nest>>
  BY <1>1, <1>5 DEF ReadChecksum, Goto
<1>11. Validate(s) => /\ RowsOf(Visible(nest, s), req[s].key) # {}
                      /\ \A e \in RowsOf(Visible(nest, s), req[s].key) : SameAction(e, req[s])
                      /\ UNCHANGED <<trips, nest>>
  BY <1>1, <1>5 DEF Validate, Goto
<1> QED
  BY <1>6, <1>7, <1>8, <1>9, <1>10, <1>11 DEF Step

(* The rows a session has written are committed with it.                   *)
LEMMA AnsweredByCommit ==
  ASSUME PromiseInv, NEW s \in Sessions, Commit(s)
  PROVE  /\ req[s].op \in Containing =>
              \E e \in RowsOf(Committed(nest'), req[s].key) :
                e.kind = req[s].op /\ e.bin = req[s].bin /\ e.box = req[s].box
         /\ req[s].op \in {"event", "place_existing"} =>
              \E e \in Committed(trips') : EventIn(e) = EventOf(req[s])
<1>1. TypeInv /\ Writes(s) /\ Complete(s) /\ pc[s] = "commit"
  BY DEF PromiseInv, IInv, TransactionInv, Commit
<1>2. ASSUME req[s].op \in Containing
      PROVE  \E e \in RowsOf(Committed(nest'), req[s].key) :
                e.kind = req[s].op /\ e.bin = req[s].bin /\ e.box = req[s].box
  <2>1. PICK f \in nest : f.by = s /\ Contains(f, s)
    BY <1>1, <1>2 DEF Complete, Writes
  <2>2. Settled(f, s) \in Committed(nest')
    BY <1>1, <2>1, SettledContainment DEF Commit, Committed
  <2> QED
    BY <1>1, <2>1, <2>2, SettledContainment DEF RowsOf, Contains
<1>3. ASSUME req[s].op \in {"event", "place_existing"}
      PROVE  \E e \in Committed(trips') : EventIn(e) = EventOf(req[s])
  <2>1. PICK e \in trips : e.by = s
    BY <1>1, <1>3 DEF Complete
  <2>2. EventIn(e) = EventOf(req[s])
    BY <1>1, <1>3, <2>1 DEF Writes, Records
  <2>3. Settled(e, s) \in Committed(trips') /\ EventIn(Settled(e, s)) = EventIn(e)
    BY <1>1, <2>1, CommittedAfter, SettledTrip DEF EventIn
  <2> QED
    BY <2>2, <2>3
<1> QED
  BY <1>2, <1>3

(* A call answered as recorded, or as existing already, is in the          *)
(* committed ledgers, as it was asked.                                     *)
THEOREM AnswersOnFile == Spec => AnswersAreTrue
<1>1. ASSUME PromiseInv, Next, NEW s \in Sessions, Answered(s)
      PROVE  /\ req[s].op \in {"pack", "unpack"} =>
                  \E e \in RowsOf(Committed(nest'), req[s].key) :
                    e.kind = req[s].op /\ e.bin = req[s].bin /\ e.box = req[s].box
             /\ req[s].op = "place_existing" =>
                  \E e \in RowsOf(Committed(trips'), EventOf(req[s]).key) :
                    e.bin = req[s].bin /\ e.site = req[s].site
             /\ req[s].op = "event" =>
                  RowsOf(Committed(trips'), EventOf(req[s]).key) # {}
  <2>1. TypeInv /\ SessionInv /\ RowInv /\ TransactionInv
    BY <1>1 DEF PromiseInv, IInv
  <2>2. CASE Commit(s)
    BY <1>1, <2>2, AnsweredByCommit DEF RowsOf, EventIn, EventOf, Containing
  <2>3. CASE /\ req[s].op \in {"event", "place_existing"} /\ ReplayEvent(s)
             /\ UNCHANGED <<trips, nest>>
    <3>1. /\ pc[s] = "insert" /\ ev[s] = EventOf(req[s])
          /\ RowsOf(trips, ev[s].key) # {}
          /\ RowsOf(trips, ev[s].key) \subseteq Visible(trips, s)
      BY <2>1, <2>3 DEF ReplayEvent, KeyIsSettled, TransactionInv, Writes, Records,
                        TypeInv, ControlInv, Registers
    <3>2. \A e \in trips : e.by # s
      BY <2>1, <2>3, <3>1, NothingWritten
    <3>3. PICK e \in RowsOf(Committed(trips'), EventOf(req[s]).key) : TRUE
      BY <2>3, <3>1, <3>2 DEF Visible, Committed, RowsOf
    <3>4. CASE req[s].op = "event"
      BY <3>3, <3>4
    <3>5. CASE req[s].op = "place_existing"
      <4>1. e \in trips /\ e.key = <<"binplace", req[s].bin, req[s].key>>
        BY <2>3, <3>3, <3>5 DEF RowsOf, Committed, EventOf
      <4>2. req[s].bin \in Bins /\ req[s].key \in Keys
        BY <2>1, <3>5 DEF TypeInv, TypeOK, RequestType, NoRequest
      <4>3. e.bin = req[s].bin
        BY <2>1, <4>1, <4>2 DEF RowInv, KeyTells
      <4>4. pc'[s] \in {"recorded", "existed"}
        BY <1>1 DEF Answered
      <4>5. ~Refuse(s)
        BY <2>1, <4>4 DEF Refuse, Rollback, EndTransaction, Goto, TypeInv, TypeOK
      <4>6. e.site = req[s].site
        BY <2>3, <3>1, <3>5, <4>1, <4>5, <3>3 DEF ReplayEvent, RowsOf
      <4> QED
        BY <3>3, <3>5, <4>3, <4>6
    <3> QED
      BY <2>3, <3>4, <3>5
  <2>4. CASE ReadChecksum(s)
    BY <2>1, <2>4 DEF ReadChecksum, TypeInv, ControlInv, Registers
  <2>5. CASE /\ Validate(s)
             /\ RowsOf(Visible(nest, s), req[s].key) # {}
             /\ \A e \in RowsOf(Visible(nest, s), req[s].key) : SameAction(e, req[s])
             /\ UNCHANGED <<trips, nest>>
    <3>1. pc[s] = "validate" /\ req[s].op \in Containing
      BY <2>1, <2>5 DEF Validate, TypeInv, ControlInv, Registers
    <3>2. Visible(nest, s) = Committed(nest')
      BY <2>1, <2>5, <3>1, NothingWritten, OwnRowsAside
    <3> QED
      BY <2>5, <3>1, <3>2 DEF SameAction, Containing
  <2> QED
    BY <1>1, <2>1, <2>2, <2>3, <2>4, <2>5, AnsweringStep
<1>2. PromiseInv /\ [Next]_vars =>
        [\A s \in Sessions : Answered(s) =>
           CASE req[s].op \in {"pack", "unpack"} ->
                  \E e \in RowsOf(Committed(nest'), req[s].key) :
                    e.kind = req[s].op /\ e.bin = req[s].bin /\ e.box = req[s].box
             [] req[s].op = "place_existing" ->
                  \E e \in RowsOf(Committed(trips'), EventOf(req[s]).key) :
                    e.bin = req[s].bin /\ e.site = req[s].site
             [] req[s].op = "event" ->
                  RowsOf(Committed(trips'), EventOf(req[s]).key) # {}
             [] OTHER -> TRUE]_vars
  BY <1>1
<1> QED
  BY <1>2, PromiseInvariance, PTL DEF Spec, AnswersAreTrue

(* When arrive_all is answered, no bin that its checksum found is still    *)
(* unaccounted for, whatever other sessions loaded, packed or moved.       *)
THEOREM TripCleared == Spec => ClearTripLeavesNone
<1>1. ASSUME PromiseInv, Next, NEW s \in Sessions, Answered(s),
             req[s].op = "arrive_all"
      PROVE  plan[s] \cap Unaccounted(Committed(trips'), req[s].trip) = {}
  <2>1. TypeInv /\ SessionInv /\ RowInv /\ TransactionInv
    BY <1>1 DEF PromiseInv, IInv
  <2>2. CASE Commit(s)
    <3>1. Arrivals(s) /\ plan[s] \subseteq done[s]
      BY <1>1, <2>1, <2>2 DEF TransactionInv, Complete, Commit
    <3>2. ASSUME NEW b \in plan[s]
          PROVE  b \in Arrived(Committed(trips'), req[s].trip)
      <4>1. PICK e \in trips : /\ e.by \in {None, s}
                               /\ e.key = <<"arrive-all", req[s].trip, b, seen[s]>>
        BY <3>1, <3>2 DEF Arrivals, RowsOf, Visible
      <4>2. b \in Bins /\ req[s].trip \in Trips
        BY <1>1, <2>1, <3>2 DEF TypeInv, TypeOK, RequestType, NoRequest
      <4>3. seen[s] \in Sites
        <5>1. e.key \in EventKeys
          BY <2>1, RowTypes DEF TripRows
        <5> QED
          BY <4>1, <5>1, KeyParts DEF EventKeys
      <4>4. e.kind = "arrive" /\ e.trip = req[s].trip /\ e.bin = b
        BY <2>1, <4>1, <4>2, <4>3 DEF RowInv, KeyTells
      <4>5. PICK d \in Committed(trips') : d.kind = "arrive" /\ d.trip = req[s].trip
                                           /\ d.bin = b
        <5>1. CASE e.by = s
          BY <1>1, <2>1, <2>2, <4>4, <5>1, CommittedAfter, SettledTrip
        <5>2. CASE e.by = None
          BY <1>1, <2>2, <4>4, <5>2, CommittedAfter DEF Committed
        <5> QED
          BY <4>1, <5>1, <5>2
      <4> QED
        BY <4>5 DEF Arrived, OfTrip
    <3> QED
      BY <3>2 DEF Unaccounted
  <2>3. CASE /\ Unaccounted(Visible(trips, s), req[s].trip) = {} /\ ReadChecksum(s)
             /\ UNCHANGED <<trips, nest>>
    <3>1. Visible(trips, s) = Committed(trips')
      BY <2>1, <2>3, NothingWritten, OwnRowsAside DEF ReadChecksum
    <3> QED
      BY <2>3, <3>1
  <2>4. CASE Validate(s)
    BY <1>1, <2>1, <2>4 DEF Validate, TypeInv, ControlInv, Registers, Containing
  <2> QED
    BY <1>1, <2>1, <2>2, <2>3, <2>4, AnsweringStep
<1>2. PromiseInv /\ [Next]_vars =>
        [\A s \in Sessions : Answered(s) /\ req[s].op = "arrive_all" =>
           plan[s] \cap Unaccounted(Committed(trips'), req[s].trip) = {}]_vars
  BY <1>1
<1> QED
  BY <1>2, PromiseInvariance, PTL DEF Spec, ClearTripLeavesNone

-------------------------------------------------------------------------------
(* The committed rows of both tables change by commits only.               *)
LEMMA OnlyCommitShows ==
  ASSUME PromiseInv, [Next]_vars
  PROVE  \/ \E s \in Sessions : Commit(s)
         \/ Committed(trips') = Committed(trips) /\ Committed(nest') = Committed(nest)
<1>1. TypeInv
  BY DEF PromiseInv, IInv
<1>2. ASSUME NEW s \in Sessions, NEW answer, Rollback(s, answer)
      PROVE  Committed(trips') = Committed(trips) /\ Committed(nest') = Committed(nest)
  BY <1>1, <1>2, RowTypes DEF Rollback, Committed
<1>3. ASSUME NEW s \in Sessions, InsertEvent(s) \/ AppendContainment(s)
      PROVE  Committed(trips') = Committed(trips) /\ Committed(nest') = Committed(nest)
  BY <1>1, <1>3, RowTypes DEF InsertEvent, AppendContainment, Committed
<1>4. ASSUME NEW s \in Sessions, Step(s), ~Commit(s)
      PROVE  Committed(trips') = Committed(trips) /\ Committed(nest') = Committed(nest)
  BY <1>2, <1>3, <1>4
     DEF Step, ReadPrior, AcquireLock, CheckTopLevel, ReplayEvent, VerifyPlacement,
         ReadChecksum, Validate, ReadChild, Refuse
<1> QED
  BY <1>2, <1>4 DEF Next, Rest, vars, Crash, Begin

(* A pack that commits stands where it was validated, but for sightings:   *)
(* no move of the child, or of the bin that locates the container, became  *)
(* visible between the reads of the two locations and the commit.          *)
THEOREM PackSitesStand == Spec => NoMoveSplitsPack
<1>1. ASSUME PromiseInv, [Next]_vars, NEW e \in NewRows(nest, nest'), e.kind = "pack",
             NEW b \in {e.bin, LocationSource(Committed(nest), e.box)}
      PROVE  Stands(b, e.site)
  <2>1. TypeInv /\ TransactionInv
    BY <1>1 DEF PromiseInv, IInv
  <2>2. PICK s \in Sessions : Commit(s)
    BY <1>1, OnlyCommitShows DEF NewRows
  <2>3. PICK f \in nest : e = Settled(f, s)
    BY <1>1, <2>2, SettledOf DEF NewRows, Committed, Commit
  <2>4. f.by = s
    BY <1>1, <2>1, <2>3, SettledContainment DEF NewRows, Committed
  <2>5. /\ req[s].op = "pack" /\ e.bin = req[s].bin /\ e.box = req[s].box
        /\ e.site = seen[s]
    <3>1. Contains(f, s)
      BY <2>1, <2>4 DEF TransactionInv, Writes
    <3>2. /\ e.kind = f.kind /\ e.bin = f.bin /\ e.box = f.box /\ e.site = f.site
      BY <2>1, <2>3, SettledContainment
    <3> QED
      BY <1>1, <3>1, <3>2 DEF Contains
  <2> QED
    BY <1>1, <2>1, <2>2, <2>5 DEF TransactionInv, PackStands, Commit
<1>2. PromiseInv /\ [Next]_vars =>
        [\A e \in NewRows(nest, nest') : e.kind = "pack" =>
           \A b \in {e.bin, LocationSource(Committed(nest), e.box)} :
             \/ FoldBinLocation(Committed(trips), b) = AtSite(e.site)
             \/ SightedLast(Committed(trips), b)]_vars
  BY <1>1 DEF Stands
<1> QED
  BY <1>2, PromiseInvariance, PTL DEF Spec, NoMoveSplitsPack

-------------------------------------------------------------------------------
(* The refinement.  What a reader folds from the committed rows changes by *)
(* a commit only, and there by what the one request of its session asks.   *)
loc    == [b \in Bins |-> FoldBinLocation(Committed(trips), b)]
parent == [b \in Bins |-> ParentOf(Committed(nest), b)]

(* A row newer than all others decides where its bin is.                   *)
LEMMA NewestRowDecides ==
  ASSUME NEW L, NEW e, Numbered(L), Newer(e, L), e.box \in Bins, NEW b \in Bins
  PROVE  ParentOf(L \cup {e}, b) =
           IF b = e.bin THEN (IF e.kind = "pack" THEN e.box ELSE None)
           ELSE ParentOf(L, b)
<1>1. \A c : Inside(L \cup {e}, b, c) <=>
               IF b = e.bin THEN e.kind = "pack" /\ c = e.box ELSE Inside(L, b, c)
  BY DEF Inside, Newest, Newer, Numbered
<1> QED
  BY <1>1 DEF ParentOf

LEMMA ParentIsInside ==
  ASSUME NEW L, NEW b, ParentOf(L, b) # None
  PROVE  ParentOf(L, b) \in Bins /\ Inside(L, b, ParentOf(L, b))
BY DEF ParentOf

(* A bin is where it was, or where a row of the session puts it.           *)
LEMMA LocationAfter ==
  ASSUME PromiseInv, NEW s \in Sessions, Commit(s), NEW b \in Bins
  PROVE  \/ loc'[b] = loc[b]
         \/ \E e \in trips : /\ e.by = s /\ e.bin = b /\ e.kind \in LocationKinds
                             /\ loc'[b] = LocationOf(e)
<1>1. TypeInv
  BY DEF PromiseInv, IInv
<1>2. CASE \A d \in Committed(trips') \ Committed(trips) : ~Decides(Committed(trips'), d, b)
  BY <1>2, CommittedAfter, OldDecider DEF loc
<1>3. ASSUME NEW d \in Committed(trips') \ Committed(trips), Decides(Committed(trips'), d, b)
      PROVE  \E e \in trips : /\ e.by = s /\ e.bin = b /\ e.kind \in LocationKinds
                              /\ loc'[b] = LocationOf(e)
  <2>1. PICK e \in trips : e.by = s /\ d = Settled(e, s)
    BY CommittedAfter
  <2>2. FoldBinLocation(Committed(trips'), b) = LocationOf(d)
    BY <1>3, CommittedAfter, DeciderUnique
  <2>3. LocationOf(d) = LocationOf(e) /\ d.bin = e.bin /\ d.kind = e.kind
    BY <1>1, <2>1, SettledTrip DEF LocationOf
  <2> QED
    BY <1>3, <2>1, <2>2, <2>3 DEF loc, Decides, Locates
<1> QED
  BY <1>2, <1>3

(* Where a row puts its bin.                                               *)
LEMMA RowLocation ==
  ASSUME TypeInv, NEW e \in trips, e.kind \in LocationKinds
  PROVE  /\ e.bin \in Bins
         /\ e.kind = "load" => LocationOf(e) \in {InTransit(t) : t \in Trips}
         /\ e.kind # "load" => LocationOf(e) = AtSite(e.site) /\ e.site \in Sites
<1>1. ValidEvent(e) /\ e \in TripRows
  BY RowTypes DEF TypeInv, RowsMeetSchema
<1> QED
  BY <1>1 DEF ValidEvent, TripRows, LocationKinds, LocationOf

(* A session that packs or unpacks nothing leaves the containers alone.    *)
LEMMA SameParents ==
  ASSUME PromiseInv, NEW s \in Sessions, Commit(s), req[s].op \notin Containing
  PROVE  /\ parent' = parent
         /\ lock = s => nest = Committed(nest)
<1>1. TypeInv /\ SessionInv /\ TransactionInv /\ nest' = Settle(nest, s)
  BY DEF PromiseInv, IInv, Commit
<1>2. \A f \in nest : f.by # s
  BY <1>1, RowTypes DEF TransactionInv, Writes, Contains, Containing, NestRows
<1>3. Settle(nest, s) = nest
  <2>1. \A f \in nest : Settled(f, s) = f
    BY <1>1, <1>2, SettledContainment
  <2> QED
    BY <2>1 DEF Settle, Settled
<1>4. lock = s => nest = Committed(nest)
  BY <1>1, <1>2, LockSeesAll DEF Visible, Committed
<1> QED
  BY <1>1, <1>3, <1>4 DEF parent

(* Moves that all go to one location are one Move of the forest.           *)
LEMMA MovesImplement ==
  ASSUME PromiseInv, NEW s \in Sessions, Commit(s), req[s].op \notin Containing,
         NEW l, \A e \in trips : e.by = s => e.kind \in MoveKinds /\ LocationOf(e) = l
  PROVE  Forest!Move \/ UNCHANGED <<loc, parent>>
<1> DEFINE S == {b \in Bins : loc'[b] # loc[b]}
<1>1. TypeInv /\ SessionInv
  BY DEF PromiseInv, IInv
<1>2. parent' = parent
  BY SameParents
<1>3. \A b \in S : loc'[b] = l /\ \E e \in trips : e.by = s /\ e.bin = b
  BY LocationAfter
<1>4. ASSUME NEW b \in S
      PROVE  parent[b] = None
  <2>1. PICK e \in trips : e.by = s /\ e.bin = b
    BY <1>3
  <2>2. lock = s /\ ParentOf(nest, b) = None
    BY <1>1, <2>1 DEF SessionInv, PendingTrips
  <2> QED
    BY <2>2, SameParents DEF parent
<1>5. loc' = [b \in Bins |-> IF b \in S THEN l ELSE loc[b]]
  <2>1. \A b \in Bins : loc'[b] = IF b \in S THEN l ELSE loc[b]
    BY <1>3
  <2>2. loc' = [b \in Bins |-> loc'[b]]
    BY DEF loc
  <2> QED
    BY <2>1, <2>2
<1>6. CASE S = {}
  <2>1. loc' = loc
    BY <1>5, <1>6 DEF loc
  <2> QED
    BY <1>2, <2>1
<1>7. CASE S # {}
  <2>1. l \in Locations \ {Unknown}
    <3>1. PICK e \in trips : e.by = s
      BY <1>3, <1>7
    <3>2. e.kind \in LocationKinds /\ LocationOf(e) = l
      BY <3>1 DEF MoveKinds, LocationKinds
    <3> QED
      BY <1>1, <3>2, RowLocation DEF Locations, AtSite, InTransit, Unknown
  <2>2. S \in SUBSET Forest!TopLevel
    BY <1>4 DEF Forest!TopLevel, parent
  <2>3. Forest!Move
    BY <1>2, <1>5, <1>7, <2>1, <2>2
       DEF Forest!Move, Forest!Locations, Forest!AtSite, Forest!InTransit, Forest!Unknown,
           Locations, AtSite, InTransit, Unknown, loc, parent
  <2> QED
    BY <2>3
<1> QED
  BY <1>6, <1>7

(* The row an event or a placement wrote is the event it was asked for.    *)
LEMMA EventRows ==
  ASSUME PromiseInv, NEW s \in Sessions, req[s].op \in {"event", "place_existing"},
         NEW e \in trips, e.by = s
  PROVE  /\ e.kind = EventOf(req[s]).kind /\ e.bin = EventOf(req[s]).bin
         /\ e.site = EventOf(req[s]).site /\ e.trip = EventOf(req[s]).trip
<1> DEFINE x == EventOf(req[s])
<1>1. EventIn(e) = x
  BY DEF PromiseInv, TransactionInv, Writes, Records
<1> HIDE DEF x
<1>2. /\ EventIn(e).kind = x.kind /\ EventIn(e).bin = x.bin
      /\ EventIn(e).site = x.site /\ EventIn(e).trip = x.trip
  BY <1>1
<1>3. /\ EventIn(e).kind = e.kind /\ EventIn(e).bin = e.bin
      /\ EventIn(e).site = e.site /\ EventIn(e).trip = e.trip
  BY DEF EventIn
<1>4. e.kind = x.kind /\ e.bin = x.bin /\ e.site = x.site /\ e.trip = x.trip
  BY <1>2, <1>3
<1> QED
  BY <1>4 DEF x

(* An event that is no move is a sighting, or says nothing of locations.   *)
LEMMA SightingImplements ==
  ASSUME PromiseInv, NEW s \in Sessions, Commit(s),
         req[s].op = "event", EventOf(req[s]).kind \notin MoveKinds
  PROVE  Forest!Sight \/ UNCHANGED <<loc, parent>>
<1> DEFINE x == EventOf(req[s])
<1>1. TypeInv
  BY DEF PromiseInv, IInv
<1>2. parent' = parent
  BY SameParents DEF Containing
<1>3. ASSUME NEW e \in trips, e.by = s
      PROVE  e.kind = x.kind /\ e.bin = x.bin /\ e.site = x.site
  BY <1>3, EventRows
<1>4. CASE \A b \in Bins : loc'[b] = loc[b]
  BY <1>2, <1>4 DEF loc
<1>5. CASE \E b \in Bins : loc'[b] # loc[b]
  <2>1. PICK e \in trips : e.by = s /\ e.kind \in LocationKinds
    BY <1>5, LocationAfter
  <2>2. /\ x.bin \in Bins /\ x.site \in Sites
        /\ \A e1 \in trips : e1.by = s /\ e1.kind \in LocationKinds =>
             LocationOf(e1) = AtSite(x.site)
    BY <1>1, <1>3, <2>1, RowLocation DEF MoveKinds
  <2>3. \A b \in Bins : loc'[b] = IF b = x.bin /\ loc'[b] # loc[b] THEN AtSite(x.site)
                                                                 ELSE loc[b]
    BY <1>3, <2>2, LocationAfter
  <2>4. loc' = [loc EXCEPT ![x.bin] = AtSite(x.site)]
    BY <1>5, <2>2, <2>3 DEF loc
  <2>5. \E bin \in Bins, site \in Sites :
          loc' = [loc EXCEPT ![bin] = AtSite(site)] /\ UNCHANGED parent
    BY <1>2, <2>2, <2>4
  <2> QED
    BY <2>5 DEF Forest!Sight, Forest!AtSite, AtSite, loc, parent
<1> QED
  BY <1>4, <1>5

(* Before a pack or unpack commits, its row is the newest, and fits.       *)
LEMMA OwnContainment ==
  ASSUME PromiseInv, NEW s \in Sessions, Commit(s), req[s].op \in Containing
  PROVE  \E f \in nest :
           /\ f.kind = req[s].op /\ f.bin = req[s].bin /\ f.box = req[s].box
           /\ f.bin \in Bins /\ f.box \in Bins /\ f.bin # f.box
           /\ nest = Committed(nest) \cup {f}
           /\ Newer(f, Committed(nest)) /\ Fits(nest, f)
           /\ Before(nest, f) = Committed(nest)
           /\ \A b : ParentOf(Committed(nest'), b) = ParentOf(nest, b)
<1>1. /\ TypeInv /\ SessionInv /\ NestInv /\ RowInv /\ TransactionInv
      /\ pc[s] = "commit" /\ nest' = Settle(nest, s)
  BY DEF PromiseInv, IInv, Commit
<1>2. PICK f \in nest : f.by = s /\ Contains(f, s)
  BY <1>1 DEF TransactionInv, Complete, Writes
<1>3. \A g \in nest : g.by = s => g = f
  <2> SUFFICES ASSUME NEW g \in nest, g.by = s
               PROVE  g = f
    OBVIOUS
  <2>1. Contains(g, s)
    BY <1>1 DEF TransactionInv, Writes
  <2>2. g.key = f.key
    BY <1>2, <2>1 DEF Contains
  <2> QED
    BY <1>1, <2>2 DEF RowInv
<1>4. lock = s /\ Visible(nest, s) = nest
  BY <1>1, <1>2, LockSeesAll DEF SessionInv, PendingNest
<1>5. nest = Committed(nest) \cup {f} /\ f \notin Committed(nest)
  BY <1>1, <1>2, <1>3, <1>4, RowTypes DEF Visible, Committed
<1>6. Newer(f, Committed(nest))
  BY <1>1, <1>2, RowTypes DEF Newer, NestInv, Committed, Numbered
<1>7. Before(nest, f) = Committed(nest)
  BY <1>5, <1>6, RowTypes, <1>1 DEF Before, Newer, Numbered
<1>8. Committed(nest') = nest'
  BY <1>1, <1>4, SettledNest DEF Committed
<1>9. \A b : ParentOf(Committed(nest'), b) = ParentOf(nest, b)
  BY <1>1, <1>8, SettledNest, SameGraph
<1>10. f.bin \in Bins /\ f.box \in Bins /\ f.bin # f.box
  BY <1>1, <1>2, RowTypes DEF NestRows, TypeInv, ControlInv, Registers, Contains
<1> QED
  BY <1>1, <1>2, <1>5, <1>6, <1>7, <1>9, <1>10 DEF NestInv, FoldsCleanly, Contains

LEMMA PackImplements ==
  ASSUME PromiseInv, NEW s \in Sessions, Commit(s), req[s].op = "pack"
  PROVE  Forest!Pack
<1>1. TypeInv
  BY DEF PromiseInv, IInv
<1>2. PICK f \in nest :
        /\ f.kind = "pack"
        /\ f.bin \in Bins /\ f.box \in Bins /\ f.bin # f.box
        /\ nest = Committed(nest) \cup {f}
        /\ Newer(f, Committed(nest)) /\ Fits(nest, f)
        /\ Before(nest, f) = Committed(nest)
        /\ \A b : ParentOf(Committed(nest'), b) = ParentOf(nest, b)
  BY OwnContainment DEF Containing
<1>3. Numbered(Committed(nest))
  BY <1>1, RowTypes DEF Numbered, Committed
<1>4. loc' = loc
  <2>1. \A e \in trips : e.by # s
    BY DEF PromiseInv, TransactionInv, Writes, Records
  <2>2. \A b \in Bins : loc'[b] = loc[b]
    BY <2>1, LocationAfter
  <2> QED
    BY <2>2 DEF loc
<1>5. parent[f.bin] = None
  BY <1>2 DEF Fits, parent
<1>6. parent' = [parent EXCEPT ![f.bin] = f.box]
  <2>1. \A b \in Bins : ParentOf(Committed(nest'), b) =
                          IF b = f.bin THEN f.box ELSE ParentOf(Committed(nest), b)
    BY <1>2, <1>3, NewestRowDecides
  <2> QED
    BY <1>2, <2>1 DEF parent
<1>7. f.bin \notin Forest!Above(f.box)
  <2>1. UpTo(nest, f) = nest
    BY <1>2, <1>3 DEF UpTo, Newer, Numbered
  <2>2. PICK S \in SUBSET Bins : ClosedAbove(nest, f.bin, S) /\ f.bin \notin S
    BY <1>2, <2>1 DEF Fits, OnCycle, PathFor
  <2>3. \A x, c : x # f.bin /\ Inside(Committed(nest), x, c) => Inside(nest, x, c)
    BY <1>2 DEF Inside, Newest
  <2>4. Inside(nest, f.bin, f.box)
    BY <1>2, <1>3 DEF Inside, Newest, Newer, Numbered
  <2>5. f.box \in S
    BY <1>2, <2>2, <2>4 DEF ClosedAbove
  <2>6. ASSUME NEW x \in S \cup {f.box}, parent[x] # None
        PROVE  parent[x] \in S
    <3>1. x \in S /\ x # f.bin /\ x \in Bins
      BY <2>2, <2>5
    <3>2. parent[x] \in Bins /\ Inside(Committed(nest), x, parent[x])
      BY <2>6, <3>1, ParentIsInside DEF parent
    <3> QED
      BY <2>2, <2>3, <3>1, <3>2 DEF ClosedAbove
  <2> QED
    BY <2>2, <2>6 DEF Forest!Above, parent
<1> QED
  BY <1>2, <1>4, <1>5, <1>6, <1>7 DEF Forest!Pack, loc, parent

LEMMA UnpackImplements ==
  ASSUME PromiseInv, NEW s \in Sessions, Commit(s), req[s].op = "unpack"
  PROVE  Forest!Unpack
<1>1. TypeInv /\ TransactionInv
  BY DEF PromiseInv, IInv
<1>2. PICK f \in nest :
        /\ f.kind = "unpack" /\ f.bin = req[s].bin
        /\ f.bin \in Bins /\ f.box \in Bins
        /\ nest = Committed(nest) \cup {f}
        /\ Newer(f, Committed(nest)) /\ Fits(nest, f)
        /\ Before(nest, f) = Committed(nest)
        /\ \A b : ParentOf(Committed(nest'), b) = ParentOf(nest, b)
  BY OwnContainment DEF Containing
<1>3. Numbered(Committed(nest))
  BY <1>1, RowTypes DEF Numbered, Committed
<1>4. parent[f.bin] # None
  BY <1>2, NoneIsNoBin DEF Fits, parent
<1>5. parent' = [parent EXCEPT ![f.bin] = None]
  <2>1. \A b \in Bins : ParentOf(Committed(nest'), b) =
                          IF b = f.bin THEN None ELSE ParentOf(Committed(nest), b)
    BY <1>2, <1>3, NewestRowDecides
  <2> QED
    BY <1>2, <2>1 DEF parent
<1>6. \E site \in Sites : loc' \in {loc, [loc EXCEPT ![f.bin] = AtSite(site)]}
  <2>1. PICK e0 \in trips : e0.by = s
    BY <1>1 DEF TransactionInv, Complete, Commit
  <2>2. ASSUME NEW e \in trips, e.by = s
        PROVE  e.kind = "place" /\ e.bin = f.bin /\ e.site = seen[s]
    BY <1>1, <1>2, <2>2 DEF TransactionInv, Writes, Records, EventIn, UnpackPlace
  <2>3. \A e \in trips : e.by = s => LocationOf(e) = AtSite(seen[s]) /\ seen[s] \in Sites
    BY <1>1, <2>2, RowLocation DEF LocationKinds
  <2>4. \A b \in Bins : loc'[b] = IF b = f.bin /\ loc'[b] # loc[b] THEN AtSite(seen[s])
                                                                 ELSE loc[b]
    BY <2>2, <2>3, LocationAfter
  <2>5. loc' = loc \/ loc' = [loc EXCEPT ![f.bin] = AtSite(seen[s])]
    BY <1>2, <2>4 DEF loc
  <2> QED
    BY <2>1, <2>3, <2>5
<1> QED
  BY <1>2, <1>4, <1>5, <1>6 DEF Forest!Unpack, Forest!AtSite, AtSite, loc, parent

LEMMA CommitImplements ==
  ASSUME PromiseInv, NEW s \in Sessions, Commit(s)
  PROVE  Forest!Next \/ UNCHANGED <<loc, parent>>
<1>1. TypeInv /\ TransactionInv /\ pc[s] = "commit"
  BY DEF PromiseInv, IInv, Commit
<1>2. req[s].op \in Recording \cup {"pack"}
  BY <1>1 DEF TransactionInv, Complete
<1>3. CASE req[s].op = "place_existing" \/ /\ req[s].op = "event"
                                           /\ EventOf(req[s]).kind \in MoveKinds
  <2> DEFINE x == EventOf(req[s])
  <2>1. x.kind \in MoveKinds
    BY <1>3 DEF EventOf, MoveKinds
  <2>2. \A e \in trips : e.by = s => e.kind \in MoveKinds /\ LocationOf(e) = LocationOf(x)
    <3> SUFFICES ASSUME NEW e \in trips, e.by = s
                 PROVE  e.kind \in MoveKinds /\ LocationOf(e) = LocationOf(x)
      OBVIOUS
    <3>1. e.kind = x.kind /\ e.site = x.site /\ e.trip = x.trip
      BY <1>3, EventRows
    <3> QED
      BY <2>1, <3>1 DEF LocationOf
  <2> QED
    BY <1>3, <2>2, MovesImplement DEF Forest!Next, Containing
<1>4. CASE req[s].op = "event" /\ EventOf(req[s]).kind \notin MoveKinds
  BY <1>4, SightingImplements DEF Forest!Next
<1>5. CASE req[s].op = "arrive_all"
  <2>1. \A e \in trips : e.by = s => e.kind \in MoveKinds /\ LocationOf(e) = AtSite(seen[s])
    BY <1>1, <1>5
       DEF TransactionInv, Writes, Records, EventIn, ArriveEvent, LocationOf, MoveKinds
  <2> QED
    BY <1>5, <2>1, MovesImplement DEF Forest!Next, Containing
<1>6. CASE req[s].op \in {"pack", "unpack"}
  BY <1>6, PackImplements, UnpackImplements DEF Forest!Next
<1> QED
  BY <1>2, <1>3, <1>4, <1>5, <1>6 DEF Recording

(* The ledgers implement the forest: whatever sessions interleave, crash   *)
(* or submit twice, a reader sees bins moved, sighted, packed and unpacked *)
(* one call at a time, and only as InventoryForest allows.                 *)
THEOREM LedgersImplementForest == Spec => ImplementsForest
<1>1. Init => Forest!Init
  <2> SUFFICES ASSUME Init
               PROVE  Forest!Init
    OBVIOUS
  <2>1. Committed(trips) = {} /\ Committed(nest) = {}
    BY DEF Init, Committed
  <2> QED
    BY <2>1 DEF Forest!Init, Forest!AtSite, Forest!Unknown, AtSite, Unknown,
                FoldBinLocation, ParentOf, Inside
<1>2. PromiseInv /\ [Next]_vars => [Forest!Next]_(Forest!vars)
  <2> SUFFICES ASSUME PromiseInv, [Next]_vars
               PROVE  Forest!Next \/ UNCHANGED <<loc, parent>>
    BY DEF Forest!vars, loc, parent
  <2>1. CASE \E s \in Sessions : Commit(s)
    BY <2>1, CommitImplements
  <2>2. CASE Committed(trips') = Committed(trips) /\ Committed(nest') = Committed(nest)
    BY <2>2 DEF loc, parent
  <2> QED
    BY <2>1, <2>2, OnlyCommitShows
<1> QED
  BY <1>1, <1>2, PromiseInvariance, PTL DEF Spec, ImplementsForest, Forest!Spec
===============================================================================
