------------------------- MODULE InventoryLedger_proofs -------------------------
(***************************************************************************)
(* For every set of bins, sites, trips, keys, sessions and requests: the   *)
(* variables of InventoryLedger keep their types, the containment ledger   *)
(* always folds, and a contained bin is never moved.                       *)
(*                                                                         *)
(* First, what keeps a containment ledger foldable: taking its older rows  *)
(* only, rewriting columns the fold does not read, and appending a pack or *)
(* an unpack that its writer has validated against the rows before it.     *)
(* Then the types, what each statement finds in its session's registers    *)
(* and the constraints of the tables.                                      *)
(*                                                                         *)
(* The argument for the rest: only the holder of the advisory lock has     *)
(* containment rows that are not committed (PendingNest), so what it       *)
(* validated is still so when it appends (Validated), and the row it       *)
(* appends keeps the ledger foldable (PackFolds, UnpackFolds).  A move is  *)
(* inserted under the same lock (Movable) and its bin stays top-level to   *)
(* the commit (PendingTrips).                                              *)
(***************************************************************************)
EXTENDS InventoryLedger, NestingFold, TLAPS

Numbered(ledger) == \A e \in ledger : e.seq \in Nat

(* The rows of L with, possibly, other values in columns the fold ignores. *)
Alike(e, f) == e.seq = f.seq /\ e.kind = f.kind /\ e.bin = f.bin /\ e.box = f.box
SameRows(L, M) == /\ \A e \in L : \E f \in M : Alike(e, f)
                  /\ \A f \in M : \E e \in L : Alike(e, f)

LEMMA SameInside ==
  ASSUME NEW L, NEW M, SameRows(L, M), NEW b, NEW c, Inside(L, b, c)
  PROVE  Inside(M, b, c)
<1>1. PICK e \in L : e.kind = "pack" /\ e.bin = b /\ e.box = c /\ Newest(L, e)
  BY DEF Inside
<1>2. PICK f \in M : Alike(e, f)
  BY DEF SameRows
<1>3. Newest(M, f)
  BY <1>1, <1>2 DEF SameRows, Alike, Newest
<1> QED
  BY <1>1, <1>2, <1>3 DEF Inside, Alike

(* The graph of a ledger depends on these four columns only.               *)
LEMMA SameGraph ==
  ASSUME NEW L, NEW M, SameRows(L, M)
  PROVE  /\ \A b : ParentOf(L, b) = ParentOf(M, b)
         /\ \A b : PathFor(L, b) = PathFor(M, b)
<1>1. SameRows(M, L)
  BY DEF SameRows, Alike
<1>2. \A b, c : Inside(L, b, c) <=> Inside(M, b, c)
  BY <1>1, SameInside
<1>3. \A b, S : ClosedAbove(L, b, S) <=> ClosedAbove(M, b, S)
  BY <1>2 DEF ClosedAbove
<1> QED
  BY <1>2, <1>3 DEF ParentOf, PathFor

LEMMA SameFolds ==
  ASSUME NEW L, NEW M, SameRows(L, M), FoldsCleanly(L)
  PROVE  FoldsCleanly(M)
<1> SUFFICES ASSUME NEW f \in M
             PROVE  Fits(M, f)
  BY DEF FoldsCleanly
<1>1. PICK e \in L : Alike(e, f)
  BY DEF SameRows
<1>2. SameRows(Before(L, e), Before(M, f)) /\ SameRows(UpTo(L, e), UpTo(M, f))
  BY <1>1 DEF SameRows, Alike, Before, UpTo
<1>3. /\ ParentOf(Before(L, e), e.bin) = ParentOf(Before(M, f), f.bin)
      /\ PathFor(UpTo(L, e), e.bin) = PathFor(UpTo(M, f), f.bin)
  BY <1>1, <1>2, SameGraph DEF Alike
<1> QED
  BY <1>1, <1>3 DEF FoldsCleanly, Fits, OnCycle, Alike

(* The older rows of a ledger that folds fold too.                         *)
LEMMA PrefixFolds ==
  ASSUME NEW L, NEW M \in SUBSET L, Numbered(L), FoldsCleanly(L),
         \A e \in M, f \in L \ M : e.seq < f.seq
  PROVE  FoldsCleanly(M)
<1> SUFFICES ASSUME NEW e \in M
             PROVE  Fits(M, e)
  BY DEF FoldsCleanly
<1>1. Before(M, e) = Before(L, e) /\ UpTo(M, e) = UpTo(L, e)
  BY DEF Before, UpTo, Numbered
<1> QED
  BY <1>1 DEF FoldsCleanly, Fits

-------------------------------------------------------------------------------
(* Appending a row that is newer than all others.                          *)
Newer(e, L) == e.seq \in Nat /\ \A f \in L : f.seq < e.seq

(* The older rows fold as before.                                          *)
LEMMA AppendFolds ==
  ASSUME NEW L, NEW e, Numbered(L), FoldsCleanly(L), Newer(e, L),
         \/ /\ e.kind = "pack"
            /\ ParentOf(L, e.bin) = None
            /\ ~OnCycle(L \cup {e}, e.bin)
         \/ /\ e.kind = "unpack"
            /\ ParentOf(L, e.bin) = e.box
  PROVE  FoldsCleanly(L \cup {e})
<1> DEFINE M == L \cup {e}
<1> SUFFICES ASSUME NEW f \in M
             PROVE  Fits(M, f)
  BY DEF FoldsCleanly
<1>1. CASE f = e
  <2>1. Before(M, e) = L /\ UpTo(M, e) = M
    BY DEF Before, UpTo, Numbered, Newer
  <2> QED
    BY <1>1, <2>1 DEF Fits
<1>2. CASE f \in L
  <2>1. Before(M, f) = Before(L, f) /\ UpTo(M, f) = UpTo(L, f)
    BY <1>2 DEF Before, UpTo, Numbered, Newer
  <2> QED
    BY <1>2, <2>1 DEF FoldsCleanly, Fits
<1> QED
  BY <1>1, <1>2

(* A bin in no container, packed into a bin that is not below it, is on no *)
(* cycle: what is then above it is the container and what is above that.   *)
LEMMA PackMakesNoCycle ==
  ASSUME NEW L, NEW e, Numbered(L), Newer(e, L), e.kind = "pack",
         e.bin \in Bins, e.box \in Bins, e.bin # e.box,
         e.bin \notin PathFor(L, e.box)
  PROVE  ~OnCycle(L \cup {e}, e.bin)
<1> DEFINE M == L \cup {e}
           S == {e.box} \cup PathFor(L, e.box)
<1>1. S \in SUBSET Bins
  BY DEF PathFor
<1>2. ClosedAbove(M, e.bin, S)
  <2> SUFFICES ASSUME NEW x \in S \cup {e.bin}, NEW y \in Bins, Inside(M, x, y)
               PROVE  y \in S
    BY DEF ClosedAbove
  <2>1. PICK f \in M : /\ f.kind = "pack" /\ f.bin = x /\ f.box = y
                       /\ Newest(M, f)
    BY DEF Inside
  <2>2. CASE x = e.bin
    <3>1. e.seq <= f.seq
      BY <2>1, <2>2 DEF Newest
    <3>2. f = e
      BY <3>1 DEF Newer, Numbered
    <3> QED
      BY <2>1, <3>2
  <2>3. CASE x # e.bin
    <3>1. Inside(L, x, y)
      BY <2>1, <2>3 DEF Inside, Newest
    <3>2. CASE x = e.box
      BY <3>1, <3>2 DEF PathFor, ClosedAbove
    <3>3. CASE x \in PathFor(L, e.box)
      BY <3>1, <3>3 DEF PathFor, ClosedAbove
    <3> QED
      BY <2>3, <3>2, <3>3
  <2> QED
    BY <2>2, <2>3
<1>3. e.bin \notin S
  OBVIOUS
<1> QED
  BY <1>1, <1>2, <1>3 DEF OnCycle, PathFor

(* A validated pack keeps the ledger foldable.                             *)
THEOREM PackFolds ==
  ASSUME NEW L, NEW e, Numbered(L), FoldsCleanly(L), Newer(e, L),
         e.kind = "pack", e.bin \in Bins, e.box \in Bins, e.bin # e.box,
         ParentOf(L, e.bin) = None, e.bin \notin PathFor(L, e.box)
  PROVE  FoldsCleanly(L \cup {e})
BY AppendFolds, PackMakesNoCycle

(* A validated unpack keeps the ledger foldable.                           *)
THEOREM UnpackFolds ==
  ASSUME NEW L, NEW e, Numbered(L), FoldsCleanly(L), Newer(e, L),
         e.kind = "unpack", ParentOf(L, e.bin) = e.box
  PROVE  FoldsCleanly(L \cup {e})
BY AppendFolds

-------------------------------------------------------------------------------
(* The program's fold, loop by loop (NestingFold), raises where FoldsCleanly
   says so and builds the graph that ParentOf and PathFor describe.  While
   path_for walks it has seen only what is above where it began, and all of
   that leads to where it is (WalkInv); so a walk from the packed bin finds
   any cycle the pack has closed (PackCycle).                              *)

(* What path_for walks.                                                    *)
LEMMA PathClosed ==
  ASSUME NEW L, NEW b
  PROVE  /\ PathFor(L, b) \in SUBSET Bins
         /\ ClosedAbove(L, b, PathFor(L, b))
         /\ \A S \in SUBSET Bins : ClosedAbove(L, b, S) => PathFor(L, b) \subseteq S
BY DEF PathFor, ClosedAbove

LEMMA PathOn ==
  ASSUME NEW L, NEW b, NEW x \in {b} \cup PathFor(L, b), NEW c \in Bins, Inside(L, x, c)
  PROVE  c \in PathFor(L, b)
BY PathClosed DEF ClosedAbove

LEMMA PathTransitive ==
  ASSUME NEW L, NEW b, NEW x \in PathFor(L, b)
  PROVE  PathFor(L, x) \subseteq PathFor(L, b)
<1>1. ClosedAbove(L, x, PathFor(L, b))
  BY PathClosed DEF ClosedAbove
<1> QED
  BY <1>1, PathClosed

(* A ledger of rows with numbers of their own, about known bins.           *)
Rows(L) == /\ \A e \in L : /\ e.seq \in Nat /\ e.bin \in Bins /\ e.box \in Bins
                           /\ e.kind \in {"pack", "unpack"}
           /\ \A e, f \in L : e.seq = f.seq => e = f

LEMMA ParentIffInside ==
  ASSUME NEW L, Rows(L), NEW b, NEW c \in Bins
  PROVE  Inside(L, b, c) <=> ParentOf(L, b) = c
<1>1. ASSUME NEW x \in Bins, NEW y \in Bins, Inside(L, b, x), Inside(L, b, y)
      PROVE  x = y
  <2>1. PICK e \in L : e.bin = b /\ e.box = x /\ Newest(L, e)
    BY <1>1 DEF Inside
  <2>2. PICK f \in L : f.bin = b /\ f.box = y /\ Newest(L, f)
    BY <1>1 DEF Inside
  <2>3. e.seq = f.seq
    BY <2>1, <2>2 DEF Newest, Rows
  <2> QED
    BY <2>1, <2>2, <2>3 DEF Rows
<1>2. ASSUME Inside(L, b, c)
      PROVE  ParentOf(L, b) = c
  <2>1. Inside(L, b, ParentOf(L, b)) /\ ParentOf(L, b) \in Bins
    BY <1>2 DEF ParentOf
  <2> QED
    BY <1>1, <1>2, <2>1
<1>3. ASSUME ParentOf(L, b) = c
      PROVE  Inside(L, b, c)
  BY <1>3, NoneIsNoBin DEF ParentOf
<1> QED
  BY <1>2, <1>3

LEMMA ParentOrNone ==
  ASSUME NEW L, NEW b
  PROVE  ParentOf(L, b) \in Bins \cup {None}
BY DEF ParentOf

(* What the newest row changes: where its own bin is.                      *)
LEMMA AppendedInside ==
  ASSUME NEW L, NEW e, Rows(L), Newer(e, L), NEW b, NEW c
  PROVE  Inside(L \cup {e}, b, c) <=>
           IF b = e.bin THEN e.kind = "pack" /\ e.box = c ELSE Inside(L, b, c)
<1> DEFINE M == L \cup {e}
<1>1. Newest(M, e)
  BY DEF Newest, Newer, Rows
<1>2. CASE b = e.bin
  <2>1. \A f \in M : f.bin = b /\ Newest(M, f) => f = e
    BY <1>2 DEF Newest, Newer, Rows
  <2> QED
    BY <1>1, <1>2, <2>1 DEF Inside
<1>3. CASE b # e.bin
  <2>1. \A f \in L : f.bin = b => (Newest(L, f) <=> Newest(M, f))
    BY <1>3 DEF Newest
  <2> QED
    BY <1>3, <2>1 DEF Inside
<1> QED
  BY <1>2, <1>3

LEMMA AppendedParent ==
  ASSUME NEW L, NEW e, Rows(L), Rows(L \cup {e}), Newer(e, L), NEW b
  PROVE  ParentOf(L \cup {e}, b) =
           IF b = e.bin THEN (IF e.kind = "pack" THEN e.box ELSE None)
                        ELSE ParentOf(L, b)
<1> DEFINE M == L \cup {e}
<1>0. e.box \in Bins
  BY DEF Rows
<1>1. CASE b = e.bin /\ e.kind = "pack"
  <2>1. Inside(M, b, e.box)
    BY <1>1, AppendedInside
  <2> QED
    BY <1>0, <1>1, <2>1, ParentIffInside
<1>2. CASE b = e.bin /\ e.kind # "pack"
  <2>1. \A c \in Bins : ~Inside(M, b, c)
    BY <1>2, AppendedInside
  <2> QED
    BY <1>2, <2>1 DEF ParentOf
<1>3. CASE b # e.bin
  <2>1. \A c \in Bins : Inside(M, b, c) <=> Inside(L, b, c)
    BY <1>3, AppendedInside
  <2> QED
    BY <1>3, <2>1 DEF ParentOf
<1> QED
  BY <1>1, <1>2, <1>3

(* A pack of a bin that was in no container closes a cycle only through    *)
(* that bin: it is enough to walk up from there.                           *)
LEMMA PackCycle ==
  ASSUME NEW L, NEW e, Rows(L), Newer(e, L), NoCycle(L),
         ParentOf(L, e.bin) = None, ~OnCycle(L \cup {e}, e.bin)
  PROVE  NoCycle(L \cup {e})
<1> DEFINE M == L \cup {e}
<1> SUFFICES ASSUME NEW x \in Bins, x \in PathFor(M, x)
             PROVE  FALSE
  BY DEF NoCycle, OnCycle
<1>1. \A y, c \in Bins : y # e.bin => (Inside(M, y, c) <=> Inside(L, y, c))
  BY AppendedInside
<1>2. \A c \in Bins : ~Inside(L, e.bin, c)
  BY ParentIffInside, NoneIsNoBin
<1>3. x \notin PathFor(L, x) /\ PathFor(L, x) \subseteq Bins
  BY PathClosed DEF NoCycle, OnCycle
<1>4. x # e.bin
  BY DEF OnCycle
<1>5. CASE e.bin \notin PathFor(L, x)
  <2>1. ClosedAbove(M, x, PathFor(L, x))
    BY <1>1, <1>3, <1>4, <1>5, PathClosed DEF ClosedAbove
  <2> QED
    BY <1>3, <2>1, PathClosed
<1>6. CASE e.bin \in PathFor(L, x)
  <2>1. ClosedAbove(M, x, PathFor(L, x) \cup PathFor(M, e.bin))
    <3> SUFFICES ASSUME NEW y \in PathFor(L, x) \cup PathFor(M, e.bin) \cup {x},
                        NEW c \in Bins, Inside(M, y, c)
                 PROVE  c \in PathFor(L, x) \cup PathFor(M, e.bin)
      BY DEF ClosedAbove
    <3>1. CASE y \in PathFor(M, e.bin) \cup {e.bin}
      BY <3>1, PathOn
    <3>2. CASE y \in PathFor(L, x) \cup {x} /\ y # e.bin
      <4>1. Inside(L, y, c)
        BY <1>1, <1>3, <3>2
      <4> QED
        BY <3>2, <4>1, PathOn
    <3> QED
      BY <3>1, <3>2
  <2>2. PathFor(L, x) \cup PathFor(M, e.bin) \in SUBSET Bins
    BY PathClosed
  <2>3. x \in PathFor(M, e.bin)
    <3>1. PathFor(M, x) \subseteq PathFor(L, x) \cup PathFor(M, e.bin)
      BY <2>1, <2>2, PathClosed
    <3> QED
      BY <1>3, <3>1
  <2>4. ClosedAbove(L, x, PathFor(M, x))
    <3>1. PathFor(M, x) \subseteq Bins /\ ClosedAbove(M, x, PathFor(M, x))
      BY PathClosed
    <3> QED
      BY <1>1, <1>2, <3>1 DEF ClosedAbove
  <2>5. e.bin \in PathFor(M, x)
    BY <1>6, <2>4, PathClosed
  <2>6. e.bin \in PathFor(M, e.bin)
    BY <2>3, <2>5, PathTransitive
  <2> QED
    BY <2>6 DEF OnCycle
<1> QED
  BY <1>5, <1>6

(* An unpack takes a way up away.                                          *)
LEMMA UnpackNoCycle ==
  ASSUME NEW L, NEW e, Rows(L), Newer(e, L), NoCycle(L), e.kind = "unpack"
  PROVE  NoCycle(L \cup {e})
<1> DEFINE M == L \cup {e}
<1> SUFFICES ASSUME NEW x \in Bins
             PROVE  PathFor(M, x) \subseteq PathFor(L, x)
  BY DEF NoCycle, OnCycle
<1>1. \A y, c : Inside(M, y, c) => Inside(L, y, c)
  BY AppendedInside
<1>2. ClosedAbove(M, x, PathFor(L, x)) /\ PathFor(L, x) \in SUBSET Bins
  BY <1>1, PathClosed DEF ClosedAbove
<1> QED
  BY <1>2, PathClosed

-------------------------------------------------------------------------------
LEMMA RowsAreRows ==
  ASSUME RowsRead
  PROVE  /\ Rows(folded)
         /\ \A M \in SUBSET folded : Rows(M)
<1>1. \A e \in folded : /\ e.seq \in Nat /\ e.bin \in Bins /\ e.box \in Bins
                        /\ e.kind \in {"pack", "unpack"}
  BY DEF RowsRead
<1> QED
  BY <1>1 DEF RowsRead, Rows

(* The row the loop reads next is newer than all it has read.              *)
LEMMA RowIsNewer ==
  ASSUME RowsRead, NEW kind \in {"pack", "unpack"}, NEW b \in Bins, NEW c \in Bins,
         ReadRow(Row(kind, b, c))
  PROVE  LET e == Row(kind, b, c)
         IN  /\ Newer(e, folded) /\ folded' = folded \cup {e} /\ e \notin folded
             /\ e.seq = count' /\ e.kind = kind /\ e.bin = b /\ e.box = c
             /\ count' \in Nat
             /\ folded' \subseteq [seq : 1..count', kind : {"pack", "unpack"},
                                   bin : Bins, box : Bins]
             /\ \A f, g \in folded' : f.seq = g.seq => f = g
             /\ Rows(folded')
<1> DEFINE e == Row(kind, b, c)
<1>1. /\ e.seq = count + 1 /\ e.kind = kind /\ e.bin = b /\ e.box = c
      /\ folded' = folded \cup {e} /\ count' = count + 1 /\ count \in Nat
  BY DEF Row, ReadRow, RowsRead
<1>2. \A f \in folded : f.seq \in 1..count
  BY DEF RowsRead
<1>3. Newer(e, folded) /\ e \notin folded
  BY <1>1, <1>2 DEF Newer
<1>4. \A f, g \in folded' : f.seq = g.seq => f = g
  BY <1>1, <1>2, <1>3 DEF RowsRead, Newer
<1>5. folded' \subseteq [seq : 1..count', kind : {"pack", "unpack"},
                         bin : Bins, box : Bins]
  <2>1. e \in [seq : 1..count', kind : {"pack", "unpack"}, bin : Bins, box : Bins]
    BY <1>1 DEF Row
  <2>2. 1..count \subseteq 1..count'
    BY <1>1
  <2>3. [seq : 1..count, kind : {"pack", "unpack"}, bin : Bins, box : Bins]
          \subseteq [seq : 1..count', kind : {"pack", "unpack"}, bin : Bins, box : Bins]
    BY <2>2
  <2> QED
    BY <1>1, <2>1, <2>3 DEF RowsRead
<1>6. Rows(folded')
  <2>1. Rows(folded) /\ e.seq \in Nat
    BY <1>1, RowsAreRows
  <2> QED
    BY <1>1, <1>4, <2>1 DEF Rows
<1> QED
  BY <1>1, <1>3, <1>4, <1>5, <1>6

(* A row that does not fit what was read before it makes the ledger raise. *)
LEMMA MisfitRaises ==
  ASSUME NEW L, NEW e, Rows(L), Newer(e, L),
         \/ e.kind = "pack" /\ ParentOf(L, e.bin) # None
         \/ e.kind = "pack" /\ OnCycle(L \cup {e}, e.bin)
         \/ e.kind = "unpack" /\ ParentOf(L, e.bin) # e.box
  PROVE  ~FoldsCleanly(L \cup {e})
<1> DEFINE M == L \cup {e}
<1>1. Before(M, e) = L /\ UpTo(M, e) = M
  BY DEF Before, UpTo, Rows, Newer
<1>2. ~Fits(M, e)
  BY <1>1 DEF Fits
<1> QED
  BY <1>2 DEF FoldsCleanly

LEMMA FoldInitInv == FoldInit => FoldInv
<1> SUFFICES ASSUME FoldInit
             PROVE  FoldInv
  OBVIOUS
<1>1. RowsRead
  BY DEF FoldInit, RowsRead
<1>2. \A b : ParentOf({}, b) = None /\ PathFor({}, b) = {}
  <2>1. \A b, c : ~Inside({}, b, c)
    BY DEF Inside
  <2>2. \A b : ClosedAbove({}, b, {})
    BY <2>1 DEF ClosedAbove
  <2> QED
    BY <2>1, <2>2, PathClosed DEF ParentOf
<1>3. Sound({})
  BY <1>2 DEF Sound, NoCycle, OnCycle, FoldsCleanly
<1> QED
  BY <1>1, <1>2, <1>3 DEF FoldInit, FoldInv

(* A walk that begins has seen the bin it begins at.                       *)
LEMMA WalkBegins ==
  ASSUME NEW b \in Bins, walk' = WalkFrom(b)
  PROVE  walk'.from = b /\ WalkInv'
<1>1. /\ walk'.from = b /\ walk'.current = b /\ walk'.seen = {b}
      /\ walk' \in [from : Bins, current : Bins, seen : SUBSET Bins]
  BY DEF WalkFrom
<1> QED
  BY <1>1 DEF WalkInv, Above

LEMMA ReadPackKeeps ==
  ASSUME FoldInv, NEW b \in Bins, NEW c \in Bins, b # c, ReadPack(b, c)
  PROVE  FoldInv'
<1> DEFINE e == Row("pack", b, c)
<1>1. /\ Newer(e, folded) /\ folded' = folded \cup {e} /\ e \notin folded
      /\ e.seq = count' /\ e.kind = "pack" /\ e.bin = b /\ e.box = c
      /\ count' \in Nat
      /\ folded' \subseteq [seq : 1..count', kind : {"pack", "unpack"},
                            bin : Bins, box : Bins]
      /\ \A f, g \in folded' : f.seq = g.seq => f = g
      /\ Rows(folded')
  BY RowIsNewer DEF FoldInv, ReadPack
<1>2. /\ Rows(folded) /\ Sound(folded) /\ stage = "row"
      /\ parents \in [Bins -> Bins \cup {None}]
      /\ \A x \in Bins : parents[x] = ParentOf(folded, x)
  BY RowsAreRows DEF FoldInv, ReadPack, ReadRow, RowsRead
<1> HIDE DEF e
<1>3. CASE /\ parents[b] # None
           /\ stage' = "raised" /\ UNCHANGED <<parents, walk>>
  <2>1. ~FoldsCleanly(folded')
    BY <1>1, <1>2, <1>3, MisfitRaises
  <2>2. RowsRead'
    BY <1>1, <1>2, <1>3 DEF RowsRead
  <2> QED
    BY <1>3, <2>1, <2>2 DEF FoldInv
<1>4. CASE /\ parents[b] = None
           /\ parents' = [parents EXCEPT ![b] = c]
           /\ walk' = WalkFrom(b) /\ stage' = "check"
  <2>1. RowsRead'
    BY <1>1, <1>2, <1>4 DEF RowsRead
  <2>2. \A x \in Bins : parents'[x] = ParentOf(folded', x)
    BY <1>1, <1>2, <1>4, AppendedParent
  <2>3. walk'.from = b /\ WalkInv'
    BY <1>4, WalkBegins
  <2>4. folded' \ {e} = folded
    BY <1>1
  <2>5. \E f \in folded' : /\ f.seq = count' /\ f.kind = "pack" /\ f.bin = walk'.from
                           /\ Sound(folded' \ {f})
                           /\ ParentOf(folded' \ {f}, f.bin) = None
    BY <1>1, <1>2, <1>4, <2>3, <2>4
  <2> QED
    BY <1>4, <2>1, <2>2, <2>3, <2>5 DEF FoldInv
<1> QED
  BY <1>3, <1>4 DEF ReadPack

LEMMA ReadUnpackKeeps ==
  ASSUME FoldInv, NEW b \in Bins, NEW c \in Bins, b # c, ReadUnpack(b, c)
  PROVE  FoldInv'
<1> DEFINE e == Row("unpack", b, c)
<1>1. /\ Newer(e, folded) /\ folded' = folded \cup {e} /\ e \notin folded
      /\ e.seq = count' /\ e.kind = "unpack" /\ e.bin = b /\ e.box = c
      /\ count' \in Nat
      /\ folded' \subseteq [seq : 1..count', kind : {"pack", "unpack"},
                            bin : Bins, box : Bins]
      /\ \A f, g \in folded' : f.seq = g.seq => f = g
      /\ Rows(folded')
  BY RowIsNewer DEF FoldInv, ReadUnpack
<1>2. /\ Rows(folded) /\ Sound(folded) /\ stage = "row" /\ Numbered(folded)
      /\ parents \in [Bins -> Bins \cup {None}]
      /\ \A x \in Bins : parents[x] = ParentOf(folded, x)
  BY RowsAreRows DEF FoldInv, ReadUnpack, ReadRow, RowsRead, Rows, Numbered
<1> HIDE DEF e
<1>3. CASE /\ parents[b] # c
           /\ stage' = "raised" /\ UNCHANGED parents
  <2>1. ~FoldsCleanly(folded')
    BY <1>1, <1>2, <1>3, MisfitRaises
  <2>2. RowsRead'
    BY <1>1, <1>2, <1>3 DEF RowsRead
  <2> QED
    BY <1>3, <2>1, <2>2 DEF FoldInv
<1>4. CASE /\ parents[b] = c
           /\ parents' = [parents EXCEPT ![b] = None] /\ UNCHANGED stage
  <2>1. RowsRead'
    BY <1>1, <1>2, <1>4 DEF RowsRead
  <2>2. \A x \in Bins : parents'[x] = ParentOf(folded', x)
    BY <1>1, <1>2, <1>4, AppendedParent
  <2>3. Sound(folded')
    BY <1>1, <1>2, <1>4, UnpackNoCycle, UnpackFolds DEF Sound
  <2> QED
    BY <1>2, <1>4, <2>1, <2>2, <2>3 DEF FoldInv
<1> QED
  BY <1>3, <1>4 DEF ReadUnpack

LEMMA AskPathKeeps ==
  ASSUME FoldInv, NEW b \in Bins, AskPath(b)
  PROVE  FoldInv'
<1>1. walk'.from = b /\ WalkInv'
  BY WalkBegins DEF AskPath
<1>2. RowsRead' /\ Sound(folded)' /\ stage' = "ask"
  BY DEF FoldInv, AskPath, RowsRead, Sound, NoCycle
<1>3. (\A x \in Bins : parents[x] = ParentOf(folded, x))'
  BY DEF FoldInv, AskPath
<1> QED
  BY <1>1, <1>2, <1>3 DEF FoldInv

LEMMA ProceedKeeps ==
  ASSUME FoldInv, Proceed
  PROVE  FoldInv'
<1>1. RowsRead' /\ Sound(folded)' /\ stage' = "row"
  BY DEF FoldInv, Proceed, RowsRead, Sound, NoCycle
<1>2. (\A x \in Bins : parents[x] = ParentOf(folded, x))'
  BY DEF FoldInv, Proceed
<1> QED
  BY <1>1, <1>2 DEF FoldInv

(* Where a walk is, and what it has seen, are bins; and the container of a *)
(* bin is the one its rows put it in.                                      *)
LEMMA WalkSteps ==
  ASSUME FoldInv, stage \in {"check", "ask", "answered"}
  PROVE  /\ Rows(folded)
         /\ walk.seen \subseteq Bins /\ walk.current \in Bins /\ walk.from \in Bins
         /\ \A x \in Bins : parents[x] \in Bins \cup {None}
         /\ \A x, y \in Bins : Inside(folded, x, y) <=> parents[x] = y
<1>1. Rows(folded) /\ \A x \in Bins : parents[x] = ParentOf(folded, x)
  BY RowsAreRows DEF FoldInv
<1>2. walk.from \in Bins /\ walk.seen \subseteq Bins /\ walk.current \in Bins
  BY PathClosed DEF FoldInv, WalkInv, Above
<1> QED
  BY <1>1, <1>2, ParentIffInside, ParentOrNone

LEMMA ClimbKeeps ==
  ASSUME FoldInv, Climb
  PROVE  FoldInv'
<1> DEFINE up == parents[walk.current]
<1>1. /\ up \in Bins /\ up \notin walk.seen
      /\ Inside(folded, walk.current, up)
      /\ walk.from \in Bins /\ walk.seen \subseteq Bins /\ walk.current \in Bins
  BY WalkSteps DEF Climb
<1>2. WalkInv
  BY DEF FoldInv, Climb
<1>3. PICK p : p = up
  OBVIOUS
<1>4. /\ walk'.from = walk.from /\ walk'.current = p /\ walk'.seen = walk.seen \cup {p}
      /\ UNCHANGED <<folded, count, parents, stage>>
  BY <1>2, <1>3 DEF Climb, WalkInv
<1>5. walk' \in [from : Bins, current : Bins, seen : SUBSET Bins]
  BY <1>1, <1>2, <1>3 DEF Climb, WalkInv
<1>6. p \in PathFor(folded, walk.from) /\ \A x \in walk.seen : p \in PathFor(folded, x)
  <2>1. \A x \in walk.seen : walk.current \in {x} \cup PathFor(folded, x)
    BY <1>2 DEF WalkInv, Above
  <2>2. \A x \in walk.seen : p \in PathFor(folded, x)
    BY <1>1, <1>3, <2>1, PathOn
  <2> QED
    BY <1>2, <2>2 DEF WalkInv
<1>7. \A x : Above(x)' = Above(x)
  BY <1>4 DEF Above
<1>8. /\ walk'.from \in walk'.seen /\ walk'.current \in walk'.seen
      /\ walk'.current # walk'.from
  BY <1>1, <1>2, <1>3, <1>4 DEF WalkInv
<1>9. walk'.seen \subseteq Above(walk.from)
  BY <1>2, <1>4, <1>6 DEF WalkInv, Above
<1>10. \A x \in walk'.seen : walk'.current \in Above(x)
  BY <1>4, <1>6 DEF Above
<1>11. \A x \in walk'.seen \ {walk'.current} :
          parents'[x] \in walk'.seen \ {walk'.from}
  <2>1. p # walk.from
    BY <1>1, <1>2, <1>3 DEF WalkInv
  <2> QED
    BY <1>2, <1>3, <1>4, <2>1 DEF WalkInv
<1>12. WalkInv'
  BY <1>4, <1>5, <1>7, <1>8, <1>9, <1>10, <1>11 DEF WalkInv
<1>13. stage \in {"check", "ask"}
  BY DEF Climb
<1>14. RowsRead'
  BY <1>4 DEF FoldInv, RowsRead
<1>15. (\A x \in Bins : parents[x] = ParentOf(folded, x))'
  BY <1>4, <1>13 DEF FoldInv
<1>16. CASE stage = "ask"
  BY <1>4, <1>12, <1>14, <1>15, <1>16 DEF FoldInv, Sound, NoCycle
<1>17. CASE stage = "check"
  BY <1>4, <1>12, <1>14, <1>15, <1>17 DEF FoldInv
<1> QED
  BY <1>13, <1>16, <1>17

(* While a pack is checked, its row is the newest and does fit, but for a  *)
(* cycle.                                                                  *)
LEMMA CheckedRow ==
  ASSUME FoldInv, stage = "check"
  PROVE  \E L : \E e : /\ folded = L \cup {e} /\ Rows(L) /\ Newer(e, L)
                       /\ e.kind = "pack" /\ e.bin = walk.from
                       /\ Sound(L) /\ ParentOf(L, e.bin) = None
<1>1. PICK e \in folded : /\ e.seq = count /\ e.kind = "pack" /\ e.bin = walk.from
                          /\ Sound(folded \ {e})
                          /\ ParentOf(folded \ {e}, e.bin) = None
  BY DEF FoldInv
<1>2. RowsRead /\ Rows(folded \ {e})
  BY RowsAreRows DEF FoldInv
<1>3. \A f \in folded : f.seq \in 1..count
  BY <1>2 DEF RowsRead
<1>4. Newer(e, folded \ {e})
  BY <1>1, <1>2, <1>3 DEF Newer, RowsRead
<1>5. folded = (folded \ {e}) \cup {e}
  OBVIOUS
<1> QED
  BY <1>1, <1>2, <1>4, <1>5

(* A walk that meets a bin again has met one that is above itself.         *)
LEMMA MetAgain ==
  ASSUME FoldInv, MeetAgain
  PROVE  ~NoCycle(folded)
<1> DEFINE up == parents[walk.current]
<1>1. WalkInv
  BY DEF FoldInv, MeetAgain
<1>2. up \in walk.seen /\ up \in Bins /\ walk.current \in Bins
  BY WalkSteps DEF MeetAgain
<1>3. Inside(folded, walk.current, up)
  BY <1>2, WalkSteps DEF MeetAgain
<1>4. walk.current \in {up} \cup PathFor(folded, up)
  BY <1>1, <1>2 DEF WalkInv, Above
<1>5. up \in PathFor(folded, up)
  BY <1>2, <1>3, <1>4, PathOn
<1> QED
  BY <1>2, <1>5 DEF NoCycle, OnCycle

LEMMA MeetAgainKeeps ==
  ASSUME FoldInv, MeetAgain
  PROVE  FoldInv'
<1>1. stage = "check" /\ stage' = "raised"
  BY MetAgain DEF MeetAgain, FoldInv, Sound
<1>2. PICK L, e : /\ folded = L \cup {e} /\ Rows(L) /\ Newer(e, L)
                  /\ e.kind = "pack" /\ e.bin = walk.from
                  /\ Sound(L) /\ ParentOf(L, e.bin) = None
  BY <1>1, CheckedRow
<1>3. OnCycle(L \cup {e}, e.bin)
  BY <1>2, PackCycle, MetAgain DEF Sound
<1>4. ~FoldsCleanly(folded)
  BY <1>2, <1>3, MisfitRaises
<1>5. UNCHANGED <<folded, count, parents>>
  BY DEF MeetAgain
<1>6. RowsRead'
  BY <1>1, <1>5 DEF FoldInv, RowsRead
<1>7. ~FoldsCleanly(folded')
  BY <1>4, <1>5
<1> QED
  BY <1>1, <1>6, <1>7 DEF FoldInv

(* A walk that arrives has seen, beside the bin it began at, all above it. *)
LEMMA ArrivedPath ==
  ASSUME FoldInv, stage \in {"check", "ask", "answered"},
         parents[walk.current] = None
  PROVE  /\ PathFor(folded, walk.from) \subseteq walk.seen \ {walk.from}
         /\ NoCycle(folded) =>
              PathFor(folded, walk.from) = walk.seen \ {walk.from}
<1>1. WalkInv
  BY DEF FoldInv
<1>2. ClosedAbove(folded, walk.from, walk.seen \ {walk.from})
  <2> SUFFICES ASSUME NEW x \in walk.seen, NEW c \in Bins, Inside(folded, x, c)
               PROVE  c \in walk.seen \ {walk.from}
    BY <1>1 DEF ClosedAbove, WalkInv
  <2>1. parents[x] = c
    BY WalkSteps
  <2>2. x # walk.current
    BY <2>1, NoneIsNoBin
  <2> QED
    BY <1>1, <2>1, <2>2 DEF WalkInv
<1>3. walk.seen \ {walk.from} \in SUBSET Bins
  BY WalkSteps
<1>4. PathFor(folded, walk.from) \subseteq walk.seen \ {walk.from}
  BY <1>2, <1>3, PathClosed
<1>5. walk.seen \ {walk.from} \subseteq PathFor(folded, walk.from)
  BY <1>1 DEF WalkInv, Above
<1> QED
  BY <1>4, <1>5

LEMMA ArriveKeeps ==
  ASSUME FoldInv, Arrive
  PROVE  FoldInv'
<1>1. parents[walk.current] = None /\ UNCHANGED <<folded, count, parents>>
  BY DEF Arrive
<1>2. CASE stage = "check" /\ stage' = "row" /\ walk' = NoWalk
  <2>1. PICK L, e : /\ folded = L \cup {e} /\ Rows(L) /\ Newer(e, L)
                    /\ e.kind = "pack" /\ e.bin = walk.from
                    /\ Sound(L) /\ ParentOf(L, e.bin) = None
    BY <1>2, CheckedRow
  <2>2. ~OnCycle(folded, walk.from)
    BY <1>1, <1>2, ArrivedPath DEF OnCycle
  <2>3. NoCycle(folded)
    BY <2>1, <2>2, PackCycle DEF Sound
  <2>4. Numbered(L)
    BY <2>1 DEF Rows, Numbered
  <2>5. FoldsCleanly(folded)
    BY <2>1, <2>2, <2>4, AppendFolds DEF Sound
  <2>6. Sound(folded')
    BY <1>1, <2>3, <2>5 DEF Sound
  <2>7. RowsRead'
    BY <1>1, <1>2 DEF FoldInv, RowsRead
  <2>8. (\A x \in Bins : parents[x] = ParentOf(folded, x))'
    BY <1>1, <1>2 DEF FoldInv
  <2> QED
    BY <1>2, <2>6, <2>7, <2>8 DEF FoldInv
<1>3. CASE stage = "ask" /\ stage' = "answered" /\ UNCHANGED walk
  <2>1. RowsRead' /\ WalkInv' /\ Sound(folded)'
    BY <1>1, <1>3 DEF FoldInv, RowsRead, WalkInv, Above, Sound, NoCycle
  <2>2. (\A x \in Bins : parents[x] = ParentOf(folded, x))'
    BY <1>1, <1>3 DEF FoldInv
  <2>3. (parents[walk.current] = None)'
    BY <1>1, <1>3
  <2> QED
    BY <1>3, <2>1, <2>2, <2>3 DEF FoldInv
<1> QED
  BY <1>2, <1>3 DEF Arrive

THEOREM FoldInvariance == FoldSpec => []FoldInv
<1>1. ASSUME FoldInv, [FoldNext]_foldVars
      PROVE  FoldInv'
  <2>1. ASSUME NEW b \in Bins, NEW c \in Bins, b # c, ReadPack(b, c) \/ ReadUnpack(b, c)
        PROVE  FoldInv'
    BY <1>1, <2>1, ReadPackKeeps, ReadUnpackKeeps
  <2>2. ASSUME NEW b \in Bins, AskPath(b)
        PROVE  FoldInv'
    BY <1>1, <2>2, AskPathKeeps
  <2>3. CASE Climb
    BY <1>1, <2>3, ClimbKeeps
  <2>4. CASE MeetAgain
    BY <1>1, <2>4, MeetAgainKeeps
  <2>5. CASE Arrive
    BY <1>1, <2>5, ArriveKeeps
  <2>6. CASE Proceed
    BY <1>1, <2>6, ProceedKeeps
  <2>7. CASE UNCHANGED foldVars
    BY <1>1, <2>7
       DEF foldVars, FoldInv, RowsRead, WalkInv, Above, Sound, NoCycle
  <2> QED
    BY <1>1, <2>1, <2>2, <2>3, <2>4, <2>5, <2>6, <2>7 DEF FoldNext, FoldEnds
<1> QED
  BY <1>1, FoldInitInv, PTL DEF FoldSpec

(* FoldsCleanly, by which the rest of this module says that the program's  *)
(* fold does not raise, holds of exactly the ledgers it does not raise on. *)
THEOREM FoldIsFoldsCleanly == FoldSpec => []CleanMeansNoRaise
<1>1. FoldInv => CleanMeansNoRaise
  BY DEF FoldInv, CleanMeansNoRaise, Sound
<1> QED
  BY <1>1, FoldInvariance, PTL

(* Of a ledger that folds, ParentOf, PathFor and LocationSource are what   *)
(* the graph of fold_bin_containment answers, and it answers for any bin.  *)
THEOREM GraphIsTrue == FoldSpec => []GraphAgrees
<1>1. ASSUME FoldInv
      PROVE  GraphAgrees
  <2>1. stage # "cyclic" /\ stage \in {"row", "ask", "answered"} =>
          \A b \in Bins : parents[b] = ParentOf(folded, b)
    BY <1>1 DEF FoldInv, RowsRead
  <2>2. ASSUME stage = "answered"
        PROVE  /\ walk.seen \ {walk.from} = PathFor(folded, walk.from)
               /\ walk.current = LocationSource(folded, walk.from)
    <3>1. WalkInv /\ NoCycle(folded) /\ parents[walk.current] = None
      BY <1>1, <2>2 DEF FoldInv, Sound
    <3>2. walk.seen \ {walk.from} = PathFor(folded, walk.from)
      BY <1>1, <2>2, <3>1, ArrivedPath
    <3>3. /\ walk.seen \subseteq Bins
          /\ \A x \in walk.seen : parents[x] = ParentOf(folded, x)
      BY <1>1, <2>1, <2>2, WalkSteps
    <3>4. \A x \in walk.seen \ {walk.current} : ParentOf(folded, x) # None
      BY <3>1, <3>3, NoneIsNoBin DEF WalkInv
    <3>5. ParentOf(folded, walk.current) = None
      BY <3>1, <3>3 DEF WalkInv
    <3>6. CASE walk.current = walk.from
      <4>1. PathFor(folded, walk.from) = {}
        BY <3>1, <3>2, <3>6 DEF WalkInv
      <4> QED
        BY <3>2, <3>6, <4>1 DEF LocationSource
    <3>7. CASE walk.current # walk.from
      <4>1. walk.current \in PathFor(folded, walk.from)
        BY <3>1, <3>2, <3>7 DEF WalkInv
      <4>2. \A x \in PathFor(folded, walk.from) :
              ParentOf(folded, x) = None <=> x = walk.current
        BY <3>2, <3>4, <3>5
      <4> QED
        BY <3>2, <4>1, <4>2 DEF LocationSource
    <3> QED
      BY <3>2, <3>6, <3>7
  <2> QED
    BY <1>1, <2>1, <2>2 DEF FoldInv, RowsRead, GraphAgrees
<1> QED
  BY <1>1, FoldInvariance, PTL

-------------------------------------------------------------------------------
LEMMA ConstantTypes ==
  /\ NoEvent \notin Events
  /\ None \notin Bins \cup Sites \cup Trips
BY ConstantsAssumption DEF NoEvent, Events

(* The events the program builds are events, and valid ones.               *)
LEMMA EventOfType ==
  ASSUME NEW r \in RequestType, r.op \in {"event", "place_existing"}
  PROVE  /\ EventOf(r) \in Events
         /\ r.op = "place_existing" => ValidEvent(EventOf(r))
<1>1. CASE r.op = "event"
  BY <1>1 DEF RequestType, EventOf, Events, EventKeys
<1>2. CASE r.op = "place_existing"
  <2>1. r.bin \in Bins /\ r.site \in Sites /\ r.key \in Keys
    BY <1>2 DEF RequestType
  <2>2. EventOf(r) \in Events
    BY <1>2, <2>1 DEF EventOf, Events, EventKeys, EventKinds
  <2>3. ValidEvent(EventOf(r))
    BY <1>2, <2>1, ConstantTypes DEF EventOf, ValidEvent, EventKinds
  <2> QED BY <2>2, <2>3
<1> QED BY <1>1, <1>2

LEMMA ArriveEventType ==
  ASSUME NEW t \in Trips, NEW b \in Bins, NEW site \in Sites
  PROVE  /\ ArriveEvent(t, b, site) \in Events
         /\ ValidEvent(ArriveEvent(t, b, site))
         /\ ArriveEvent(t, b, site).bin = b
BY ConstantTypes DEF ArriveEvent, Events, EventKinds, EventKeys, ValidEvent

LEMMA UnpackPlaceType ==
  ASSUME NEW r \in RequestType, r.op \in Containing, NEW site \in Sites
  PROVE  UnpackPlace(r, site) \in Events /\ ValidEvent(UnpackPlace(r, site))
<1>1. r.bin \in Bins /\ r.key \in Keys
  BY DEF RequestType, Containing
<1> QED
  BY <1>1, ConstantTypes
     DEF UnpackPlace, Events, EventKinds, EventKeys, ValidEvent

(* A location is one of the locations, whatever the nesting rows say.      *)
LEMMA LocationType ==
  ASSUME NEW tripRows \in SUBSET TripRows, \A e \in tripRows : ValidEvent(e),
         NEW nestRows, NEW b \in Bins
  PROVE  /\ WhereIs(tripRows, nestRows, b).site \in Sites \cup {None}
         /\ WhereIs(tripRows, nestRows, b).status = "at_site" =>
              WhereIs(tripRows, nestRows, b).site \in Sites
<1> DEFINE src == LocationSource(nestRows, b)
<1>1. src \in Bins
  BY DEF LocationSource, PathFor
<1>2. CASE \E e \in tripRows : Decides(tripRows, e, src)
  <2>1. PICK e \in tripRows : /\ FoldBinLocation(tripRows, src) = LocationOf(e)
                              /\ Decides(tripRows, e, src)
    BY <1>2 DEF FoldBinLocation
  <2>2. e.kind # "load" /\ e.kind \in LocationKinds => e.site \in Sites
    BY DEF ValidEvent, TripRows, LocationKinds
  <2> QED
    BY <2>1, <2>2 DEF WhereIs, LocationOf, AtSite, InTransit, TripRows,
                      Decides, Locates
<1>3. CASE ~ \E e \in tripRows : Decides(tripRows, e, src)
  BY <1>1, <1>3, ConstantsAssumption
     DEF WhereIs, FoldBinLocation, AtSite, Unknown
<1> QED BY <1>2, <1>3

-------------------------------------------------------------------------------
(* Every session but s keeps its registers.                                *)
OthersKeep(s) ==
  \A t \in Sessions \ {s} :
    pc'[t] = pc[t] /\ req'[t] = req[t] /\ ev'[t] = ev[t] /\ seen'[t] = seen[t]

LEMMA OthersRegisters ==
  ASSUME ControlInv, NEW s \in Sessions, OthersKeep(s), Registers(s)'
  PROVE  ControlInv'
BY DEF ControlInv, OthersKeep, Registers

LEMMA EndKeepsTypes ==
  ASSUME TypeInv, NEW s \in Sessions, NEW answer \in Resting,
         EndTransaction(s, answer)
  PROVE  /\ lock' \in Sessions \cup {None}
         /\ pc' \in [Sessions -> Resting \cup Busy]
         /\ req' \in [Sessions -> RequestType \cup {NoRequest}]
         /\ ev' \in [Sessions -> Events \cup {NoEvent}]
         /\ seen' \in [Sessions -> Sites \cup {None}]
         /\ plan' \in [Sessions -> SUBSET Bins]
         /\ done' \in [Sessions -> SUBSET Bins]
         /\ ControlInv'
<1>1. /\ lock' \in Sessions \cup {None}
      /\ pc' \in [Sessions -> Resting \cup Busy]
      /\ req' \in [Sessions -> RequestType \cup {NoRequest}]
      /\ ev' \in [Sessions -> Events \cup {NoEvent}]
      /\ seen' \in [Sessions -> Sites \cup {None}]
      /\ plan' \in [Sessions -> SUBSET Bins]
      /\ done' \in [Sessions -> SUBSET Bins]
  BY DEF TypeInv, TypeOK, EndTransaction, Goto
<1>2. OthersKeep(s)
  BY DEF TypeInv, TypeOK, EndTransaction, Goto, OthersKeep
<1>3. pc'[s] \in Resting /\ req'[s] = NoRequest /\ ev'[s] = NoEvent
  BY DEF TypeInv, TypeOK, EndTransaction, Goto
<1>4. Registers(s)'
  BY <1>3, ConstantTypes
     DEF Registers, Resting, NoRequest, Containing
<1> QED
  BY <1>1, <1>2, <1>4, OthersRegisters DEF TypeInv

LEMMA EndOnlyKeepsTypeInv ==
  ASSUME TypeInv, NEW s \in Sessions, NEW answer \in Resting,
         EndTransaction(s, answer),
         UNCHANGED <<trips, nest, tripSeq, nestSeq, crashes>>
  PROVE  TypeInv'
<1>1. TypeOK'
  BY EndKeepsTypes DEF TypeInv, TypeOK
<1>2. RowsMeetSchema'
  BY DEF TypeInv, RowsMeetSchema
<1> QED
  BY <1>1, <1>2, EndKeepsTypes DEF TypeInv

LEMMA RollbackKeepsTypeInv ==
  ASSUME TypeInv, NEW s \in Sessions, NEW answer \in Resting,
         Rollback(s, answer), crashes' \in 0..MaxCrashes
  PROVE  TypeInv'
<1>1. TypeOK'
  BY EndKeepsTypes DEF TypeInv, TypeOK, Rollback
<1>2. RowsMeetSchema'
  BY DEF TypeInv, RowsMeetSchema, Rollback
<1> QED
  BY <1>1, <1>2, EndKeepsTypes DEF TypeInv, Rollback

LEMMA RefuseKeepsTypeInv ==
  ASSUME TypeInv, NEW s \in Sessions, Refuse(s)
  PROVE  TypeInv'
BY RollbackKeepsTypeInv DEF Refuse, Resting, TypeInv, TypeOK

(* A step that only moves a session's program counter.                     *)
LEMMA GotoKeepsTypeOK ==
  ASSUME TypeOK, NEW s \in Sessions, NEW label \in Busy, Goto(s, label),
         UNCHANGED <<trips, nest, tripSeq, nestSeq, lock, txVars, crashes>>
  PROVE  TypeOK' /\ OthersKeep(s) /\ pc'[s] = label
BY DEF TypeOK, Goto, txVars, OthersKeep

LEMMA GotoKeepsTypeInv ==
  ASSUME TypeInv, NEW s \in Sessions, NEW label \in Busy, Goto(s, label),
         UNCHANGED <<trips, nest, tripSeq, nestSeq, lock, txVars, crashes>>,
         label \in {"prior", "lock", "insert"} =>
           ev[s] \in Events /\ req[s].op \in Recording,
         label \notin {"verify", "checksum", "validate", "child", "check"},
         label = "append" =>
           ev[s] = NoEvent /\ req[s].op \in Containing /\ seen[s] \in Sites
  PROVE  TypeInv'
<1>1. TypeOK' /\ OthersKeep(s) /\ pc'[s] = label
  BY GotoKeepsTypeOK DEF TypeInv
<1>2. Registers(s)'
  BY <1>1 DEF TypeInv, ControlInv, Registers, txVars, Busy, Resting
<1>3. RowsMeetSchema'
  BY DEF TypeInv, RowsMeetSchema
<1> QED
  BY <1>1, <1>2, <1>3, OthersRegisters DEF TypeInv
-------------------------------------------------------------------------------
(* One lemma per action: it keeps TypeInv.                                 *)
LEMMA BeginKeepsTypeInv ==
  ASSUME TypeInv, NEW s \in Sessions, NEW r \in Requests, Begin(s, r)
  PROVE  TypeInv'
<1>1. r \in RequestType
  BY ConstantsAssumption
<1>2. pc' \in [Sessions -> Resting \cup Busy]
  BY DEF TypeInv, TypeOK, Begin, Goto, Resting, Busy, FirstStep
<1>3. req' \in [Sessions -> RequestType \cup {NoRequest}]
  BY <1>1 DEF TypeInv, TypeOK, Begin
<1>4. ev' \in [Sessions -> Events \cup {NoEvent}]
  BY <1>1, EventOfType DEF TypeInv, TypeOK, Begin
<1>5. TypeOK'
  BY <1>2, <1>3, <1>4 DEF TypeInv, TypeOK, Begin
<1>6. RowsMeetSchema'
  BY DEF TypeInv, RowsMeetSchema, Begin
<1>7. OthersKeep(s)
  BY DEF TypeInv, TypeOK, Begin, Goto, OthersKeep
<1>8. Registers(s)'
  <2>1. CASE r.op = "event" /\ ValidEvent(EventOf(r))
    BY <1>1, <2>1, EventOfType
       DEF TypeInv, TypeOK, Begin, Goto, Registers, Recording, Containing, FirstStep,
           Resting
  <2>2. CASE r.op = "place_existing"
    BY <1>1, <2>2, EventOfType
       DEF TypeInv, TypeOK, Begin, Goto, Registers, Recording, Containing,
           Resting
  <2>3. CASE r.op = "arrive_all" /\ ev[s] = NoEvent
    BY <1>1, <2>3, ConstantTypes
       DEF TypeInv, TypeOK, Begin, Goto, Registers, Recording, Containing,
           Resting
  <2>4. CASE r.op \in {"pack", "unpack"} /\ r.bin # r.box /\ ev[s] = NoEvent
    BY <1>1, <2>4, ConstantTypes
       DEF TypeInv, TypeOK, Begin, Goto, Registers, Recording, Containing,
           Resting
  <2>5. CASE pc'[s] = "refused" /\ req'[s] = req[s] /\ ev'[s] = ev[s]
    BY <2>5 DEF TypeInv, ControlInv, Begin, Registers
  <2>6. ev[s] = NoEvent
    BY DEF TypeInv, ControlInv, Registers, Begin
  <2> QED
    BY <2>1, <2>2, <2>3, <2>4, <2>5, <2>6 DEF TypeInv, TypeOK, Begin, Goto
<1> QED
  BY <1>5, <1>6, <1>7, <1>8, OthersRegisters DEF TypeInv
LEMMA ReadPriorKeepsTypeInv ==
  ASSUME TypeInv, NEW s \in Sessions, ReadPrior(s)
  PROVE  TypeInv'
<1>1. ev[s] \in Events /\ req[s].op \in Recording
  BY DEF TypeInv, ControlInv, Registers, ReadPrior
<1> QED
  BY <1>1, GotoKeepsTypeInv DEF ReadPrior, Busy

LEMMA AcquireLockKeepsTypeInv ==
  ASSUME TypeInv, NEW s \in Sessions, AcquireLock(s)
  PROVE  TypeInv'
<1>1. TypeOK' /\ OthersKeep(s)
  BY DEF TypeInv, TypeOK, AcquireLock, Goto, Busy, txVars, OthersKeep
<1>2. pc'[s] = IF ev[s] = NoEvent THEN "validate" ELSE "check"
  BY DEF TypeInv, TypeOK, AcquireLock, Goto
<1>3. Registers(s)'
  BY <1>2, ConstantTypes
     DEF TypeInv, ControlInv, Registers, AcquireLock, txVars, Resting
<1>4. RowsMeetSchema'
  BY DEF TypeInv, RowsMeetSchema, AcquireLock
<1> QED
  BY <1>1, <1>3, <1>4, OthersRegisters DEF TypeInv

LEMMA CheckTopLevelKeepsTypeInv ==
  ASSUME TypeInv, NEW s \in Sessions, CheckTopLevel(s)
  PROVE  TypeInv'
<1>1. ev[s] \in Events /\ req[s].op \in Recording
  BY DEF TypeInv, ControlInv, Registers, CheckTopLevel
<1> QED
  BY <1>1, GotoKeepsTypeInv, RefuseKeepsTypeInv DEF CheckTopLevel, Busy

LEMMA VerifyPlacementKeepsTypeInv ==
  ASSUME TypeInv, NEW s \in Sessions, VerifyPlacement(s)
  PROVE  TypeInv'
<1>1. ev[s] \in Events /\ req[s].op \in Recording
  BY DEF TypeInv, ControlInv, Registers, VerifyPlacement, Recording
<1> QED
  BY <1>1, GotoKeepsTypeInv, RefuseKeepsTypeInv DEF VerifyPlacement, Busy

LEMMA ReadChildKeepsTypeInv ==
  ASSUME TypeInv, NEW s \in Sessions, ReadChild(s)
  PROVE  TypeInv'
<1>1. ev[s] = NoEvent /\ req[s].op \in Containing
  BY DEF TypeInv, ControlInv, Registers, ReadChild
<1>2. SameKnownSite(s) => seen[s] \in Sites
  BY DEF TypeInv, TypeOK, SameKnownSite
<1> QED
  BY <1>1, <1>2, GotoKeepsTypeInv, RefuseKeepsTypeInv DEF ReadChild, Busy

(* One round of arrive_all ends: the next arrival, or the commit.          *)
LEMMA NextArrivalRegisters ==
  ASSUME TypeInv, NEW s \in Sessions, req[s].op = "arrive_all",
         ev[s] \in Events,
         NextArrival(s, done[s] \cup {ev[s].bin}),
         UNCHANGED <<req, seen>>
  PROVE  /\ pc' \in [Sessions -> Resting \cup Busy]
         /\ ev' \in [Sessions -> Events \cup {NoEvent}]
         /\ done' \in [Sessions -> SUBSET Bins]
         /\ OthersKeep(s)
         /\ Registers(s)'
<1> DEFINE arrived == done[s] \cup {ev[s].bin}
<1>1. seen[s] \in Sites /\ ev[s].bin \in Bins /\ ValidEvent(ev[s])
  BY DEF TypeInv, ControlInv, Registers
<1>2. req[s].trip \in Trips
  BY DEF TypeInv, TypeOK, RequestType, NoRequest
<1>3. done' \in [Sessions -> SUBSET Bins]
  BY <1>1 DEF TypeInv, TypeOK, NextArrival
<1>4. CASE UNCHANGED ev /\ Goto(s, "commit")
  BY <1>1, <1>3, <1>4
     DEF TypeInv, TypeOK, Goto, Busy, Resting, OthersKeep, Registers, Containing
<1>5. ASSUME NEW b \in plan[s] \ arrived,
             ev' = [ev EXCEPT ![s] = ArriveEvent(req[s].trip, b, seen[s])],
             Goto(s, "prior")
      PROVE  /\ pc' \in [Sessions -> Resting \cup Busy]
             /\ ev' \in [Sessions -> Events \cup {NoEvent}]
             /\ OthersKeep(s)
             /\ Registers(s)'
  <2>1. b \in Bins
    BY DEF TypeInv, TypeOK
  <2>2. /\ ev'[s] \in Events
        /\ ValidEvent(ev'[s])
        /\ ev'[s].bin = b
        /\ ev' \in [Sessions -> Events \cup {NoEvent}]
    BY <1>1, <1>2, <1>5, <2>1, ArriveEventType DEF TypeInv, TypeOK
  <2>3. /\ pc'[s] = "prior"
        /\ pc' \in [Sessions -> Resting \cup Busy]
        /\ OthersKeep(s)
    BY <1>5 DEF TypeInv, TypeOK, Goto, Busy, OthersKeep
  <2>4. Registers(s)'
    BY <1>1, <2>1, <2>2, <2>3 DEF Registers, Resting, Recording, Containing, ValidEvent
  <2> QED
    BY <2>2, <2>3, <2>4
<1> QED
  BY <1>3, <1>4, <1>5 DEF NextArrival

LEMMA InsertEventKeepsTypeInv ==
  ASSUME TypeInv, NEW s \in Sessions, InsertEvent(s)
  PROVE  TypeInv'
<1>1. ev[s] \in Events /\ ValidEvent(ev[s]) /\ req[s].op \in Recording
  BY DEF TypeInv, ControlInv, Registers, InsertEvent
<1>2. trips' \subseteq TripRows /\ tripSeq' \in Nat
  BY <1>1 DEF TypeInv, TypeOK, InsertEvent, TripRows, Events
<1>3. RowsMeetSchema'
  BY <1>1 DEF TypeInv, RowsMeetSchema, InsertEvent, ValidEvent
<1>4. CASE req[s].op = "arrive_all"
  <2>1. /\ NextArrival(s, done[s] \cup {ev[s].bin})
        /\ UNCHANGED <<nest, nestSeq, lock, req, seen, plan, crashes>>
    BY <1>4 DEF InsertEvent
  <2> QED
    BY <1>1, <1>2, <1>3, <1>4, <2>1, NextArrivalRegisters, OthersRegisters
       DEF TypeInv, TypeOK
<1>5. CASE req[s].op # "arrive_all"
  <2>1. /\ Goto(s, "commit")
        /\ UNCHANGED <<ev, done, nest, nestSeq, lock, req, seen, plan, crashes>>
    BY <1>5 DEF InsertEvent
  <2>2. TypeOK' /\ OthersKeep(s) /\ pc'[s] = "commit"
    BY <1>2, <2>1 DEF TypeInv, TypeOK, Goto, Busy, OthersKeep
  <2>3. Registers(s)'
    BY <2>1, <2>2 DEF TypeInv, ControlInv, Registers, Resting
  <2> QED
    BY <1>3, <2>2, <2>3, OthersRegisters DEF TypeInv
<1> QED
  BY <1>4, <1>5

LEMMA ReplayEventKeepsTypeInv ==
  ASSUME TypeInv, NEW s \in Sessions, ReplayEvent(s)
  PROVE  TypeInv'
<1>1. ev[s] \in Events
  BY DEF TypeInv, ControlInv, Registers, ReplayEvent
<1>2. CASE req[s].op = "arrive_all"
  <2>1. /\ NextArrival(s, done[s] \cup {ev[s].bin})
        /\ UNCHANGED <<trips, nest, tripSeq, nestSeq, lock, req, seen, plan, crashes>>
    BY <1>2 DEF ReplayEvent
  <2> QED
    BY <1>1, <1>2, <2>1, NextArrivalRegisters, OthersRegisters
       DEF TypeInv, TypeOK, RowsMeetSchema
<1>3. CASE /\ EndTransaction(s, "existed")
           /\ UNCHANGED <<trips, nest, tripSeq, nestSeq, crashes>>
  BY <1>3, EndOnlyKeepsTypeInv DEF Resting
<1>4. CASE Refuse(s)
  BY <1>4, RefuseKeepsTypeInv
<1> QED
  BY <1>2, <1>3, <1>4 DEF ReplayEvent
LEMMA ReadChecksumKeepsTypeInv ==
  ASSUME TypeInv, NEW s \in Sessions, ReadChecksum(s)
  PROVE  TypeInv'
<1> DEFINE t    == req[s].trip
           left == Unaccounted(Visible(trips, s), t)
<1>1. CASE Refuse(s)
  BY <1>1, RefuseKeepsTypeInv
<1>2. CASE /\ EndTransaction(s, "recorded")
           /\ UNCHANGED <<trips, nest, tripSeq, nestSeq, crashes>>
  BY <1>2, EndOnlyKeepsTypeInv DEF Resting
<1>3. ASSUME ArrivalSite(s) # None,
             NEW b \in left,
             ev' = [ev EXCEPT ![s] = ArriveEvent(t, b, ArrivalSite(s))],
             plan' = [plan EXCEPT ![s] = left],
             seen' = [seen EXCEPT ![s] = ArrivalSite(s)],
             Goto(s, "prior"),
             UNCHANGED <<trips, nest, tripSeq, nestSeq, lock, req, done, crashes>>
      PROVE  TypeInv'
  <2>1. req[s].op = "arrive_all" /\ t \in Trips
    BY DEF TypeInv, ControlInv, Registers, ReadChecksum, TypeOK, RequestType,
           NoRequest
  <2>2. left \in SUBSET Bins
    <3> SUFFICES ASSUME NEW e \in trips, e.kind = "load"
                 PROVE  e.bin \in Bins
      BY DEF Unaccounted, Loaded, OfTrip, Visible
    <3>1. ValidEvent(e) /\ e.bin \in Bins \cup {None}
      BY DEF TypeInv, TypeOK, RowsMeetSchema, TripRows
    <3> QED
      BY <3>1 DEF ValidEvent
  <2>3. ArrivalSite(s) \in Sites
    <3>1. req[s].site \in Sites \cup {None}
      BY <2>1 DEF TypeInv, TypeOK, RequestType, NoRequest
    <3>2. ToSite(Visible(trips, s), t) \in Sites \cup {None}
      <4>1. CASE \E e \in Visible(trips, s) : FirstOpen(Visible(trips, s), t, e)
        <5>1. PICK e \in Visible(trips, s) : ToSite(Visible(trips, s), t) = e.site
          BY <4>1 DEF ToSite
        <5> QED
          BY <5>1 DEF Visible, TypeInv, TypeOK, TripRows
      <4>2. CASE ~ \E e \in Visible(trips, s) : FirstOpen(Visible(trips, s), t, e)
        BY <4>2 DEF ToSite
      <4> QED
        BY <4>1, <4>2
    <3> QED
      BY <1>3, <3>1, <3>2 DEF ArrivalSite
  <2>4. /\ ArriveEvent(t, b, ArrivalSite(s)) \in Events
        /\ ValidEvent(ArriveEvent(t, b, ArrivalSite(s)))
        /\ ArriveEvent(t, b, ArrivalSite(s)).bin \in Bins
    BY <2>1, <2>2, <2>3, ArriveEventType
  <2>5. /\ ev' \in [Sessions -> Events \cup {NoEvent}]
        /\ ev'[s] = ArriveEvent(t, b, ArrivalSite(s))
        /\ seen' \in [Sessions -> Sites \cup {None}]
        /\ seen'[s] = ArrivalSite(s)
    BY <1>3, <2>3, <2>4 DEF TypeInv, TypeOK
  <2>6. /\ plan' \in [Sessions -> SUBSET Bins]
        /\ pc' \in [Sessions -> Resting \cup Busy]
        /\ pc'[s] = "prior"
        /\ OthersKeep(s)
    BY <1>3, <2>2 DEF TypeInv, TypeOK, Goto, Busy, OthersKeep
  <2>7. Registers(s)'
    BY <1>3, <2>1, <2>3, <2>4, <2>5, <2>6
       DEF Registers, Resting, Recording, Containing
  <2>8. TypeOK' /\ RowsMeetSchema'
    BY <1>3, <2>5, <2>6 DEF TypeInv, TypeOK, RowsMeetSchema
  <2> QED
    BY <2>6, <2>7, <2>8, OthersRegisters DEF TypeInv
<1> QED
  BY <1>1, <1>2, <1>3 DEF ReadChecksum

LEMMA ValidateKeepsTypeInv ==
  ASSUME TypeInv, NEW s \in Sessions, Validate(s)
  PROVE  TypeInv'
<1> DEFINE where == WhereIs(Visible(trips, s), Visible(nest, s), req[s].box)
<1>1. CASE Refuse(s)
  BY <1>1, RefuseKeepsTypeInv
<1>2. CASE /\ EndTransaction(s, "existed")
           /\ UNCHANGED <<trips, nest, tripSeq, nestSeq, crashes>>
  BY <1>2, EndOnlyKeepsTypeInv DEF Resting
<1>3. CASE /\ \/ req[s].op = "pack"
              \/ req[s].op = "unpack" /\ MayUnpack(s, where)
           /\ seen' = [seen EXCEPT ![s] = where.site]
           /\ Goto(s, IF req[s].op = "pack" THEN "child" ELSE "append")
           /\ UNCHANGED <<trips, nest, tripSeq, nestSeq, lock, req, ev, plan, done,
                          crashes>>
  <2>1. ev[s] = NoEvent /\ req[s].op \in Containing /\ req[s].bin # req[s].box
    BY DEF TypeInv, ControlInv, Registers, Validate
  <2>2. req[s].box \in Bins
    BY <2>1 DEF TypeInv, TypeOK, RequestType, NoRequest, Containing
  <2>3. /\ where.site \in Sites \cup {None}
        /\ where.status = "at_site" => where.site \in Sites
    <3>1. Visible(trips, s) \in SUBSET TripRows
      BY DEF Visible, TypeInv, TypeOK
    <3>2. \A e \in Visible(trips, s) : ValidEvent(e)
      BY DEF Visible, TypeInv, RowsMeetSchema
    <3> QED
      BY <2>2, <3>1, <3>2, LocationType
  <2>4. req[s].op = "unpack" => where.site \in Sites
    BY <1>3, <2>3 DEF MayUnpack
  <2>5. TypeOK' /\ OthersKeep(s) /\ RowsMeetSchema'
    BY <1>3, <2>3 DEF TypeInv, TypeOK, Goto, Busy, OthersKeep, RowsMeetSchema
  <2>6. /\ pc'[s] = IF req[s].op = "pack" THEN "child" ELSE "append"
        /\ seen'[s] = where.site
    BY <1>3 DEF TypeInv, TypeOK, Goto
  <2>7. Registers(s)'
    BY <1>3, <2>1, <2>4, <2>6, ConstantTypes DEF Registers, Resting, Containing
  <2> QED
    BY <2>5, <2>7, OthersRegisters DEF TypeInv
<1> QED
  BY <1>1, <1>2, <1>3 DEF Validate

LEMMA AppendKeepsTypeInv ==
  ASSUME TypeInv, NEW s \in Sessions, AppendContainment(s)
  PROVE  TypeInv'
<1>1. /\ ev[s] = NoEvent
      /\ req[s].op \in Containing
      /\ req[s].bin # req[s].box
      /\ seen[s] \in Sites
  BY DEF TypeInv, ControlInv, Registers, AppendContainment
<1>2. req[s] \in RequestType /\ req[s].bin \in Bins /\ req[s].box \in Bins
      /\ req[s].key \in Keys
  BY <1>1 DEF TypeInv, TypeOK, RequestType, NoRequest, Containing
<1>3. nest' \subseteq NestRows /\ nestSeq' \in Nat
  BY <1>1, <1>2 DEF TypeInv, TypeOK, AppendContainment, NestRows, Containing
<1>4. RowsMeetSchema'
  BY <1>1, ConstantTypes DEF TypeInv, RowsMeetSchema, AppendContainment
<1>5. CASE req[s].op = "pack" /\ Goto(s, "commit") /\ UNCHANGED ev
  <2>1. TypeOK' /\ OthersKeep(s) /\ pc'[s] = "commit"
    BY <1>3, <1>5 DEF TypeInv, TypeOK, AppendContainment, Goto, Busy, OthersKeep
  <2>2. Registers(s)'
    BY <1>1, <1>5, <2>1, ConstantTypes
       DEF AppendContainment, Registers, Resting, Containing
  <2> QED
    BY <1>4, <2>1, <2>2, OthersRegisters DEF TypeInv
<1>6. CASE /\ req[s].op = "unpack"
           /\ ev' = [ev EXCEPT ![s] = UnpackPlace(req[s], seen[s])]
           /\ Goto(s, "prior")
  <2>1. /\ UnpackPlace(req[s], seen[s]) \in Events
        /\ ValidEvent(UnpackPlace(req[s], seen[s]))
    BY <1>1, <1>2, UnpackPlaceType
  <2>2. ev'[s] \in Events /\ ValidEvent(ev'[s])
    BY <1>6, <2>1 DEF TypeInv, TypeOK
  <2>3. TypeOK' /\ OthersKeep(s) /\ pc'[s] = "prior"
    BY <1>3, <1>6, <2>1
       DEF TypeInv, TypeOK, AppendContainment, Goto, Busy, OthersKeep
  <2>4. Registers(s)'
    BY <1>1, <1>6, <2>2, <2>3
       DEF AppendContainment, Registers, Resting, Recording, Containing
  <2> QED
    BY <1>4, <2>3, <2>4, OthersRegisters DEF TypeInv
<1> QED
  BY <1>5, <1>6 DEF AppendContainment

LEMMA CommitKeepsTypeInv ==
  ASSUME TypeInv, NEW s \in Sessions, Commit(s)
  PROVE  TypeInv'
<1>1. trips' \subseteq TripRows /\ nest' \subseteq NestRows
  BY DEF TypeInv, TypeOK, Commit, Settle, TripRows, NestRows
<1>2. TypeOK' /\ ControlInv'
  BY <1>1, EndKeepsTypes DEF TypeInv, TypeOK, Commit, Resting
<1>3. RowsMeetSchema'
  BY DEF TypeInv, TypeOK, RowsMeetSchema, Commit, Settle, TripRows, NestRows,
         ValidEvent
<1> QED
  BY <1>2, <1>3 DEF TypeInv

-------------------------------------------------------------------------------
LEMMA InitTypeInv == Init => TypeInv
BY ConstantsAssumption, ConstantTypes
   DEF Init, TypeInv, TypeOK, RowsMeetSchema, ControlInv, Registers, Resting,
       NoRequest, Containing

LEMMA NextTypeInv == TypeInv /\ [Next]_vars => TypeInv'
<1> SUFFICES ASSUME TypeInv, [Next]_vars
             PROVE  TypeInv'
  OBVIOUS
<1>1. ASSUME NEW s \in Sessions, NEW r \in Requests, Begin(s, r)
      PROVE  TypeInv'
  BY <1>1, BeginKeepsTypeInv
<1>2. ASSUME NEW s \in Sessions, Step(s)
      PROVE  TypeInv'
  BY <1>2, ReadPriorKeepsTypeInv, AcquireLockKeepsTypeInv,
     CheckTopLevelKeepsTypeInv, InsertEventKeepsTypeInv, ReplayEventKeepsTypeInv,
     VerifyPlacementKeepsTypeInv, ReadChecksumKeepsTypeInv, ValidateKeepsTypeInv,
     ReadChildKeepsTypeInv, AppendKeepsTypeInv, CommitKeepsTypeInv
     DEF Step
<1>3. ASSUME NEW s \in Sessions, Crash(s)
      PROVE  TypeInv'
  BY <1>3, RollbackKeepsTypeInv, ConstantsAssumption
     DEF Crash, Resting, TypeInv, TypeOK
<1>4. CASE UNCHANGED vars
  BY <1>4 DEF vars, TypeInv, TypeOK, RowsMeetSchema, ControlInv, Registers
<1> QED
  BY <1>1, <1>2, <1>3, <1>4 DEF Next, Rest

THEOREM TypeInvariance == Spec => []TypeInv
BY InitTypeInv, NextTypeInv, PTL DEF Spec

(* Every variable keeps its type.                                          *)
THEOREM TypeCorrect == Spec => []TypeOK
BY TypeInvariance, PTL DEF TypeInv

(* No insert of a transaction fails on a constraint of its table: rows     *)
(* are complete although the site was read, or the trip's destination      *)
(* looked up, several statements before.                                   *)
THEOREM SchemaMet == Spec => []RowsMeetSchema
BY TypeInvariance, PTL DEF TypeInv

-------------------------------------------------------------------------------
LEMMA RowTypes ==
  ASSUME TypeInv
  PROVE  /\ \A e \in nest : e \in NestRows
         /\ \A e \in trips : e \in TripRows
         /\ Numbered(nest)
         /\ None \notin Sessions
BY ConstantsAssumption DEF TypeInv, TypeOK, NestRows, Numbered

(* The holder of the lock sees every containment row.                      *)
LEMMA LockSeesAll ==
  ASSUME TypeInv, SessionInv, NEW s \in Sessions, lock = s
  PROVE  Visible(nest, s) = nest
BY RowTypes DEF Visible, SessionInv, PendingNest, NestRows

(* A session without the lock has written no containment row.              *)
LEMMA NoLockNoRow ==
  ASSUME TypeInv, SessionInv, NEW s \in Sessions, lock # s
  PROVE  \A e \in nest : e.by # s
BY DEF SessionInv, PendingNest

(* At these statements a session has written nothing yet.                  *)
LEMMA NothingWritten ==
  ASSUME TypeInv, SessionInv, NEW s \in Sessions,
         \/ pc[s] \in Resting \cup {"verify", "checksum", "validate", "child", "append"}
         \/ req[s].op \in {"event", "place_existing"} /\ pc[s] # "commit"
  PROVE  /\ \A e \in nest : e.by # s
         /\ \A e \in trips : e.by # s
BY DEF SessionInv, PendingNest, PendingTrips, Written, Resting, Containing

-------------------------------------------------------------------------------
(* A step of s that writes no row keeps what holds of the other sessions.  *)
LEMMA QuietStep ==
  ASSUME IInv, NEW s \in Sessions, OthersKeep(s),
         UNCHANGED <<trips, nest, nestSeq>>,
         lock' = lock \/ (lock \in {None, s} /\ lock' \in {None, s}),
         HoldsLock(s)', PendingNest(s)', Validated(s)', Movable(s)',
         PendingTrips(s)'
  PROVE  SessionInv' /\ NestInv'
<1>1. NestInv'
  BY DEF IInv, NestInv
<1>2. ASSUME NEW t \in Sessions \ {s}
      PROVE  /\ HoldsLock(t)' /\ PendingNest(t)' /\ Validated(t)'
             /\ Movable(t)' /\ PendingTrips(t)'
  <2>1. pc'[t] = pc[t] /\ req'[t] = req[t] /\ ev'[t] = ev[t]
    BY DEF OthersKeep
  <2>2. lock = t => lock' = t
    BY RowTypes DEF IInv
  <2>3. HoldsLock(t) /\ PendingNest(t) /\ Validated(t) /\ Movable(t) /\ PendingTrips(t)
    BY DEF IInv, SessionInv
  <2>4. HoldsLock(t)' /\ PendingNest(t)'
    BY <2>1, <2>2, <2>3 DEF HoldsLock, PendingNest, Written
  <2>5. Validated(t)'
    BY <2>1, <2>3 DEF Validated, MayPack
  <2>6. Movable(t)' /\ PendingTrips(t)'
    BY <2>1, <2>2, <2>3 DEF Movable, PendingTrips, Written
  <2> QED
    BY <2>4, <2>5, <2>6
<1> QED
  BY <1>1, <1>2 DEF SessionInv

(* After its transaction a session has no rows and needs no lock.          *)
LEMMA EndedSession ==
  ASSUME TypeInv, NEW s \in Sessions, NEW answer \in Resting,
         EndTransaction(s, answer)
  PROVE  /\ OthersKeep(s)
         /\ pc'[s] = answer
         /\ HoldsLock(s)' /\ Validated(s)' /\ Movable(s)'
         /\ lock' = lock \/ (lock \in {None, s} /\ lock' \in {None, s})
         /\ lock = s => lock' = None
<1>1. OthersKeep(s) /\ pc'[s] = answer
  BY DEF TypeInv, TypeOK, EndTransaction, Goto, OthersKeep
<1>2. HoldsLock(s)' /\ Validated(s)' /\ Movable(s)'
  BY <1>1 DEF HoldsLock, Validated, Movable, Resting
<1> QED
  BY <1>1, <1>2 DEF EndTransaction

LEMMA EndOnlyKeepsIInv ==
  ASSUME IInv, NEW s \in Sessions, NEW answer \in Resting,
         EndTransaction(s, answer),
         UNCHANGED <<trips, nest, tripSeq, nestSeq, crashes>>,
         \A e \in nest : e.by # s, \A e \in trips : e.by # s
  PROVE  SessionInv' /\ NestInv'
<1>1. PendingNest(s)' /\ PendingTrips(s)'
  BY DEF PendingNest, PendingTrips
<1> QED
  BY <1>1, EndedSession, QuietStep DEF IInv

(* Rolling back drops the newest rows, or none.                            *)
LEMMA RollbackKeepsIInv ==
  ASSUME IInv, NEW s \in Sessions, NEW answer \in Resting, Rollback(s, answer)
  PROVE  SessionInv' /\ NestInv'
<1>1. /\ EndTransaction(s, answer)
      /\ trips' = {e \in trips : e.by # s}
      /\ nest' = {e \in nest : e.by # s}
      /\ nestSeq' = nestSeq
  BY DEF Rollback
<1>2. TypeInv /\ SessionInv /\ NestInv
  BY DEF IInv
<1>3. lock # s => nest' = nest
  BY <1>1, <1>2, NoLockNoRow
<1>4. NestInv'
  <2>1. \A e \in nest', f \in nest \ nest' : e.seq < f.seq
    <3> SUFFICES ASSUME NEW e \in nest, e.by # s, NEW f \in nest, f.by = s
                 PROVE  e.seq < f.seq
      BY <1>1
    <3>1. lock = s
      BY <1>2, NoLockNoRow
    <3>2. e.by = None
      BY <1>2, <3>1, LockSeesAll DEF Visible
    <3> QED
      BY <1>2, <3>2, RowTypes DEF NestInv
  <2>2. FoldsCleanly(nest')
    BY <1>1, <1>2, <2>1, PrefixFolds, RowTypes DEF NestInv
  <2> QED
    BY <1>1, <1>2, <2>2 DEF NestInv
<1>5. PendingNest(s)' /\ PendingTrips(s)'
  BY <1>1 DEF PendingNest, PendingTrips
<1>6. ASSUME NEW t \in Sessions \ {s}
      PROVE  /\ HoldsLock(t)' /\ PendingNest(t)' /\ Validated(t)'
             /\ Movable(t)' /\ PendingTrips(t)'
  <2>1. pc'[t] = pc[t] /\ req'[t] = req[t] /\ ev'[t] = ev[t]
    BY <1>1, <1>2, EndedSession DEF OthersKeep
  <2>2. lock = t => lock' = t /\ nest' = nest
    BY <1>1, <1>2, <1>3, EndedSession, RowTypes
  <2>3. HoldsLock(t) /\ PendingNest(t) /\ Validated(t) /\ Movable(t) /\ PendingTrips(t)
    BY <1>2 DEF SessionInv
  <2>4. HoldsLock(t)' /\ PendingNest(t)'
    BY <1>1, <2>1, <2>2, <2>3 DEF HoldsLock, PendingNest, Written
  <2>5. Validated(t)'
    BY <2>1, <2>2, <2>3 DEF Validated, MayPack, HoldsLock
  <2>6. RowsOf(Visible(trips, t), ev[t].key) # {} =>
          RowsOf(Visible(trips', t), ev[t].key) # {}
    BY <1>1, <1>2, RowTypes DEF RowsOf, Visible
  <2>7. Movable(t)'
    BY <2>1, <2>2, <2>3, <2>6 DEF Movable
  <2>8. PendingTrips(t)'
    BY <1>1, <2>1, <2>2, <2>3 DEF PendingTrips, Written
  <2> QED
    BY <2>4, <2>5, <2>7, <2>8
<1> QED
  BY <1>1, <1>2, <1>4, <1>5, <1>6, EndedSession DEF SessionInv

LEMMA RefuseKeepsIInv ==
  ASSUME IInv, NEW s \in Sessions, Refuse(s)
  PROVE  SessionInv' /\ NestInv'
BY RollbackKeepsIInv DEF Refuse, Resting
-------------------------------------------------------------------------------
(* One lemma per action.                                                   *)
LEMMA BeginKeepsIInv ==
  ASSUME IInv, NEW s \in Sessions, NEW r \in Requests, Begin(s, r)
  PROVE  SessionInv' /\ NestInv'
<1>1. TypeInv /\ SessionInv
  BY DEF IInv
<1>2. r \in RequestType
  BY ConstantsAssumption
<1>3. OthersKeep(s)
  BY <1>1 DEF TypeInv, TypeOK, Begin, Goto, OthersKeep
<1>4. UNCHANGED <<trips, nest, nestSeq, lock>>
  BY DEF Begin
<1>5. /\ \A e \in nest : e.by # s
      /\ \A e \in trips : e.by # s
  BY <1>1, NothingWritten DEF Begin
<1>6. PendingNest(s)' /\ PendingTrips(s)'
  BY <1>4, <1>5 DEF PendingNest, PendingTrips
<1>7. /\ pc'[s] \in {"prior", "insert", "refused", "verify", "checksum", "lock"}
      /\ pc'[s] = "insert" => ev'[s].kind \notin MoveKinds
  BY <1>1 DEF TypeInv, TypeOK, Begin, Goto, FirstStep
<1>8. HoldsLock(s)' /\ Validated(s)' /\ Movable(s)'
  BY <1>7 DEF HoldsLock, Validated, Movable
<1> QED
  BY <1>3, <1>4, <1>6, <1>8, QuietStep

LEMMA ReadPriorKeepsIInv ==
  ASSUME IInv, NEW s \in Sessions, ReadPrior(s)
  PROVE  SessionInv' /\ NestInv'
<1>1. /\ UNCHANGED <<trips, nest, nestSeq, lock, req, ev, seen>>
      /\ OthersKeep(s)
      /\ pc'[s] = IF RowsOf(Visible(trips, s), ev[s].key) = {} THEN "lock" ELSE "insert"
  BY DEF IInv, TypeInv, TypeOK, ReadPrior, Goto, OthersKeep, txVars
<1>2. ev[s] \in Events
  BY DEF IInv, TypeInv, ControlInv, Registers, ReadPrior
<1>3. HoldsLock(s)' /\ Validated(s)' /\ Movable(s)'
  BY <1>1 DEF HoldsLock, Validated, Movable
<1>4. PendingNest(s)' /\ PendingTrips(s)'
  BY <1>1, <1>2 DEF IInv, SessionInv, PendingNest, PendingTrips, Written, ReadPrior
<1> QED
  BY <1>1, <1>3, <1>4, QuietStep

LEMMA AcquireLockKeepsIInv ==
  ASSUME IInv, NEW s \in Sessions, AcquireLock(s)
  PROVE  SessionInv' /\ NestInv'
<1>1. /\ UNCHANGED <<trips, nest, nestSeq, req, ev, seen>>
      /\ OthersKeep(s)
      /\ lock \in {None, s} /\ lock' = s
      /\ pc'[s] = IF ev[s] = NoEvent THEN "validate" ELSE "check"
  BY DEF IInv, TypeInv, TypeOK, AcquireLock, LockIsFree, Goto, OthersKeep, txVars
<1>2. ev[s] \in Events \cup {NoEvent}
  BY DEF IInv, TypeInv, TypeOK
<1>3. HoldsLock(s)' /\ Validated(s)' /\ Movable(s)'
  BY <1>1 DEF HoldsLock, Validated, Movable
<1>4. PendingNest(s)' /\ PendingTrips(s)'
  BY <1>1, <1>2, ConstantTypes
     DEF IInv, SessionInv, PendingNest, PendingTrips, Written, AcquireLock
<1> QED
  BY <1>1, <1>3, <1>4, QuietStep

LEMMA CheckTopLevelKeepsIInv ==
  ASSUME IInv, NEW s \in Sessions, CheckTopLevel(s)
  PROVE  SessionInv' /\ NestInv'
<1>1. CASE Refuse(s)
  BY <1>1, RefuseKeepsIInv
<1>2. CASE /\ IsTopLevel(s)
           /\ Goto(s, "insert")
           /\ UNCHANGED <<trips, nest, tripSeq, nestSeq, lock, txVars, crashes>>
  <2>1. /\ UNCHANGED <<trips, nest, nestSeq, lock, req, ev, seen>>
        /\ OthersKeep(s)
        /\ pc'[s] = "insert"
    BY <1>2 DEF IInv, TypeInv, TypeOK, Goto, OthersKeep, txVars
  <2>2. lock = s /\ ev[s] \in Events
    BY DEF IInv, SessionInv, HoldsLock, TypeInv, ControlInv, Registers, CheckTopLevel
  <2>3. ParentOf(nest, ev[s].bin) = None
    BY <1>2, <2>2, LockSeesAll DEF IInv, IsTopLevel
  <2>4. HoldsLock(s)' /\ Validated(s)' /\ Movable(s)'
    BY <2>1, <2>2, <2>3 DEF HoldsLock, Validated, Movable
  <2>5. PendingNest(s)' /\ PendingTrips(s)'
    BY <2>1, <2>2
       DEF IInv, SessionInv, PendingNest, PendingTrips, Written, CheckTopLevel
  <2> QED
    BY <2>1, <2>4, <2>5, QuietStep
<1> QED
  BY <1>1, <1>2 DEF CheckTopLevel

LEMMA VerifyPlacementKeepsIInv ==
  ASSUME IInv, NEW s \in Sessions, VerifyPlacement(s)
  PROVE  SessionInv' /\ NestInv'
<1>1. CASE Refuse(s)
  BY <1>1, RefuseKeepsIInv
<1>2. CASE /\ Goto(s, "prior")
           /\ UNCHANGED <<trips, nest, tripSeq, nestSeq, lock, txVars, crashes>>
  <2>1. /\ UNCHANGED <<trips, nest, nestSeq, lock, req, ev, seen>>
        /\ OthersKeep(s)
        /\ pc'[s] = "prior"
    BY <1>2 DEF IInv, TypeInv, TypeOK, Goto, OthersKeep, txVars
  <2>2. HoldsLock(s)' /\ Validated(s)' /\ Movable(s)'
    BY <2>1 DEF HoldsLock, Validated, Movable
  <2>3. PendingNest(s)' /\ PendingTrips(s)'
    BY <2>1, NothingWritten DEF IInv, PendingNest, PendingTrips, VerifyPlacement
  <2> QED
    BY <2>1, <2>2, <2>3, QuietStep
<1> QED
  BY <1>1, <1>2 DEF VerifyPlacement

LEMMA ReadChecksumKeepsIInv ==
  ASSUME IInv, NEW s \in Sessions, ReadChecksum(s)
  PROVE  SessionInv' /\ NestInv'
<1>1. /\ \A e \in nest : e.by # s
      /\ \A e \in trips : e.by # s
  BY NothingWritten DEF IInv, ReadChecksum
<1>2. CASE Refuse(s)
  BY <1>2, RefuseKeepsIInv
<1>3. CASE /\ EndTransaction(s, "recorded")
           /\ UNCHANGED <<trips, nest, tripSeq, nestSeq, crashes>>
  BY <1>1, <1>3, EndOnlyKeepsIInv DEF Resting
<1>4. ASSUME NEW v, NEW site,
             ev' = [ev EXCEPT ![s] = v],
             seen' = [seen EXCEPT ![s] = site],
             Goto(s, "prior"),
             UNCHANGED <<trips, nest, tripSeq, nestSeq, lock, req, done, crashes>>
      PROVE  SessionInv' /\ NestInv'
  <2>1. OthersKeep(s) /\ pc'[s] = "prior"
    BY <1>4 DEF IInv, TypeInv, TypeOK, Goto, OthersKeep
  <2>2. HoldsLock(s)' /\ Validated(s)' /\ Movable(s)'
    BY <2>1 DEF HoldsLock, Validated, Movable
  <2>3. PendingNest(s)' /\ PendingTrips(s)'
    BY <1>1, <1>4 DEF PendingNest, PendingTrips
  <2> QED
    BY <1>4, <2>1, <2>2, <2>3, QuietStep
<1> QED
  BY <1>2, <1>3, <1>4 DEF ReadChecksum

LEMMA ValidateKeepsIInv ==
  ASSUME IInv, NEW s \in Sessions, Validate(s)
  PROVE  SessionInv' /\ NestInv'
<1> DEFINE where == WhereIs(Visible(trips, s), Visible(nest, s), req[s].box)
<1>1. /\ \A e \in nest : e.by # s
      /\ \A e \in trips : e.by # s
  BY NothingWritten DEF IInv, Validate
<1>2. CASE Refuse(s)
  BY <1>2, RefuseKeepsIInv
<1>3. CASE /\ EndTransaction(s, "existed")
           /\ UNCHANGED <<trips, nest, tripSeq, nestSeq, crashes>>
  BY <1>1, <1>3, EndOnlyKeepsIInv DEF Resting
<1>4. CASE /\ RowsOf(Visible(nest, s), req[s].key) = {}
           /\ \/ req[s].op = "pack" /\ MayPack(s)
              \/ req[s].op = "unpack" /\ MayUnpack(s, where)
           /\ seen' = [seen EXCEPT ![s] = where.site]
           /\ Goto(s, IF req[s].op = "pack" THEN "child" ELSE "append")
           /\ UNCHANGED <<trips, nest, tripSeq, nestSeq, lock, req, ev, plan, done,
                          crashes>>
  <2>1. /\ OthersKeep(s)
        /\ pc'[s] = IF req[s].op = "pack" THEN "child" ELSE "append"
    BY <1>4 DEF IInv, TypeInv, TypeOK, Goto, OthersKeep
  <2>2. lock = s
    BY DEF IInv, SessionInv, HoldsLock, Validate
  <2>3. HoldsLock(s)' /\ Movable(s)'
    BY <1>4, <2>1, <2>2 DEF HoldsLock, Movable
  <2>4. RowsOf(nest, req[s].key) = {}
    BY <1>4, <2>2, LockSeesAll DEF IInv
  <2>5. Validated(s)'
    BY <1>4, <2>1, <2>4 DEF Validated, MayPack, MayUnpack
  <2>6. PendingNest(s)' /\ PendingTrips(s)'
    BY <1>1, <1>4 DEF PendingNest, PendingTrips
  <2> QED
    BY <1>4, <2>1, <2>3, <2>5, <2>6, QuietStep
<1> QED
  BY <1>2, <1>3, <1>4 DEF Validate

LEMMA ReadChildKeepsIInv ==
  ASSUME IInv, NEW s \in Sessions, ReadChild(s)
  PROVE  SessionInv' /\ NestInv'
<1>1. CASE Refuse(s)
  BY <1>1, RefuseKeepsIInv
<1>2. CASE /\ Goto(s, "append")
           /\ UNCHANGED <<trips, nest, tripSeq, nestSeq, lock, txVars, crashes>>
  <2>1. /\ UNCHANGED <<trips, nest, nestSeq, lock, req, ev, seen>>
        /\ OthersKeep(s)
        /\ pc'[s] = "append"
    BY <1>2 DEF IInv, TypeInv, TypeOK, Goto, OthersKeep, txVars
  <2>2. HoldsLock(s) /\ Validated(s) /\ pc[s] = "child"
    BY DEF IInv, SessionInv, ReadChild
  <2>3. HoldsLock(s)' /\ Movable(s)' /\ Validated(s)'
    BY <2>1, <2>2 DEF HoldsLock, Movable, Validated, MayPack
  <2>4. PendingNest(s)' /\ PendingTrips(s)'
    BY <2>1, NothingWritten DEF IInv, PendingNest, PendingTrips, ReadChild
  <2> QED
    BY <2>1, <2>3, <2>4, QuietStep
<1> QED
  BY <1>1, <1>2 DEF ReadChild
LEMMA NextArrivalWritten ==
  ASSUME TypeInv, TypeInv', NEW s \in Sessions, req[s].op = "arrive_all",
         ev[s] \in Events, NEW arrived, NextArrival(s, arrived)
  PROVE  /\ pc'[s] \in {"prior", "commit"}
         /\ pc'[s] = "prior" => ev'[s] \in Events
         /\ \A t \in Sessions \ {s} : pc'[t] = pc[t] /\ ev'[t] = ev[t]
<1>1. pc'[s] \in {"prior", "commit"}
  BY DEF TypeInv, TypeOK, NextArrival, Goto
<1>2. pc'[s] = "prior" => ev'[s] \in Events
  BY DEF TypeInv, ControlInv, Registers
<1>3. \A t \in Sessions \ {s} : pc'[t] = pc[t] /\ ev'[t] = ev[t]
  BY DEF TypeInv, TypeOK, NextArrival, Goto
<1> QED
  BY <1>1, <1>2, <1>3

LEMMA InsertEventKeepsIInv ==
  ASSUME IInv, TypeInv', NEW s \in Sessions, InsertEvent(s)
  PROVE  SessionInv' /\ NestInv'
<1> DEFINE row == [seq |-> tripSeq, by |-> s, kind |-> ev[s].kind, bin |-> ev[s].bin,
                   site |-> ev[s].site, trip |-> ev[s].trip, key |-> ev[s].key]
<1>1. /\ TypeInv /\ SessionInv /\ NestInv
      /\ pc[s] = "insert"
      /\ RowsOf(trips, ev[s].key) = {}
      /\ trips' = trips \cup {row}
      /\ UNCHANGED <<nest, nestSeq, lock, req, seen>>
  BY DEF IInv, InsertEvent
<1>2. ev[s] \in Events
  BY <1>1 DEF TypeInv, ControlInv, Registers
<1>3. /\ pc'[s] \in {"prior", "commit"}
      /\ pc'[s] = "prior" => ev'[s] \in Events /\ req[s].op = "arrive_all"
      /\ OthersKeep(s)
  <2>1. CASE req[s].op = "arrive_all" /\ NextArrival(s, done[s] \cup {ev[s].bin})
    BY <1>1, <1>2, <2>1, NextArrivalWritten DEF OthersKeep
  <2>2. CASE Goto(s, "commit") /\ UNCHANGED <<ev, done>>
    BY <1>1, <2>2 DEF TypeInv, TypeOK, Goto, OthersKeep
  <2> QED
    BY <2>1, <2>2 DEF InsertEvent
<1>4. Written(s)' /\ (pc'[s] = "commit" \/ req'[s].op = "arrive_all")
  BY <1>1, <1>3 DEF Written
<1>5. NestInv'
  BY <1>1 DEF NestInv
<1>6. HoldsLock(s)' /\ Validated(s)' /\ Movable(s)'
  BY <1>3 DEF HoldsLock, Validated, Movable
<1>7. PendingNest(s)'
  BY <1>1, <1>4 DEF SessionInv, PendingNest
<1>8. PendingTrips(s)'
  <2>1. row.kind \in MoveKinds => lock = s /\ ParentOf(nest, row.bin) = None
    BY <1>1 DEF SessionInv, Movable, RowsOf, Visible
  <2> QED
    BY <1>1, <1>4, <2>1 DEF SessionInv, PendingTrips
<1>9. ASSUME NEW t \in Sessions \ {s}
      PROVE  /\ HoldsLock(t)' /\ PendingNest(t)' /\ Validated(t)'
             /\ Movable(t)' /\ PendingTrips(t)'
  <2>1. pc'[t] = pc[t] /\ req'[t] = req[t] /\ ev'[t] = ev[t]
    BY <1>3 DEF OthersKeep
  <2>2. HoldsLock(t) /\ PendingNest(t) /\ Validated(t) /\ Movable(t) /\ PendingTrips(t)
    BY <1>1 DEF SessionInv
  <2>3. HoldsLock(t)' /\ PendingNest(t)'
    BY <1>1, <2>1, <2>2 DEF HoldsLock, PendingNest, Written
  <2>4. Validated(t)'
    BY <1>1, <2>1, <2>2 DEF Validated, MayPack
  <2>5. Movable(t)'
    BY <1>1, <2>1, <2>2 DEF Movable, RowsOf, Visible
  <2>6. PendingTrips(t)'
    BY <1>1, <2>1, <2>2 DEF PendingTrips, Written
  <2> QED
    BY <2>3, <2>4, <2>5, <2>6
<1> QED
  BY <1>5, <1>6, <1>7, <1>8, <1>9 DEF SessionInv

LEMMA ReplayEventKeepsIInv ==
  ASSUME IInv, TypeInv', NEW s \in Sessions, ReplayEvent(s)
  PROVE  SessionInv' /\ NestInv'
<1>1. ev[s] \in Events /\ pc[s] = "insert"
  BY DEF IInv, TypeInv, ControlInv, Registers, ReplayEvent
<1>2. CASE req[s].op = "arrive_all"
  <2>1. /\ NextArrival(s, done[s] \cup {ev[s].bin})
        /\ UNCHANGED <<trips, nest, nestSeq, lock, req, seen>>
    BY <1>2 DEF ReplayEvent
  <2>2. /\ pc'[s] \in {"prior", "commit"}
        /\ pc'[s] = "prior" => ev'[s] \in Events
        /\ OthersKeep(s)
    BY <1>1, <1>2, <2>1, NextArrivalWritten DEF IInv, OthersKeep
  <2>3. HoldsLock(s)' /\ Validated(s)' /\ Movable(s)'
    BY <2>2 DEF HoldsLock, Validated, Movable
  <2>4. PendingNest(s)' /\ PendingTrips(s)'
    BY <1>2, <2>1, <2>2 DEF IInv, SessionInv, PendingNest, PendingTrips, Written
  <2> QED
    BY <2>1, <2>2, <2>3, <2>4, QuietStep
<1>3. CASE req[s].op \in {"event", "place_existing"}
  <2>1. /\ \A e \in nest : e.by # s
        /\ \A e \in trips : e.by # s
    BY <1>1, <1>3, NothingWritten DEF IInv
  <2>2. CASE /\ EndTransaction(s, "existed")
             /\ UNCHANGED <<trips, nest, tripSeq, nestSeq, crashes>>
    BY <2>1, <2>2, EndOnlyKeepsIInv DEF Resting
  <2>3. CASE Refuse(s)
    BY <2>3, RefuseKeepsIInv
  <2> QED
    BY <1>3, <2>2, <2>3 DEF ReplayEvent
<1> QED
  BY <1>2, <1>3 DEF ReplayEvent

LEMMA AppendKeepsIInv ==
  ASSUME IInv, TypeInv', NEW s \in Sessions, AppendContainment(s)
  PROVE  SessionInv' /\ NestInv'
<1> DEFINE row == [seq |-> nestSeq, by |-> s, kind |-> req[s].op, bin |-> req[s].bin,
                   box |-> req[s].box, site |-> seen[s], key |-> req[s].key]
<1>1. /\ TypeInv /\ SessionInv /\ NestInv
      /\ pc[s] = "append"
      /\ nest' = nest \cup {row}
      /\ nestSeq' = nestSeq + 1
      /\ UNCHANGED <<trips, lock, req, seen>>
  BY DEF IInv, AppendContainment
<1>2. lock = s /\ Validated(s)
  BY <1>1 DEF SessionInv, HoldsLock
<1>3. /\ \A e \in nest : e.by = None
      /\ \A e \in trips : e.by # s
  <2>1. /\ \A e \in nest : e.by # s
        /\ \A e \in trips : e.by # s
    BY <1>1, NothingWritten
  <2>2. Visible(nest, s) = nest
    BY <1>1, <1>2, LockSeesAll
  <2> QED
    BY <2>1, <2>2 DEF Visible
<1>4. /\ req[s].op \in Containing
      /\ req[s].bin \in Bins /\ req[s].box \in Bins
      /\ req[s].bin # req[s].box
  BY <1>1 DEF TypeInv, TypeOK, RequestType, NoRequest, Containing, ControlInv, Registers
<1>5. NestInv'
  <2>1. Numbered(nest) /\ FoldsCleanly(nest) /\ nestSeq \in Nat
        /\ \A e \in nest : e.seq < nestSeq
    BY <1>1, RowTypes DEF NestInv, TypeInv, TypeOK
  <2>2. Newer(row, nest)
    BY <2>1 DEF Newer
  <2>3. Visible(nest, s) = nest
    BY <1>1, <1>2, LockSeesAll
  <2>4. CASE req[s].op = "pack"
    <3>1. ParentOf(nest, row.bin) = None /\ row.bin \notin PathFor(nest, row.box)
      BY <1>1, <1>2, <2>3, <2>4 DEF Validated, MayPack
    <3> QED
      BY <1>4, <2>1, <2>2, <2>4, <3>1, PackFolds, <1>1, <1>3, RowTypes
         DEF NestInv, Numbered
  <2>5. CASE req[s].op = "unpack"
    <3>1. ParentOf(nest, row.bin) = row.box
      BY <1>1, <1>2, <2>3, <2>5 DEF Validated
    <3> QED
      BY <1>4, <2>1, <2>2, <2>5, <3>1, UnpackFolds, <1>1, <1>3, RowTypes
         DEF NestInv, Numbered
  <2> QED
    BY <1>4, <2>4, <2>5 DEF Containing
<1>6. /\ pc'[s] \in {"prior", "commit"}
      /\ pc'[s] = "prior" => ev'[s] \in Events
      /\ OthersKeep(s)
  <2>1. pc'[s] \in {"prior", "commit"} /\ OthersKeep(s)
    BY <1>1 DEF TypeInv, TypeOK, AppendContainment, Goto, OthersKeep
  <2> QED
    BY <2>1 DEF TypeInv, ControlInv, Registers
<1>7. HoldsLock(s)' /\ Validated(s)' /\ Movable(s)'
  BY <1>6 DEF HoldsLock, Validated, Movable
<1>8. PendingNest(s)' /\ PendingTrips(s)'
  BY <1>1, <1>2, <1>3, <1>4, <1>6 DEF PendingNest, PendingTrips, Written
<1>9. ASSUME NEW t \in Sessions \ {s}
      PROVE  /\ HoldsLock(t)' /\ PendingNest(t)' /\ Validated(t)'
             /\ Movable(t)' /\ PendingTrips(t)'
  <2>1. pc'[t] = pc[t] /\ req'[t] = req[t] /\ ev'[t] = ev[t]
    BY <1>6 DEF OthersKeep
  <2>2. HoldsLock(t) /\ PendingNest(t) /\ Validated(t) /\ Movable(t) /\ PendingTrips(t)
    BY <1>1 DEF SessionInv
  <2>3. HoldsLock(t)' /\ Validated(t)'
    BY <1>1, <1>2, <2>1, <2>2 DEF HoldsLock, Validated
  <2>4. PendingNest(t)'
    BY <1>1, <1>3, RowTypes DEF PendingNest
  <2>5. Movable(t)' /\ PendingTrips(t)'
    BY <1>1, <1>2, <2>1, <2>2 DEF Movable, PendingTrips, Written
  <2> QED
    BY <2>3, <2>4, <2>5
<1> QED
  BY <1>5, <1>7, <1>8, <1>9 DEF SessionInv

(* Settling a table only rewrites who wrote its rows.                      *)
LEMMA SettledNest ==
  ASSUME TypeInv, SessionInv, NEW s \in Sessions
  PROVE  /\ SameRows(nest, Settle(nest, s))
         /\ lock # s => Settle(nest, s) = nest
         /\ lock = s => \A e \in Settle(nest, s) : e.by = None
<1>1. SameRows(nest, Settle(nest, s))
  <2>1. \A e \in nest : Alike(e, [e EXCEPT !.by = IF @ = s THEN None ELSE @])
    BY RowTypes DEF Alike, NestRows
  <2> QED
    BY <2>1 DEF SameRows, Settle
<1>2. ASSUME lock # s
      PROVE  Settle(nest, s) = nest
  <2>1. \A e \in nest : [e EXCEPT !.by = IF @ = s THEN None ELSE @] = e
    BY <1>2, NoLockNoRow, RowTypes DEF NestRows
  <2> QED
    BY <2>1 DEF Settle
<1>3. ASSUME lock = s
      PROVE  \A e \in Settle(nest, s) : e.by = None
  <2>1. \A e \in nest : e.by \in {None, s}
    BY <1>3, LockSeesAll DEF Visible
  <2> QED
    BY <2>1, RowTypes DEF Settle, NestRows
<1> QED
  BY <1>1, <1>2, <1>3

(* Other sessions' rows stay as they are.                                  *)
LEMMA SettledTrips ==
  ASSUME TypeInv, NEW s \in Sessions
  PROVE  /\ \A e \in trips : e.by # s => e \in Settle(trips, s)
         /\ \A e \in Settle(trips, s) : e.by # None => e \in trips
         /\ \A e \in Settle(trips, s) : e.by # s
         /\ \A e \in Settle(trips, s) :
              e \notin trips => \E f \in trips : f.by = s /\ f.kind = e.kind
                                                 /\ f.bin = e.bin
<1>1. \A e \in trips : e.by # s =>
        [e EXCEPT !.by = IF @ = s THEN None ELSE @] = e
  BY RowTypes DEF TripRows
<1>2. \A e \in trips : e.by = s =>
        /\ [e EXCEPT !.by = IF @ = s THEN None ELSE @].by = None
        /\ [e EXCEPT !.by = IF @ = s THEN None ELSE @].kind = e.kind
        /\ [e EXCEPT !.by = IF @ = s THEN None ELSE @].bin = e.bin
  BY RowTypes DEF TripRows
<1> QED
  BY <1>1, <1>2, RowTypes DEF Settle

LEMMA CommitKeepsIInv ==
  ASSUME IInv, NEW s \in Sessions, Commit(s)
  PROVE  SessionInv' /\ NestInv'
<1>1. /\ TypeInv /\ SessionInv /\ NestInv
      /\ EndTransaction(s, "recorded")
      /\ trips' = Settle(trips, s)
      /\ nest' = Settle(nest, s)
      /\ nestSeq' = nestSeq
  BY DEF IInv, Commit
<1>2. NestInv'
  <2>1. FoldsCleanly(nest')
    BY <1>1, SameFolds, SettledNest DEF NestInv
  <2>2. \A e \in nest' : e.seq < nestSeq
    BY <1>1, SettledNest DEF NestInv, SameRows, Alike
  <2> QED
    BY <1>1, <2>1, <2>2, SettledNest DEF NestInv
<1>3. PendingNest(s)' /\ PendingTrips(s)'
  BY <1>1, SettledTrips, SettledNest, NoLockNoRow, RowTypes
     DEF PendingNest, PendingTrips
<1>4. /\ OthersKeep(s)
      /\ HoldsLock(s)' /\ Validated(s)' /\ Movable(s)'
  BY <1>1, EndedSession DEF Resting
<1>5. ASSUME NEW t \in Sessions \ {s}
      PROVE  /\ HoldsLock(t)' /\ PendingNest(t)' /\ Validated(t)'
             /\ Movable(t)' /\ PendingTrips(t)'
  <2>1. pc'[t] = pc[t] /\ req'[t] = req[t] /\ ev'[t] = ev[t]
    BY <1>4 DEF OthersKeep
  <2>2. lock = t => lock' = t /\ nest' = nest
    BY <1>1, SettledNest, RowTypes DEF EndTransaction
  <2>3. HoldsLock(t) /\ PendingNest(t) /\ Validated(t) /\ Movable(t) /\ PendingTrips(t)
    BY <1>1 DEF SessionInv
  <2>4. HoldsLock(t)'
    BY <2>1, <2>2, <2>3 DEF HoldsLock
  <2>5. PendingNest(t)'
    <3>1. (\E e \in nest' : e.by = t) => \E e \in nest : e.by = t
      BY <1>1, SettledNest, RowTypes
    <3> QED
      BY <2>1, <2>2, <2>3, <3>1 DEF PendingNest, Written
  <2>6. Validated(t)'
    BY <2>1, <2>2, <2>3 DEF Validated, MayPack, HoldsLock
  <2>7. RowsOf(Visible(trips, t), ev[t].key) # {} =>
          RowsOf(Visible(trips', t), ev[t].key) # {}
    BY <1>1, SettledTrips, RowTypes DEF RowsOf, Visible
  <2>8. Movable(t)'
    BY <2>1, <2>2, <2>3, <2>7 DEF Movable
  <2>9. PendingTrips(t)'
    BY <1>1, <2>1, <2>2, <2>3, SettledTrips, RowTypes DEF PendingTrips, Written
  <2> QED
    BY <2>4, <2>5, <2>6, <2>8, <2>9
<1> QED
  BY <1>2, <1>3, <1>4, <1>5 DEF SessionInv

-------------------------------------------------------------------------------
LEMMA InitIInv == Init => IInv
<1> SUFFICES ASSUME Init
             PROVE  IInv
  OBVIOUS
<1>1. SessionInv
  BY DEF Init, SessionInv, HoldsLock, PendingNest, Validated, Movable, PendingTrips
<1>2. NestInv
  BY DEF Init, NestInv, FoldsCleanly
<1> QED
  BY <1>1, <1>2, InitTypeInv DEF IInv

LEMMA NextIInv == IInv /\ [Next]_vars => IInv'
<1> SUFFICES ASSUME IInv, [Next]_vars
             PROVE  IInv'
  OBVIOUS
<1>1. TypeInv'
  BY NextTypeInv DEF IInv
<1>2. ASSUME NEW s \in Sessions, NEW r \in Requests, Begin(s, r)
      PROVE  SessionInv' /\ NestInv'
  BY <1>2, BeginKeepsIInv
<1>3. ASSUME NEW s \in Sessions, Step(s)
      PROVE  SessionInv' /\ NestInv'
  BY <1>1, <1>3, ReadPriorKeepsIInv, AcquireLockKeepsIInv, CheckTopLevelKeepsIInv,
     InsertEventKeepsIInv, ReplayEventKeepsIInv, VerifyPlacementKeepsIInv,
     ReadChecksumKeepsIInv, ValidateKeepsIInv, ReadChildKeepsIInv, AppendKeepsIInv,
     CommitKeepsIInv
     DEF Step
<1>4. ASSUME NEW s \in Sessions, Crash(s)
      PROVE  SessionInv' /\ NestInv'
  BY <1>4, RollbackKeepsIInv DEF Crash, Resting
<1>5. ASSUME UNCHANGED vars
      PROVE  SessionInv' /\ NestInv'
  BY <1>5 DEF vars, IInv, SessionInv, HoldsLock, PendingNest, Validated, Movable,
              PendingTrips, Written, NestInv, MayPack
<1>6. SessionInv' /\ NestInv'
  BY <1>2, <1>3, <1>4, <1>5 DEF Next, Rest
<1> QED
  BY <1>1, <1>6 DEF IInv

(* The inductive invariant holds.                                          *)
THEOREM Invariance == Spec => []IInv
BY InitIInv, NextIInv, PTL DEF Spec
(* The fold of the containment ledger never raises, in any transaction:    *)
(* one row it raises on would make every later read of the scope fail.     *)
THEOREM FoldSafe == Spec => []FoldNeverRaises
<1>1. IInv => FoldNeverRaises
  <2> SUFFICES ASSUME IInv, NEW s \in Sessions
               PROVE  FoldsCleanly(Visible(nest, s))
    BY DEF FoldNeverRaises
  <2>1. TypeInv /\ SessionInv /\ NestInv
    BY DEF IInv
  <2>2. Visible(nest, s) \in SUBSET nest
    BY DEF Visible
  <2>3. \A e \in Visible(nest, s), f \in nest \ Visible(nest, s) : e.seq < f.seq
    <3>1. CASE lock = s
      BY <2>1, <3>1, LockSeesAll
    <3>2. CASE lock # s
      BY <2>1, <3>2, NoLockNoRow DEF Visible, NestInv
    <3> QED
      BY <3>1, <3>2
  <2> QED
    BY <2>1, <2>2, <2>3, PrefixFolds, RowTypes DEF NestInv
<1> QED
  BY <1>1, Invariance, PTL

(* The insert of a containment row never meets the unique index on keys.   *)
THEOREM AppendSafe == Spec => []AppendKeyIsFresh
<1>1. IInv => AppendKeyIsFresh
  BY DEF IInv, SessionInv, Validated, AppendKeyIsFresh
<1> QED
  BY <1>1, Invariance, PTL

(* Rows only become visible by a commit.                                   *)
LEMMA NewRowsAtCommit ==
  ASSUME IInv, Next, NEW e \in NewRows(trips, trips')
  PROVE  \E s \in Sessions : /\ Commit(s)
                             /\ \E f \in trips : f.by = s /\ f.kind = e.kind
                                                 /\ f.bin = e.bin
<1>1. e \in trips' /\ e.by = None /\ e \notin trips
  BY DEF NewRows, Committed
<1>2. trips' # trips
  BY <1>1
<1>3. TypeInv
  BY DEF IInv
<1>4. ASSUME NEW s \in Sessions, NEW r \in Requests
      PROVE  ~Begin(s, r)
  BY <1>2 DEF Begin
<1>5. ASSUME NEW s \in Sessions, NEW answer
      PROVE  ~Rollback(s, answer)
  BY <1>1 DEF Rollback
<1>6. ASSUME NEW s \in Sessions
      PROVE  ~InsertEvent(s)
  BY <1>1, RowTypes, <1>3 DEF InsertEvent
<1>7. PICK s \in Sessions : Step(s) \/ Crash(s)
  BY <1>2, <1>4 DEF Next, Rest, vars
<1>8. ~Crash(s) /\ ~Refuse(s)
  BY <1>5 DEF Crash, Refuse
<1>9. Commit(s)
  BY <1>2, <1>6, <1>7, <1>8
     DEF Step, ReadPrior, AcquireLock, CheckTopLevel, ReplayEvent, VerifyPlacement,
         ReadChecksum, Validate, ReadChild, AppendContainment
<1> QED
  BY <1>1, <1>3, <1>9, SettledTrips DEF Commit

(* A bin inside a container is never placed, loaded or arrived: no move of *)
(* it becomes visible, whatever pack or unpack runs at the same time.      *)
THEOREM NeverMoved == Spec => ContainedNeverMoved
<1> DEFINE Moves == \A e \in NewRows(trips, trips') :
                      e.kind \in MoveKinds => ParentOf(Committed(nest'), e.bin) = None
<1>1. IInv /\ [Next]_vars => [Moves]_vars
  <2> SUFFICES ASSUME IInv, Next, NEW e \in NewRows(trips, trips'),
                      e.kind \in MoveKinds
               PROVE  ParentOf(Committed(nest'), e.bin) = None
    OBVIOUS
  <2>1. TypeInv /\ SessionInv
    BY DEF IInv
  <2>2. PICK s \in Sessions : /\ Commit(s)
                              /\ \E f \in trips : f.by = s /\ f.kind = e.kind
                                                  /\ f.bin = e.bin
    BY NewRowsAtCommit
  <2>3. lock = s /\ ParentOf(nest, e.bin) = None
    BY <2>1, <2>2 DEF SessionInv, PendingTrips
  <2>4. nest' = Settle(nest, s)
    BY <2>2 DEF Commit
  <2>5. Committed(nest') = nest'
    BY <2>1, <2>3, <2>4, SettledNest DEF Committed
  <2> QED
    BY <2>1, <2>3, <2>4, <2>5, SettledNest, SameGraph
<1> QED
  BY <1>1, Invariance, PTL DEF Spec, ContainedNeverMoved
===============================================================================
