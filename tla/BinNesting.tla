------------------------------ MODULE BinNesting ------------------------------
(***************************************************************************)
(* Physical containment of one bin inside another (bin_nesting.py), as a   *)
(* projection of the append-only ledger bin_containment_events.            *)
(*                                                                         *)
(* A ledger is a set of rows [seq, kind, bin, box, ...]: seq is the        *)
(* table's identity column, kind is "pack" or "unpack", bin the child and  *)
(* box the container.  The program rebuilds the whole graph from every row *)
(* each time it needs it, and the fold RAISES on a row that does not fit   *)
(* the rows before it, so one bad row makes every later read fail.         *)
(***************************************************************************)
EXTENDS Integers

CONSTANTS Bins,     \* the bin codes
          None      \* Python's None: no bin, no site, no trip, no key

ASSUME NoneIsNoBin == None \notin Bins

(* Row e is the newest row about its bin, so it decides where the bin is.  *)
Newest(ledger, e) == \A f \in ledger : f.bin = e.bin => f.seq <= e.seq

(* b is directly inside c: its newest row is a pack into c.                *)
Inside(ledger, b, c) ==
  \E e \in ledger : /\ e.kind = "pack"
                    /\ e.bin = b
                    /\ e.box = c
                    /\ Newest(ledger, e)

(* BinContainmentGraph.parent_of                                           *)
ParentOf(ledger, b) ==
  IF \E c \in Bins : Inside(ledger, b, c)
    THEN CHOOSE c \in Bins : Inside(ledger, b, c)
    ELSE None

(* S holds every direct container of b and of its own members.             *)
ClosedAbove(ledger, b, S) ==
  \A x \in S \cup {b}, c \in Bins : Inside(ledger, x, c) => c \in S

(* Slip: path_for stops at the direct container.                           *)
PathForDirectOnly(ledger, b) == {c \in Bins : Inside(ledger, b, c)}

(* The bins on BinContainmentGraph.path_for(b): the containers reached by  *)
(* walking up from b, which is the smallest set closed under containment.  *)
PathFor(ledger, b) ==
  {c \in Bins : \A S \in SUBSET Bins : ClosedAbove(ledger, b, S) => c \in S}

(* path_for meets a bin again, and raises, exactly when b is above itself. *)
OnCycle(ledger, b) == b \in PathFor(ledger, b)

(* The last element of path_for(b), or b: whose events locate b.           *)
LocationSource(ledger, b) ==
  IF \E c \in PathFor(ledger, b) : ParentOf(ledger, c) = None
    THEN CHOOSE c \in PathFor(ledger, b) : ParentOf(ledger, c) = None
    ELSE b

Before(ledger, e) == {f \in ledger : f.seq < e.seq}
UpTo(ledger, e)   == {f \in ledger : f.seq <= e.seq}

(* Row e fits the rows before it: the branches of fold_bin_containment     *)
(* that do not raise.                                                      *)
Fits(ledger, e) ==
  \/ /\ e.kind = "pack"
     /\ ParentOf(Before(ledger, e), e.bin) = None
     /\ ~OnCycle(UpTo(ledger, e), e.bin)
  \/ /\ e.kind = "unpack"
     /\ ParentOf(Before(ledger, e), e.bin) = e.box

(* fold_bin_containment(ledger) returns a graph.                           *)
FoldsCleanly(ledger) == \A e \in ledger : Fits(ledger, e)
===============================================================================
