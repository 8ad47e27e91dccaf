------------------------------ MODULE NestingFold ------------------------------
(***************************************************************************)
(* fold_bin_containment and BinContainmentGraph.path_for, statement by     *)
(* statement, as the reference for the set-based definitions of            *)
(* BinNesting.  The loop of the fold reads one arbitrary row after the     *)
(* other, also rows the program would never write, and before each one a   *)
(* caller may ask the graph of the rows so far for the path of any bin.    *)
(***************************************************************************)
EXTENDS BinNesting

CONSTANTS MaxRows   \* bound: rows of the ledger

VARIABLES folded,   \* the rows the loop has read
          count,    \* how many: the seq of the last one
          parents,  \* per bin the container the loop has it in, or None
          walk,     \* path_for: the bin asked about, where it is, whom it saw
          stage     \* what comes next

foldVars == <<folded, count, parents, walk, stage>>

NoWalk == [from |-> None, current |-> None, seen |-> {}]
WalkFrom(b) == [from |-> b, current |-> b, seen |-> {b}]

FoldInit ==
  /\ folded = {} /\ count = 0
  /\ parents = [b \in Bins |-> None]
  /\ walk = NoWalk /\ stage = "row"

-------------------------------------------------------------------------------
ReadRow(e) ==
  /\ stage = "row" /\ count < MaxRows
  /\ count' = count + 1
  /\ folded' = folded \cup {e}

Row(kind, b, c) == [seq |-> count + 1, kind |-> kind, bin |-> b, box |-> c]

(* Slip: the fold does not walk up from a bin it has packed.               *)
ReadPackUnwalked(b, c) ==
  /\ ReadRow(Row("pack", b, c))
  /\ \/ /\ parents[b] # None
        /\ stage' = "raised" /\ UNCHANGED <<parents, walk>>
     \/ /\ parents[b] = None
        /\ parents' = [parents EXCEPT ![b] = c]
        /\ UNCHANGED <<walk, stage>>

(* A pack of a packed bin raises; then path_for looks for a cycle.         *)
ReadPack(b, c) ==
  /\ ReadRow(Row("pack", b, c))
  /\ \/ /\ parents[b] # None
        /\ stage' = "raised" /\ UNCHANGED <<parents, walk>>
     \/ /\ parents[b] = None
        /\ parents' = [parents EXCEPT ![b] = c]
        /\ walk' = WalkFrom(b) /\ stage' = "check"

(* An unpack from another container, or from none, raises.                 *)
ReadUnpack(b, c) ==
  /\ ReadRow(Row("unpack", b, c))
  /\ UNCHANGED walk
  /\ \/ /\ parents[b] # c
        /\ stage' = "raised" /\ UNCHANGED parents
     \/ /\ parents[b] = c
        /\ parents' = [parents EXCEPT ![b] = None] /\ UNCHANGED stage

-------------------------------------------------------------------------------
AskPath(b) ==
  /\ stage = "row"
  /\ walk' = WalkFrom(b) /\ stage' = "ask"
  /\ UNCHANGED <<folded, count, parents>>

(* One turn of the loop of path_for.                                       *)
Climb ==
  /\ stage \in {"check", "ask"}
  /\ parents[walk.current] # None /\ parents[walk.current] \notin walk.seen
  /\ walk' = [walk EXCEPT !.current = parents[walk.current],
                          !.seen = @ \cup {parents[walk.current]}]
  /\ UNCHANGED <<folded, count, parents, stage>>

(* "bin containment would create a cycle": the fold raises, or path_for    *)
(* does to its caller.                                                     *)
MeetAgain ==
  /\ stage \in {"check", "ask"}
  /\ parents[walk.current] \in walk.seen
  /\ stage' = IF stage = "check" THEN "raised" ELSE "cyclic"
  /\ UNCHANGED <<folded, count, parents, walk>>

Arrive ==
  /\ stage \in {"check", "ask"} /\ parents[walk.current] = None
  /\ \/ stage = "check" /\ stage' = "row" /\ walk' = NoWalk
     \/ stage = "ask" /\ stage' = "answered" /\ UNCHANGED walk
  /\ UNCHANGED <<folded, count, parents>>

Proceed ==
  /\ stage = "answered" /\ stage' = "row" /\ walk' = NoWalk
  /\ UNCHANGED <<folded, count, parents>>

FoldEnds == stage \in {"raised", "cyclic"} /\ UNCHANGED foldVars

FoldNext ==
  \/ \E b, c \in Bins : b # c /\ (ReadPack(b, c) \/ ReadUnpack(b, c))
  \/ \E b \in Bins : AskPath(b)
  \/ Climb \/ MeetAgain \/ Arrive \/ Proceed
  \/ FoldEnds

FoldSpec == FoldInit /\ [][FoldNext]_foldVars

-------------------------------------------------------------------------------
(* FoldsCleanly says of every ledger whether the program's fold raises.    *)
CleanMeansNoRaise ==
  /\ stage \in {"row", "ask", "answered"} => FoldsCleanly(folded)
  /\ stage = "raised" => ~FoldsCleanly(folded)

(* Where the fold does not raise, parent_of, path_for and the bin whose    *)
(* location counts are those of the graph it builds, and path_for does not *)
(* raise on any bin.                                                       *)
GraphAgrees ==
  /\ stage \in {"row", "ask", "answered"} =>
       \A b \in Bins : parents[b] = ParentOf(folded, b)
  /\ stage # "cyclic"
  /\ stage = "answered" =>
       /\ walk.seen \ {walk.from} = PathFor(folded, walk.from)
       /\ walk.current = LocationSource(folded, walk.from)

-------------------------------------------------------------------------------
(* The inductive invariant of the two.  While a pack is checked, the rows  *)
(* before it fold; and a walk has seen only what is above where it began,  *)
(* all of which leads to where it is.                                      *)
RowsRead ==
  /\ count \in Nat
  /\ folded \subseteq [seq : 1..count, kind : {"pack", "unpack"}, bin : Bins, box : Bins]
  /\ \A e, f \in folded : e.seq = f.seq => e = f
  /\ parents \in [Bins -> Bins \cup {None}]
  /\ stage \in {"row", "check", "ask", "answered", "raised"}

NoCycle(ledger) == \A b \in Bins : ~OnCycle(ledger, b)
Sound(ledger) == FoldsCleanly(ledger) /\ NoCycle(ledger)

Above(b) == {b} \cup PathFor(folded, b)

WalkInv ==
  /\ walk \in [from : Bins, current : Bins, seen : SUBSET Bins]
  /\ walk.from \in walk.seen /\ walk.seen \subseteq Above(walk.from)
  /\ \A x \in walk.seen : walk.current \in Above(x)
  /\ walk.current \in walk.seen
  /\ walk.current = walk.from => walk.seen = {walk.from}
  /\ \A x \in walk.seen \ {walk.current} : parents[x] \in walk.seen \ {walk.from}

FoldInv ==
  /\ RowsRead
  /\ stage # "raised" => \A b \in Bins : parents[b] = ParentOf(folded, b)
  /\ stage \in {"row", "ask", "answered"} => Sound(folded)
  /\ stage = "check" =>
       \E e \in folded : /\ e.seq = count /\ e.kind = "pack" /\ e.bin = walk.from
                         /\ Sound(folded \ {e})
                         /\ ParentOf(folded \ {e}, e.bin) = None
  /\ stage \in {"check", "ask", "answered"} => WalkInv
  /\ stage = "answered" => parents[walk.current] = None
  /\ stage = "raised" => ~FoldsCleanly(folded)
================================================================================
