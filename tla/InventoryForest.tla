--------------------------- MODULE InventoryForest ---------------------------
(***************************************************************************)
(* What the inventory promises, without ledgers, keys, sessions or locks:  *)
(* every bin has a location of its own and at most one container, the      *)
(* containers form a forest, and each answered call changes them in one    *)
(* step (ADR 0003, CONTEXT.md "Physical containment").                     *)
(***************************************************************************)
CONSTANTS Bins, Sites, Trips,
          None,   \* no bin, no site, no trip
          Home    \* the site where each bin is first known to be, or None

VARIABLES loc,     \* where the newest evidence about each bin puts it
          parent   \* the container each bin is directly inside, or None

vars == <<loc, parent>>

AtSite(s)    == [status |-> "at_site", site |-> s, trip |-> None]
InTransit(t) == [status |-> "in_transit", site |-> None, trip |-> t]
Unknown      == [status |-> "unknown", site |-> None, trip |-> None]
Locations    == {AtSite(s) : s \in Sites} \cup {InTransit(t) : t \in Trips}
                  \cup {Unknown}

TopLevel == {b \in Bins : parent[b] = None}

(* The containers above b.                                                 *)
Above(b) ==
  {c \in Bins : \A S \in SUBSET Bins :
     (\A x \in S \cup {b} : parent[x] # None => parent[x] \in S) => c \in S}

Init ==
  /\ loc = [b \in Bins |-> IF Home[b] = None THEN Unknown ELSE AtSite(Home[b])]
  /\ parent = [b \in Bins |-> None]

(* Top-level bins are placed, loaded or arrive, several at once when a     *)
(* trip is cleared.  What they contain moves with them.                    *)
Move ==
  \E S \in SUBSET TopLevel, l \in Locations \ {Unknown} :
    /\ S # {}
    /\ loc' = [b \in Bins |-> IF b \in S THEN l ELSE loc[b]]
    /\ UNCHANGED parent

(* Somebody saw the bin: also a contained one.                             *)
Sight ==
  \E b \in Bins, s \in Sites :
    loc' = [loc EXCEPT ![b] = AtSite(s)] /\ UNCHANGED parent

(* A top-level bin goes into another one that is not inside it.            *)
Pack ==
  \E b, c \in Bins :
    /\ b # c
    /\ parent[b] = None
    /\ b \notin Above(c)
    /\ parent' = [parent EXCEPT ![b] = c]
    /\ UNCHANGED loc

(* The bin comes out at a site, unless a later sighting already says where *)
(* it is.                                                                  *)
Unpack ==
  \E b \in Bins, l \in {AtSite(s) : s \in Sites} :
    /\ parent[b] # None
    /\ parent' = [parent EXCEPT ![b] = None]
    /\ loc' \in {loc, [loc EXCEPT ![b] = l]}

Next == Move \/ Sight \/ Pack \/ Unpack

Spec == Init /\ [][Next]_vars

-------------------------------------------------------------------------------
(* Every bin has one location and at most one container.                   *)
TypeOK == loc \in [Bins -> Locations] /\ parent \in [Bins -> Bins \cup {None}]

(* No bin is inside itself, however deep, after any sequence of packs and  *)
(* unpacks: path_for and effective_bin_location end at one outermost bin.  *)
Acyclic == \A b \in Bins : b \notin Above(b)
===============================================================================
