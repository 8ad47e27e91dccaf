--------------------------- MODULE PlacementFeedback ---------------------------
(***************************************************************************)
(* How the owner's decisions over routed items come back to the router     *)
(* (bin_placement_feedback.py), and what the router may then recommend     *)
(* (bin_route.py).  A decision is a row of bin_placement_decisions with    *)
(* the item of its receipt.  An item's name is its match key.              *)
(***************************************************************************)
EXTENDS Naturals, FiniteSets

CONSTANTS Bins,     \* bins with a passport at the site
          NewCodes, \* codes of bins that have none yet
          Items,
          Tokens,   \* [Items -> SUBSET words]: the router's tokens of an item
          None

Codes == Bins \cup NewCodes

Placing == {"accept", "override", "create_new_bin"}
DecisionKinds == Placing \cup {"reject", "not_an_item"}

(* Slip: an override only strengthens the bin that was picked.              *)
DirectivesOfPickOnly(d) ==
  {c \in [kind : {"accept", "exclude"}, bin : Codes, item : {d.item},
          at : {d.at}, seq : {d.seq}] :
     \/ c.kind = "accept" /\ d.kind \in Placing /\ c.bin = d.selected
     \/ c.kind = "exclude" /\ d.kind = "reject" /\ c.bin = d.rec}

(* One decision is zero, one or two directives: the bin it places the item *)
(* in takes such items, and the bin it overrules does not.                 *)
Directives(d) ==
  {c \in [kind : {"accept", "exclude"}, bin : Codes, item : {d.item},
          at : {d.at}, seq : {d.seq}] :
     \/ c.kind = "accept" /\ d.kind \in Placing /\ c.bin = d.selected
     \/ /\ c.kind = "exclude" /\ d.kind \in {"override", "reject"}
        /\ c.bin = d.rec /\ c.bin # d.selected}

(* load_placement_corrections                                              *)
Corrections(decisions) == UNION {Directives(d) : d \in decisions}

(* _decision_order: decided later or, at the same time, appended later.    *)
Later(c, d) == c.at > d.at \/ (c.at = d.at /\ c.seq > d.seq)

(* Of the directives for one item and one bin the latest stands.           *)
ResolveCorrections(cs) ==
  {c \in cs : ~\E e \in cs : e.item = c.item /\ e.bin = c.bin /\ Later(e, c)}

(* Slip: an item may be associated with several bins.                       *)
GroupAllWinners(winners) == winners

(* Of the bins an item was accepted into the latest stands.                *)
GroupWinnersByIdentity(winners) ==
  {c \in winners : c.kind = "accept" =>
     ~\E e \in winners : e.kind = "accept" /\ e.item = c.item /\ Later(e, c)}

Surviving(decisions) ==
  GroupWinnersByIdentity(ResolveCorrections(Corrections(decisions)))

-------------------------------------------------------------------------------
(* An excluded phrase bars the items that share half of its tokens or more. *)
ExcludedTrait(item, phrase) ==
  /\ Tokens[item] # {} /\ Tokens[phrase] # {}
  /\ 2 * Cardinality(Tokens[item] \cap Tokens[phrase]) >= Cardinality(Tokens[phrase])

(* Bins the hard filter on excluded traits leaves.                         *)
Viable(item, decisions) ==
  {b \in Bins : ~\E c \in Surviving(decisions) :
     c.kind = "exclude" /\ c.bin = b /\ ExcludedTrait(item, c.item)}

(* What the router may say: it abstains, or recommends a viable bin; which *)
(* one depends on scores that are not modelled.  An item without tokens    *)
(* fits nothing.                                                           *)
Recommendations(item, decisions) ==
  {None} \cup {b \in Viable(item, decisions) : Tokens[item] # {}}
================================================================================
