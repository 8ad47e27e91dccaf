------------------------ MODULE InventoryForest_proofs ------------------------
(***************************************************************************)
(* The abstract inventory keeps its types and stays a forest.  The set of  *)
(* containers above a bin is the smallest one closed under containment     *)
(* (AboveClosed, AboveLeast), so packing b into c, which is not below b,   *)
(* puts above a bin at most c and what was above c.                        *)
(***************************************************************************)
EXTENDS InventoryForest, TLAPS

(* Every bin is first known at a site or nowhere.                          *)
HomesAreSites == Home \in [Bins -> Sites \cup {None}]

Closed(par, b, S) == \A x \in S \cup {b} : par[x] # None => par[x] \in S

LEMMA AboveClosed ==
  ASSUME TypeOK, NEW b \in Bins
  PROVE  Above(b) \in SUBSET Bins /\ Closed(parent, b, Above(b))
BY DEF TypeOK, Above, Closed

LEMMA AboveLeast ==
  ASSUME NEW b \in Bins, NEW S \in SUBSET Bins, Closed(parent, b, S)
  PROVE  Above(b) \subseteq S
BY DEF Above, Closed

LEMMA AboveTransitive ==
  ASSUME TypeOK, NEW c \in Bins, NEW x \in Above(c)
  PROVE  Above(x) \subseteq Above(c)
<1>1. Above(c) \in SUBSET Bins /\ Closed(parent, c, Above(c))
  BY AboveClosed
<1>2. Closed(parent, x, Above(c))
  BY <1>1 DEF Closed
<1> QED
  BY <1>1, <1>2, AboveLeast

(* A set closed in the next state that does not hold x shows that x is not *)
(* above itself there.                                                     *)
LEMMA NotAbove ==
  ASSUME NEW x \in Bins, NEW S \in SUBSET Bins, Closed(parent', x, S), x \notin S
  PROVE  (x \notin Above(x))'
BY DEF Above, Closed

LEMMA PackAcyclic ==
  ASSUME TypeOK, Acyclic, Pack
  PROVE  Acyclic'
<1>1. PICK b \in Bins, c \in Bins :
        /\ b # c
        /\ parent[b] = None
        /\ b \notin Above(c)
        /\ parent' = [parent EXCEPT ![b] = c]
  BY DEF Pack
<1> SUFFICES ASSUME NEW x \in Bins
             PROVE  (x \notin Above(x))'
  BY DEF Acyclic
<1>2. /\ Above(x) \in SUBSET Bins /\ Closed(parent, x, Above(x))
      /\ Above(c) \in SUBSET Bins /\ Closed(parent, c, Above(c))
  BY AboveClosed
<1>3. x \notin Above(x)
  BY DEF Acyclic
<1>4. \A y \in Bins \ {b} : parent'[y] = parent[y]
  BY <1>1 DEF TypeOK
<1>5. CASE b \notin Above(x) \cup {x}
  <2>1. Closed(parent', x, Above(x))
    BY <1>2, <1>4, <1>5 DEF Closed
  <2> QED
    BY <1>2, <1>3, <2>1, NotAbove
<1>6. CASE b \in Above(x) \cup {x}
  <2> DEFINE S == Above(x) \cup {c} \cup Above(c)
  <2>1. parent'[b] = c
    BY <1>1 DEF TypeOK
  <2>2. Closed(parent', x, S)
    BY <1>1, <1>2, <1>4, <2>1 DEF Closed
  <2>3. x \notin S
    <3>1. CASE x = b
      BY <1>1, <1>3, <3>1
    <3>2. CASE b \in Above(x)
      BY <1>1, <1>3, <3>2, AboveTransitive
    <3> QED
      BY <1>6, <3>1, <3>2
  <2> QED
    BY <1>2, <2>2, <2>3, NotAbove
<1> QED
  BY <1>5, <1>6

LEMMA UnpackAcyclic ==
  ASSUME TypeOK, Acyclic, Unpack
  PROVE  Acyclic'
<1>1. PICK b \in Bins : parent' = [parent EXCEPT ![b] = None]
  BY DEF Unpack
<1> SUFFICES ASSUME NEW x \in Bins
             PROVE  (x \notin Above(x))'
  BY DEF Acyclic
<1>2. Above(x) \in SUBSET Bins /\ Closed(parent, x, Above(x)) /\ x \notin Above(x)
  BY AboveClosed DEF Acyclic
<1>3. Closed(parent', x, Above(x))
  BY <1>1, <1>2 DEF Closed, TypeOK
<1> QED
  BY <1>2, <1>3, NotAbove

LEMMA InitForest == HomesAreSites /\ Init => TypeOK /\ Acyclic
<1> SUFFICES ASSUME HomesAreSites, Init
             PROVE  TypeOK /\ Acyclic
  OBVIOUS
<1>1. TypeOK
  BY DEF HomesAreSites, Init, TypeOK, Locations
<1>2. \A b \in Bins : Closed(parent, b, {})
  BY DEF Init, Closed
<1>3. \A b \in Bins : Above(b) \subseteq {}
  BY <1>2, AboveLeast
<1> QED
  BY <1>1, <1>3 DEF Acyclic

LEMMA NextForest == TypeOK /\ Acyclic /\ [Next]_vars => (TypeOK /\ Acyclic)'
<1> SUFFICES ASSUME TypeOK, Acyclic, [Next]_vars
             PROVE  (TypeOK /\ Acyclic)'
  OBVIOUS
<1>1. CASE UNCHANGED parent /\ (Move \/ Sight \/ UNCHANGED vars)
  <2>1. TypeOK'
    BY <1>1 DEF TypeOK, Move, Sight, vars, Locations
  <2> QED
    BY <1>1, <2>1 DEF Acyclic, Above
<1>2. CASE Pack
  BY <1>2, PackAcyclic DEF TypeOK, Pack
<1>3. CASE Unpack
  BY <1>3, UnpackAcyclic DEF TypeOK, Unpack, Locations
<1> QED
  BY <1>1, <1>2, <1>3 DEF Next, Move, Sight, vars

(* The abstract inventory keeps its types.                                 *)
THEOREM ForestTypeCorrect ==
  ASSUME HomesAreSites
  PROVE  Spec => []TypeOK
BY InitForest, NextForest, PTL DEF Spec

(* Containment is a forest: no bin is ever inside itself, at any depth.    *)
THEOREM ForestAcyclic ==
  ASSUME HomesAreSites
  PROVE  Spec => []Acyclic
BY InitForest, NextForest, PTL DEF Spec
===============================================================================
