------------------------------- MODULE CodeBook -------------------------------
(***************************************************************************)
(* What quick labels promise: a request id is given one code, for good and *)
(* in one step, no two request ids the same one, and at most one label is  *)
(* printed for it, after it was given.                                     *)
(***************************************************************************)
EXTENDS Naturals

CONSTANTS Actions, Codes, None

VARIABLES issued,   \* the code of each request id, or None
          labels    \* label jobs sent for it

vars == <<issued, labels>>

Init == issued = [a \in Actions |-> None] /\ labels = [a \in Actions |-> 0]

Issue(a) ==
  /\ issued[a] = None
  /\ issued'[a] \in Codes
  /\ \A other \in Actions : issued[other] # issued'[a]
  /\ \A other \in Actions \ {a} : issued'[other] = issued[other]
  /\ UNCHANGED labels

Label(a) ==
  /\ issued[a] # None
  /\ labels[a] = 0
  /\ labels' = [labels EXCEPT ![a] = 1]
  /\ UNCHANGED issued

Next == \E a \in Actions : Issue(a) \/ Label(a)

Spec == Init /\ [][Next]_vars
===============================================================================
