------------------------------- MODULE MCAnswers -------------------------------
(***************************************************************************)
(* InventoryLedger under fair scheduling, with clients of one kind, chosen *)
(* at the start: those of a busy day, and those that clear a trip of two   *)
(* bins, one of which may be packed before it is loaded or cleared.        *)
(***************************************************************************)
EXTENDS MCInventoryLedger

TwoLoads ==
  {Event("open", None, cabin, t1, k1), Event("load", b1, None, t1, k2),
   Event("load", b2, None, t1, k3), ArriveAll(t1, None), Pack(b1, b2, k4)}

(* What the clients ask, and the identity beyond which they ask no more.   *)
Kinds == {[asks |-> BusyDay, last |-> 2], [asks |-> TwoLoads, last |-> 4]}
AllKinds == BusyDay \cup TwoLoads

VARIABLE clients

MCInit == Init /\ clients \in Kinds

MCNext ==
  /\ \/ \E s \in Sessions, r \in clients.asks :
             tripSeq <= clients.last /\ Begin(s, r)
     \/ \E s \in Sessions : Step(s) \/ Crash(s)
     \/ Rest
  /\ UNCHANGED clients

MCFairSpec == MCInit /\ [][MCNext]_<<vars, clients>> /\ Fairness
===============================================================================
