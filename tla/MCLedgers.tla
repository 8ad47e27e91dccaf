------------------------------ MODULE MCLedgers ------------------------------
(***************************************************************************)
(* InventoryLedger with clients of one kind, chosen at the start: those    *)
(* that pack and move, those that submit twice, and a mixture.  Or nobody  *)
(* writes, and the fold reads rows of its own (NestingFold).               *)
(***************************************************************************)
EXTENDS MCInventoryLedger, NestingFold

(* What the clients ask, and the identity beyond which they ask no more.   *)
Kinds == {[asks |-> Nests, last |-> 2], [asks |-> Replays, last |-> 3],
          [asks |-> Mixed, last |-> 3]}
AllKinds == Nests \cup Replays \cup Mixed

Nobody == [asks |-> {}, last |-> 0]

VARIABLE clients

MCInit == Init /\ FoldInit /\ clients \in Kinds \cup {Nobody}

MCNext ==
  /\ UNCHANGED clients
  /\ \/ /\ clients # Nobody /\ UNCHANGED foldVars
        /\ \/ \E s \in Sessions, r \in clients.asks :
                   tripSeq <= clients.last /\ Begin(s, r)
           \/ \E s \in Sessions : Step(s) \/ Crash(s)
           \/ Rest
     \/ clients = Nobody /\ FoldNext /\ UNCHANGED vars

MCSpec == MCInit /\ [][MCNext]_<<vars, foldVars, clients>>
===============================================================================
