------------------------------ MODULE MCStashRuns ------------------------------
(* A batch of two items that share half their words, and one of them again. *)
EXTENDS StashRuns

CONSTANTS b1, b2, n1, cable, adapter, r1, r2

Words == cable :> {"usb", "cable"} @@ adapter :> {"usb", "adapter"}

Batch == [run |-> r1, items |-> <<cable, adapter>>]
Again == [run |-> r2, items |-> <<cable>>]
TwoRuns == {Batch, Again}
OneRun == {Batch}

Cluster == {[receipts |-> <<<<r1, 1>>, <<r1, 2>>>>, bin |-> n1]}
NoCluster == {}
(* The owner starts a run and decides, starts another or puts the batch    *)
(* away, changes his mind and puts away what he then has.                  *)
ChangeOfMind ==
  <<{"start"}, {"accept", "override", "reject", "found"}, {"start", "stop", "found"},
    {"accept", "not_an_item"}, {"stop"}>>

(* The start form is sent twice.                                            *)
StartAgain == <<{"start"}, {"start"}>>

AlikeSessions == Permutations(Sessions)
================================================================================
