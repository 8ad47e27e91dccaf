--------------------------- MODULE MCRegistrations ---------------------------
(* Registration with clients of one kind, chosen at the start.             *)
EXTENDS MCRegistration

Kinds == {QuickLabels, Pages, Contest}

VARIABLE clients

MCInit == Init /\ clients \in Kinds

MCNext ==
  /\ \/ \E s \in Sessions, r \in clients : Begin(s, r)
     \/ \E s \in Sessions : Step(s) \/ Crash(s)
     \/ \E c \in Moved, site \in Sites : Move(c, site)
     \/ Midnight
     \/ Rest
  /\ UNCHANGED clients

MCSpec == MCInit /\ [][MCNext]_<<vars, clients>>
===============================================================================
