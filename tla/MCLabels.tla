------------------------------- MODULE MCLabels -------------------------------
(***************************************************************************)
(* The two ways a label is made: by registering bins (Registration) and by *)
(* reviewing the one of a bin (LabelReview).  They share no state; what    *)
(* the clients of a behaviour do is chosen at the start.                   *)
(***************************************************************************)
EXTENDS MCRegistrations, ReviewedLabels

CONSTANTS theme

(* The owner may save a theme and empty contents.                          *)
OneProfile == {[theme |-> theme, site |-> garage, text |-> {}]}

Review == {}

LabelsInit == Init /\ clients \in Kinds \cup {Review} /\ L!Init

LabelsNext ==
  \/ clients # Review /\ MCNext /\ UNCHANGED reviewVars
  \/ clients = Review /\ L!Next /\ UNCHANGED <<vars, clients>>

LabelsSpec == LabelsInit /\ [][LabelsNext]_<<vars, clients, reviewVars>>

Alike == AlikeSessions \cup Permutations(Handlers) \cup Permutations(Shots)
===============================================================================
