------------------------------ MODULE MCEvidence ------------------------------
(***************************************************************************)
(* Small instances of the parts that share no state: the photo vault, the  *)
(* owner's signals and the transfer.  A behaviour is of one part, chosen   *)
(* at the start; the variables of the others stay as they are.             *)
(***************************************************************************)
EXTENDS EvidenceParts, TLC

CONSTANTS Parts

VARIABLES part

evidenceVars == <<part, sVars, vars, tVars>>

EvidenceInit == part \in Parts /\ Sig!Init /\ Init /\ T!Init

EvidenceNext ==
  /\ UNCHANGED part
  /\ \/ part = "signals"  /\ Sig!Next /\ UNCHANGED <<vars, tVars>>
     \/ part = "vault"    /\ Next /\ UNCHANGED <<sVars, tVars>>
     \/ part = "transfer" /\ T!Next /\ UNCHANGED <<sVars, vars>>

EvidenceSpec == EvidenceInit /\ [][EvidenceNext]_evidenceVars

AllParts == {"signals", "vault", "transfer"}
Transfers == {"transfer"}

Alike == Permutations(Photos) \cup Permutations(Writers)
===============================================================================
