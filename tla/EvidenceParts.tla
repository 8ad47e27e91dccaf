---------------------------- MODULE EvidenceParts -----------------------------
(***************************************************************************)
(* The photo vault, and beside it the owner's signals and the transfer of  *)
(* the evidence, which share no state with it or with each other.          *)
(***************************************************************************)
EXTENDS PhotoVault

CONSTANTS Sites, Orders, Keyed, Window, MaxEvents, LastInstant,
          Requests, Rehearse, MaxCopies, MaxHalts

VARIABLES sClock, owner, asked, sent, presence, orders,
          engram, frozen, file, staging, staged, outputs, latest, tObjects, tEnvelopes,
          db, gate, halts

sVars == <<sClock, owner, asked, sent, presence, orders>>
tVars == <<engram, frozen, file, staging, staged, outputs, latest, tObjects, tEnvelopes,
           db, gate, halts>>

Sig == INSTANCE OwnerSignals WITH clock <- sClock, MaxClock <- LastInstant

T == INSTANCE EvidenceTransfer WITH
       objects <- tObjects, envelopes <- tEnvelopes, stops <- halts,
       MaxEnvelopes <- MaxCopies, MaxStops <- MaxHalts

ASSUME SignalsAreGiven == Sig!SignalsAssumption
ASSUME TransferIsGiven == T!TransferAssumption

(* Once all of it has arrived, presence is what the device sent last.      *)
ArrivedMeansCurrent  == Sig!ArrivedMeansCurrent

(* An order is as the newest event that arrived says, whatever copies of   *)
(* older ones are under way.                                               *)
OrdersFollowTheOwner == Sig!OrdersFollowTheOwner

(* Whatever was imported has its photos, and the gate opens on all of it.  *)
ImportedIsWhole      == T!ImportedIsWhole

(* A rehearsal leaves the photos of the live database as they were.        *)
RehearsalKeepsPhotos == T!RehearsalKeepsPhotos
===============================================================================
