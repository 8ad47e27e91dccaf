---------------------------- MODULE EvidenceTransfer --------------------------
(***************************************************************************)
(* The transfer of the owner's evidence from Engram to a BinKeeper         *)
(* database (transfer.py): exported to a file, its photos encrypted again  *)
(* into the BinKeeper store, imported, and the writer gate opened.         *)
(* docs/runbooks/cutover.md has the order of the commands.                 *)
(*                                                                         *)
(* Engram is external: it records until it is frozen.  Of the nine tables  *)
(* the model has those that refer to each other.  A capture stands for     *)
(* the photo it links, a decision for the request it decides.  What a      *)
(* person does with the files and the databases is external too.           *)
(***************************************************************************)
EXTENDS Integers, Sequences, FiniteSets

CONSTANTS Photos, Requests, None,
          Rehearse,       \* is a transfer rehearsed after the cutover too
          MaxEnvelopes,   \* bound: encryptions
          MaxStops        \* bound: stagings that stop half way

(* What is assumed of the constants, and checked of every instance.          *)
TransferAssumption ==
  /\ None \notin Photos \cup Nat
  /\ Rehearse \in BOOLEAN
  /\ {MaxEnvelopes, MaxStops} \subseteq Nat

Databases == {"disposable", "authority"}

Tables == {"captures", "requests", "decisions", "blobs"}

VARIABLES engram,      \* Engram's tables
          frozen,      \* do Engram's writers refuse
          file,        \* the exported snapshot: per table its rows, or None
          staging,     \* is stage-blobs running
          staged,      \* the rows it has encrypted again
          outputs,     \* the staged snapshots on file
          latest,      \* the one written last, if nothing was put since
          objects,     \* the BinKeeper object store
          envelopes,   \* how many envelopes were made
          db,          \* the tables of each database
          gate,        \* BINKEEPER_WRITES_ENABLED
          stops

vars == <<engram, frozen, file, staging, staged, outputs, latest, objects, envelopes,
          db, gate, stops>>

Unread == [t \in Tables |-> None]
Empty  == [t \in Tables |-> {}]

Init ==
  /\ engram = Empty /\ frozen = FALSE /\ gate = FALSE
  /\ file = Unread /\ staging = FALSE /\ staged = {} /\ outputs = {} /\ latest = None
  /\ objects = [d \in Photos |-> None]
  /\ envelopes = 0 /\ stops = 0
  /\ db = [x \in Databases |-> Empty]

(* A row of evidence_blobs as Engram has it: no object here is of its      *)
(* envelope.                                                               *)
EngramRow(d) == [digest |-> d, envelope |-> 0]

Digests(blobRows) == {r.digest : r \in blobRows}

-------------------------------------------------------------------------------
(* Engram, until it is frozen: a photo with its capture, a routing request *)
(* and its decision.                                                       *)
EngramRecords ==
  /\ ~frozen
  /\ \/ \E d \in Photos : engram' = [engram EXCEPT !["captures"] = @ \cup {d},
                                                   !["blobs"] = @ \cup {d}]
     \/ \E q \in Requests : engram' = [engram EXCEPT !["requests"] = @ \cup {q}]
     \/ \E q \in engram["requests"] : engram' = [engram EXCEPT !["decisions"] = @ \cup {q}]
  /\ engram' # engram
  /\ UNCHANGED <<frozen, file, staging, staged, outputs, latest, objects, envelopes,
                 db, gate, stops>>

(* The runbook freezes before it exports, and the files of a rehearsal     *)
(* have been removed.                                                      *)
Freeze ==
  /\ ~frozen /\ frozen' = TRUE
  /\ file = Unread /\ outputs = {}
  /\ UNCHANGED <<engram, file, staging, staged, outputs, latest, objects, envelopes,
                 db, gate, stops>>

-------------------------------------------------------------------------------
(* Slip: the photos are read before the captures that link them.            *)
BlobsFirst == <<"blobs", "requests", "decisions", "captures">>

(* TABLE_ORDER                                                             *)
TableOrder == <<"captures", "requests", "decisions", "blobs">>

(* export_engram: one read-only transaction, but READ COMMITTED: every     *)
(* table is read at an instant of its own.  Photos are exported only where *)
(* a capture links them at that instant.                                   *)
ExportTable(i) ==
  LET t == TableOrder[i] IN
  /\ file[t] = None
  /\ \A j \in 1..(i - 1) : file[TableOrder[j]] # None
  /\ file' = [file EXCEPT ![t] =
                IF t = "blobs" THEN {EngramRow(d) : d \in engram[t] \cap engram["captures"]}
                               ELSE engram[t]]
  /\ UNCHANGED <<engram, frozen, staging, staged, outputs, latest, objects, envelopes,
                 db, gate, stops>>

Exported == \A t \in Tables : file[t] # None

(* stage-blobs encrypts one photo after another into the target's store,   *)
(* as often as it is run.  Without rehearsals after the cutover it is not  *)
(* run again once the authority has been imported.                         *)
StartStaging ==
  /\ Exported /\ ~staging /\ staging' = TRUE
  /\ Rehearse \/ (~gate /\ db["authority"] = Empty)
  /\ UNCHANGED <<engram, frozen, file, staged, outputs, latest, objects, envelopes,
                 db, gate, stops>>

(* _reencrypt_blob_row puts the object, whatever is there.                 *)
StageBlob(d) ==
  /\ staging /\ envelopes < MaxEnvelopes
  /\ d \in Digests(file["blobs"]) \ Digests(staged)
  /\ objects' = [objects EXCEPT ![d] = envelopes + 1]
  /\ staged' = staged \cup {[digest |-> d, envelope |-> envelopes + 1]}
  /\ envelopes' = envelopes + 1
  /\ latest' = None
  /\ UNCHANGED <<engram, frozen, file, staging, outputs, db, gate, stops>>

StagedTables == [file EXCEPT !["blobs"] = staged]

(* write_snapshot, to a path that must be free.                            *)
WriteStaged ==
  /\ staging /\ Digests(file["blobs"]) \subseteq Digests(staged)
  /\ outputs' = outputs \cup {StagedTables} /\ latest' = StagedTables
  /\ staging' = FALSE /\ staged' = {}
  /\ UNCHANGED <<engram, frozen, file, objects, envelopes, db, gate, stops>>

(* What it put so far stays in the store.                                  *)
StopStaging ==
  /\ staging /\ stops < MaxStops /\ stops' = stops + 1
  /\ staging' = FALSE /\ staged' = {}
  /\ UNCHANGED <<engram, frozen, file, outputs, latest, objects, envelopes, db, gate>>

-------------------------------------------------------------------------------
(* import_snapshot: a row that is there already is left as it is; a        *)
(* database that then holds anything but the snapshot, or a decision whose *)
(* request is missing, is rolled back.                                     *)
Inserted(tables, snapshot) ==
  [t \in Tables |->
     IF t = "blobs"
       THEN tables[t] \cup {r \in snapshot[t] : r.digest \notin Digests(tables[t])}
       ELSE tables[t] \cup snapshot[t]]

Accepted(tables, snapshot) ==
  /\ tables = snapshot
  /\ tables["decisions"] \subseteq tables["requests"]

Import(x, snapshot) ==
  /\ Accepted(Inserted(db[x], snapshot), snapshot)
  /\ db' = [db EXCEPT ![x] = snapshot]
  /\ UNCHANGED <<engram, frozen, file, staging, staged, outputs, latest, objects,
                 envelopes, gate, stops>>

(* Any snapshot is imported into a disposable database: also an export as  *)
(* it is, whose rows name Engram's envelopes, and one staged long ago.     *)
ImportDisposable ==
  \/ \E s \in outputs : Import("disposable", s)
  \/ Exported /\ Import("disposable", file)

(* The cutover imports what was exported and staged after the freeze.      *)
ImportAuthority ==
  /\ frozen /\ ~staging
  /\ \E s \in outputs : Import("authority", s)

(* The runbook opens the gate once the import has been compared with the   *)
(* snapshot and the copies of the photos have been decrypted.              *)
Decrypts(tables) == \A r \in tables["blobs"] : r.envelope = objects[r.digest]

OpenGate ==
  /\ ~gate /\ gate' = TRUE
  /\ frozen /\ ~staging
  /\ db["authority"] \in outputs /\ Decrypts(db["authority"])
  /\ UNCHANGED <<engram, frozen, file, staging, staged, outputs, latest, objects,
                 envelopes, db, stops>>

(* By hand: the files are removed after a rehearsal or the cutover, and a  *)
(* disposable database is dropped, each at any time.  A file that is being *)
(* staged is not removed.                                                  *)
RemoveExport ==
  /\ ~staging /\ file # Unread /\ file' = Unread
  /\ UNCHANGED <<engram, frozen, staging, staged, outputs, latest, objects, envelopes,
                 db, gate, stops>>

RemoveOutputs ==
  /\ outputs # {} /\ outputs' = {}
  /\ UNCHANGED <<engram, frozen, file, staging, staged, latest, objects, envelopes,
                 db, gate, stops>>

DropDisposable ==
  /\ db["disposable"] # Empty
  /\ db' = [db EXCEPT !["disposable"] = Empty]
  /\ UNCHANGED <<engram, frozen, file, staging, staged, outputs, latest, objects,
                 envelopes, gate, stops>>

(* Once the gate is open, a photo is added here; PhotoVault has the steps. *)
AddHere(d) ==
  /\ gate /\ envelopes < MaxEnvelopes
  /\ d \notin Digests(db["authority"]["blobs"])
  /\ objects' = [objects EXCEPT ![d] = envelopes + 1]
  /\ db' = [db EXCEPT !["authority"]["captures"] = @ \cup {d},
                      !["authority"]["blobs"] =
                         @ \cup {[digest |-> d, envelope |-> envelopes + 1]}]
  /\ envelopes' = envelopes + 1
  /\ UNCHANGED <<engram, frozen, file, staging, staged, outputs, latest, gate, stops>>

-------------------------------------------------------------------------------
Rest == envelopes = MaxEnvelopes /\ UNCHANGED vars

Next ==
  \/ EngramRecords \/ Freeze
  \/ \E i \in DOMAIN TableOrder : ExportTable(i)
  \/ StartStaging \/ WriteStaged \/ StopStaging
  \/ \E d \in Photos : StageBlob(d) \/ AddHere(d)
  \/ ImportDisposable \/ ImportAuthority \/ OpenGate
  \/ RemoveExport \/ RemoveOutputs \/ DropDisposable
  \/ Rest

Spec == Init /\ [][Next]_vars

-------------------------------------------------------------------------------
OpensIn(tables, d) == \E r \in tables["blobs"] : r.digest = d /\ r.envelope = objects[d]

(* The inductive invariant behind the two properties below.  A snapshot,   *)
(* exported or staged, has the photo of every capture, and what it has is  *)
(* Engram's: all of Engram's, once that is frozen.                         *)
Whole(s) ==
  /\ DOMAIN s = Tables
  /\ s["captures"] \subseteq Digests(s["blobs"])
  /\ Digests(s["blobs"]) \subseteq engram["blobs"]

Complete(s) == s["captures"] = engram["captures"] /\ s["decisions"] = engram["decisions"]

EngramInv ==
  DOMAIN engram = Tables /\ engram["captures"] = engram["blobs"] /\ engram["blobs"] \subseteq Photos

FileInv ==
  /\ DOMAIN file = Tables
  /\ file["blobs"] # None => Exported /\ Whole(file)
  /\ file["captures"] # None => file["captures"] \subseteq engram["captures"]
  /\ frozen => \A t \in {"captures", "decisions"} : file[t] # None => file[t] = engram[t]

StagedInv ==
  /\ DOMAIN objects = Photos
  /\ staging => Exported
  /\ ~staging => staged = {}
  /\ staged # {} => Digests(staged) \subseteq Digests(file["blobs"])
  /\ \A r \in staged : r.envelope = objects[r.digest]
  /\ \A s \in outputs : Whole(s) /\ (frozen => Complete(s))
  /\ latest # None => Whole(latest) /\ Decrypts(latest)

(* Photos are added here beside those that the cutover brought.            *)
DbInv ==
  /\ DOMAIN db = Databases
  /\ \A x \in Databases :
       DOMAIN db[x] = Tables /\ db[x]["captures"] \subseteq Digests(db[x]["blobs"])
  /\ gate => /\ frozen
             /\ engram["captures"] \subseteq db["authority"]["captures"]
             /\ engram["decisions"] \subseteq db["authority"]["decisions"]

(* The photos of the live database, when nothing is rehearsed on it.       *)
LiveInv ==
  \/ Rehearse
  \/ /\ staging => ~gate
     /\ gate => /\ Decrypts(db["authority"])
                /\ Digests(db["authority"]["blobs"]) \subseteq Photos

WholeInv == EngramInv /\ FileInv /\ StagedInv /\ DbInv /\ LiveInv

(* Whatever was imported, and however often it was exported, staged and    *)
(* stopped while Engram went on recording: a database has the row of every *)
(* photo that its captures link; the photos of one that holds what was     *)
(* staged last open; and when the gate opens nothing that Engram recorded  *)
(* is missing.                                                             *)
ImportedIsWhole ==
  /\ \A x \in Databases :
       /\ db[x]["captures"] \subseteq Digests(db[x]["blobs"])
       /\ latest # None /\ db[x] = latest => \A d \in db[x]["captures"] : OpensIn(db[x], d)
  /\ gate => /\ engram["captures"] \subseteq db["authority"]["captures"]
             /\ engram["decisions"] \subseteq db["authority"]["decisions"]

(* architecture.md: every writer dedupes, for blobs on the plaintext hash, *)
(* so replays are no-ops; transfer.md: the transfer remains the tool for   *)
(* rehearsals.  A rehearsal leaves the photos of the live database as they *)
(* were: they open.                                                        *)
RehearsalKeepsPhotos ==
  gate => \A d \in db["authority"]["captures"] : OpensIn(db["authority"], d)
===============================================================================
