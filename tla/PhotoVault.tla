------------------------------- MODULE PhotoVault -----------------------------
(***************************************************************************)
(* The photos: ciphertext in an object store (blob_vault.py), its envelope *)
(* in evidence_blobs, the captures that link it, and the backups of all    *)
(* three (backup.py, restore_drill.py).                                    *)
(*                                                                         *)
(* The object store takes no part in a transaction.  It has one object per *)
(* plaintext digest; encrypting a photo again gives another envelope, and  *)
(* an object under another envelope than its row's never opens.  One       *)
(* writer drops photos (bin_photo_web/__init__.py, a transaction for all   *)
(* of the form's), another adds a photo with the capture that links it     *)
(* (manage.py, one transaction for both).  A put may outlive its           *)
(* transaction, and with it the lock: it then lands whenever it lands.     *)
(***************************************************************************)
EXTENDS Integers, Sequences, FiniteSets

CONSTANTS Photos,         \* plaintext digests
          Writers,        \* handlers that store photos
          None,
          MaxAge,         \* BINKEEPER_BACKUP_MAX_AGE_SECONDS
          MaxClock,       \* bound: instants
          MaxEnvelopes,   \* bound: encryptions
          MaxFailures     \* bound: transactions and backups that fail

ASSUME VaultAssumption ==
  /\ None \notin Photos \cup Nat
  /\ {MaxAge, MaxClock, MaxEnvelopes, MaxFailures} \subseteq Nat

VARIABLES clock,
          rows,        \* evidence_blobs
          caps,        \* the captures that link a photo
          dropped,     \* digests a drop page was answered with
          objects,     \* the object store: an envelope per digest, or None
          envelopes,   \* how many envelopes were made
          late,        \* puts under way whose transaction is gone
          landed,      \* those of them that the store has carried out
          job,         \* the transaction each writer is in
          backup,      \* the backup being made
          artifacts,   \* the backups published
          failures

vars == <<clock, rows, caps, dropped, objects, envelopes, late, landed, job,
          backup, artifacts, failures>>

NoJob    == [pc |-> "idle", photos |-> <<>>, link |-> None, held |-> {}, fresh |-> {}]
NoBackup == [pc |-> "idle", created |-> 0, rows |-> {}, caps |-> {}, blobs |-> {}]

Init ==
  /\ clock = 1 /\ rows = {} /\ caps = {} /\ dropped = {} /\ artifacts = {}
  /\ late = {} /\ landed = {}
  /\ objects = [d \in Photos |-> None]
  /\ envelopes = 0 /\ failures = 0
  /\ job = [w \in Writers |-> NoJob]
  /\ backup = NoBackup

-------------------------------------------------------------------------------
(* open_blob: the row's envelope is the one the store has.                 *)
Opens(blobRows, store, d) == \E r \in blobRows : r.digest = d /\ r.envelope = store[d]

HasRow(blobRows, d) == \E r \in blobRows : r.digest = d

(* _store_photos                                                           *)
StartDrop(w) ==
  /\ job[w] = NoJob
  /\ \E a, b \in Photos :
       job' = [job EXCEPT ![w] = [NoJob EXCEPT !.pc = "lock", !.photos = <<a, b>>]]
  /\ UNCHANGED <<clock, rows, caps, dropped, objects, envelopes, late, landed,
                 backup, artifacts, failures>>

(* add_bin_photo: its capture is in the transaction already.               *)
StartAdd(w, d) ==
  /\ job[w] = NoJob
  /\ job' = [job EXCEPT ![w] = [NoJob EXCEPT !.pc = "lock", !.photos = <<d>>, !.link = d]]
  /\ UNCHANGED <<clock, rows, caps, dropped, objects, envelopes, late, landed,
                 backup, artifacts, failures>>

(* put_blob takes an advisory lock on the digest, held to the end of the   *)
(* transaction, and looks for the row.                                     *)
Holders(d) == {v \in Writers : d \in job[v].held}

(* Slip: put_blob looks for the row without the lock.                       *)
NoOneLocks(w, d) == d \in Photos

MayLock(w, d) == Holders(d) \subseteq {w}

LockDigest(w) ==
  /\ job[w].pc = "lock" /\ job[w].photos # <<>>
  /\ LET d == Head(job[w].photos) IN
     /\ MayLock(w, d)
     /\ job' = [job EXCEPT
          ![w].held = @ \cup {d},
          ![w].pc = IF HasRow(rows \cup job[w].fresh, d) THEN "lock" ELSE "put",
          ![w].photos = IF HasRow(rows \cup job[w].fresh, d) THEN Tail(@) ELSE @]
  /\ UNCHANGED <<clock, rows, caps, dropped, objects, envelopes, late, landed,
                 backup, artifacts, failures>>

(* A fresh nonce; the object is put, then the row inserted.                *)
PutObject(w) ==
  /\ job[w].pc = "put" /\ envelopes < MaxEnvelopes
  /\ LET d == Head(job[w].photos) IN
     /\ objects' = [objects EXCEPT ![d] = envelopes + 1]
     /\ job' = [job EXCEPT
          ![w].pc = "lock", ![w].photos = Tail(@),
          ![w].fresh = @ \cup {[digest |-> d, envelope |-> envelopes + 1]}]
  /\ envelopes' = envelopes + 1
  /\ UNCHANGED <<clock, rows, caps, dropped, late, landed, backup, artifacts,
                 failures>>

(* The unique index on the digest lets no second row through.              *)
Commit(w) ==
  /\ job[w].pc = "lock" /\ job[w].photos = <<>> /\ clock < MaxClock
  /\ \A r \in job[w].fresh : ~HasRow(rows, r.digest)
  /\ rows' = rows \cup job[w].fresh
  /\ IF job[w].link = None
       THEN dropped' = dropped \cup job[w].held /\ UNCHANGED caps
       ELSE caps' = caps \cup {[photo |-> job[w].link, at |-> clock]} /\ UNCHANGED dropped
  /\ clock' = clock + 1
  /\ job' = [job EXCEPT ![w] = NoJob]
  /\ UNCHANGED <<objects, envelopes, late, landed, backup, artifacts, failures>>

(* A put refused, a connection lost, a service stopped: the transaction is *)
(* gone and the objects it put are not.                                    *)
Fail(w) ==
  /\ job[w] # NoJob /\ failures < MaxFailures /\ failures' = failures + 1
  /\ job' = [job EXCEPT ![w] = NoJob]
  /\ UNCHANGED <<clock, rows, caps, dropped, objects, envelopes, late, landed, backup,
                 artifacts>>

(* The transaction goes, and its lock, while a put is still to come: the   *)
(* connection is lost after the lookup and the handler puts the object     *)
(* before it notices, or the store carries out a put that timed out.       *)
FailBeforePut(w) ==
  /\ job[w].pc = "put" /\ failures < MaxFailures /\ failures' = failures + 1
  /\ envelopes < MaxEnvelopes /\ envelopes' = envelopes + 1
  /\ late' = late \cup {[digest |-> Head(job[w].photos), envelope |-> envelopes + 1]}
  /\ job' = [job EXCEPT ![w] = NoJob]
  /\ UNCHANGED <<clock, rows, caps, dropped, objects, landed, backup,
                 artifacts>>

PutLands(put) ==
  /\ objects' = [objects EXCEPT ![put.digest] = put.envelope]
  /\ late' = late \ {put} /\ landed' = landed \cup {put}
  /\ UNCHANGED <<clock, rows, caps, dropped, envelopes, job, backup, artifacts,
                 failures>>

(* Two drops of the same two photos in opposite orders wait for each       *)
(* other: the database aborts one of them.                                 *)
Awaits(w, v) ==
  /\ w # v /\ job[w].pc = "lock" /\ job[w].photos # <<>>
  /\ Head(job[w].photos) \in job[v].held

BreakDeadlock(w, v) ==
  /\ Awaits(w, v) /\ Awaits(v, w)
  /\ job' = [job EXCEPT ![w] = NoJob]
  /\ UNCHANGED <<clock, rows, caps, dropped, objects, envelopes, late, landed,
                 backup, artifacts, failures>>

(* A page that a drop answered registers a bin with one of its photos.     *)
LinkDropped(d) ==
  /\ d \in dropped /\ clock < MaxClock
  /\ caps' = caps \cup {[photo |-> d, at |-> clock]}
  /\ clock' = clock + 1
  /\ UNCHANGED <<rows, dropped, objects, envelopes, late, landed, job, backup,
                 artifacts, failures>>

-------------------------------------------------------------------------------
(* create_backup: stamped first; one snapshot for the dump, the protected  *)
(* state and the inventory of blobs; then one ciphertext after another.    *)
StartBackup ==
  /\ backup = NoBackup /\ clock < MaxClock
  /\ backup' = [NoBackup EXCEPT !.pc = "snapshot", !.created = clock]
  /\ clock' = clock + 1
  /\ UNCHANGED <<rows, caps, dropped, objects, envelopes, late, landed, job,
                 artifacts, failures>>

TakeSnapshot ==
  /\ backup.pc = "snapshot"
  /\ backup' = [backup EXCEPT !.pc = "copy", !.rows = rows, !.caps = caps]
  /\ UNCHANGED <<clock, rows, caps, dropped, objects, envelopes, late, landed,
                 job, artifacts, failures>>

(* _copy_blob_ciphertexts: an object that is not its row's fails it all.   *)
CopyBlob ==
  /\ backup.pc = "copy"
  /\ \E r \in backup.rows \ backup.blobs :
       backup' = IF Opens({r}, objects, r.digest)
                   THEN [backup EXCEPT !.blobs = @ \cup {r}] ELSE NoBackup
  /\ UNCHANGED <<clock, rows, caps, dropped, objects, envelopes, late, landed,
                 job, artifacts, failures>>

(* Slip: the manifest is stamped when it is written.                        *)
ArtifactStampedNow == [created |-> clock, rows |-> backup.rows, caps |-> backup.caps,
                       blobs |-> backup.blobs]

Artifact == [created |-> backup.created, rows |-> backup.rows, caps |-> backup.caps,
             blobs |-> backup.blobs]

(* The directory gets its name at the end.                                 *)
Publish ==
  /\ backup.pc = "copy" /\ backup.blobs = backup.rows
  /\ artifacts' = artifacts \cup {Artifact}
  /\ backup' = NoBackup
  /\ UNCHANGED <<clock, rows, caps, dropped, objects, envelopes, late, landed,
                 job, failures>>

(* What is left is a .partial directory, which nothing reads.              *)
StopBackup ==
  /\ backup # NoBackup /\ failures < MaxFailures /\ failures' = failures + 1
  /\ backup' = NoBackup
  /\ UNCHANGED <<clock, rows, caps, dropped, objects, envelopes, late, landed,
                 job, artifacts>>

(* check_backup_freshness: the newest artifact, unless it is too old.      *)
FreshArtifacts ==
  {a \in artifacts : /\ \A b \in artifacts : b.created <= a.created
                     /\ clock - a.created <= MaxAge}

(* restore_smoke: the dump and the ciphertexts of the artifact, in a       *)
(* database and a store of their own.                                      *)
RestoredStore(a) ==
  [d \in {r.digest : r \in a.blobs} |-> (CHOOSE r \in a.blobs : r.digest = d).envelope]

RestoredOpens(a, d) == HasRow(a.blobs, d) /\ Opens(a.rows, RestoredStore(a), d)

-------------------------------------------------------------------------------
Rest == clock = MaxClock /\ UNCHANGED vars

Next ==
  \/ \E w \in Writers : \/ StartDrop(w) \/ LockDigest(w) \/ PutObject(w)
                        \/ Commit(w) \/ Fail(w) \/ FailBeforePut(w)
                        \/ \E d \in Photos : StartAdd(w, d)
                        \/ \E v \in Writers : BreakDeadlock(w, v)
  \/ \E d \in Photos : LinkDropped(d)
  \/ \E put \in late : PutLands(put)
  \/ StartBackup \/ TakeSnapshot \/ CopyBlob \/ Publish \/ StopBackup
  \/ Rest

Spec == Init /\ [][Next]_vars

-------------------------------------------------------------------------------
BlobRow == [digest : Photos, envelope : Nat \ {0}]
Job == [pc : {"idle", "lock", "put"}, photos : Seq(Photos), link : Photos \cup {None},
        held : SUBSET Photos, fresh : SUBSET BlobRow]

TypeOK ==
  /\ clock \in Nat /\ envelopes \in Nat /\ failures \in Nat
  /\ rows \in SUBSET BlobRow
  /\ caps \in SUBSET [photo : Photos, at : Nat]
  /\ dropped \in SUBSET Photos
  /\ objects \in [Photos -> Nat \cup {None}]
  /\ late \in SUBSET BlobRow /\ landed \in SUBSET BlobRow
  /\ job \in [Writers -> Job]

(* Every photo a capture links opens, however two writers of the same      *)
(* photo interleave, wait for each other and fail: a transaction puts no   *)
(* object over that of a committed row.  What it does not reach is a put   *)
(* that has outlived its transaction and lands on the object: then, and    *)
(* only then, a linked photo does not open.                                *)
LinkedPhotoOpens ==
  \A c \in caps : \/ Opens(rows, objects, c.photo)
                  \/ HasRow(rows, c.photo) /\ Opens(landed, objects, c.photo)

(* A backup that passes the freshness check restores, and holds every      *)
(* photo that had been linked when the oldest backup that passes could     *)
(* have begun.                                                             *)
FreshBackupHoldsAll ==
  \A a \in FreshArtifacts :
    /\ \A c \in a.caps : RestoredOpens(a, c.photo)
    /\ \A c \in caps : c.at < clock - MaxAge => c \in a.caps
===============================================================================
