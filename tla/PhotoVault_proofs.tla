---------------------------- MODULE PhotoVault_proofs --------------------------
(***************************************************************************)
(* Proof of what a capture's photo can be lost to: only a put that has     *)
(* outlived its transaction.  A put replaces whatever object the digest    *)
(* has, so the proof is that a transaction makes none for a digest with a  *)
(* committed row.                                                          *)
(***************************************************************************)
EXTENDS PhotoVault, TLAPS

(* No two transactions hold the lock of one digest.                        *)
HeldAlone == \A v, w \in Writers : v # w => job[v].held \cap job[w].held = {}

(* The store has the object of a row, or that of a put that came late.     *)
Stored(r) == r.envelope = objects[r.digest] \/ Opens(landed, objects, r.digest)

(* What a transaction has inserted is under its locks, new, and stored.    *)
FreshIsStored(w) ==
  \A r \in job[w].fresh :
    /\ r.digest \in job[w].held
    /\ Stored(r)
    /\ ~HasRow(rows, r.digest)

(* About to put, it holds the lock and there is no row yet.                *)
PutIsFirst(w) ==
  job[w].pc = "put" =>
    /\ job[w].photos # <<>>
    /\ Head(job[w].photos) \in job[w].held
    /\ ~HasRow(rows \cup job[w].fresh, Head(job[w].photos))

(* What it holds and is not about to put has a row, its own or committed.  *)
HeldHasRow(w) ==
  \A d \in job[w].held :
    \/ job[w].pc = "put" /\ d = Head(job[w].photos)
    \/ HasRow(rows \cup job[w].fresh, d)

(* The photo it links is the one left to put, or put.                      *)
LinkIsHeld(w) ==
  job[w].link # None => \/ job[w].photos = <<job[w].link>>
                        \/ job[w].photos = <<>> /\ job[w].link \in job[w].held

JobInv == \A w \in Writers : FreshIsStored(w) /\ PutIsFirst(w) /\ HeldHasRow(w) /\ LinkIsHeld(w)

RowsAreStored == \A r \in rows : Stored(r)
CapsHaveRows  == \A c \in caps : HasRow(rows, c.photo)
DropsHaveRows == \A d \in dropped : HasRow(rows, d)

IInv == TypeOK /\ HeldAlone /\ JobInv /\ RowsAreStored /\ CapsHaveRows /\ DropsHaveRows

-------------------------------------------------------------------------------
(* A larger table has the rows of a smaller.                               *)
LEMMA MoreRows ==
  ASSUME NEW A, NEW B, NEW d, A \subseteq B, HasRow(A, d)
  PROVE  HasRow(B, d)
BY DEF HasRow

(* Rows that agree with the store open.                                    *)
LEMMA InvImpliesOpens == IInv => LinkedPhotoOpens
BY DEF IInv, CapsHaveRows, RowsAreStored, Stored, LinkedPhotoOpens, HasRow, Opens

LEMMA InitIInv == ASSUME Init PROVE IInv
<1> USE DEF Init
<1>1. TypeOK
  BY DEF TypeOK, Job, BlobRow, NoJob
<1>2. HeldAlone
  BY DEF HeldAlone, NoJob
<1>3. JobInv
  BY DEF JobInv, FreshIsStored, Stored, Opens, PutIsFirst, HeldHasRow, LinkIsHeld, NoJob
<1>4. RowsAreStored /\ CapsHaveRows /\ DropsHaveRows
  BY DEF RowsAreStored, Stored, Opens, CapsHaveRows, DropsHaveRows
<1> QED
  BY <1>1, <1>2, <1>3, <1>4 DEF IInv

-------------------------------------------------------------------------------
(* A transaction that is given up, and one that begins, holds nothing.     *)
Empty(w, j) ==
  /\ j \in Job /\ j.pc \in {"idle", "lock"} /\ j.held = {} /\ j.fresh = {}
  /\ j.link # None => j.photos = <<j.link>>
  /\ job' = [job EXCEPT ![w] = j]

LEMMA EmptyKeepsInv ==
  ASSUME IInv, NEW w \in Writers, NEW j, Empty(w, j),
         clock' \in Nat, envelopes' \in Nat, failures' \in Nat, late' \in SUBSET BlobRow,
         UNCHANGED <<rows, caps, dropped, objects, landed>>
  PROVE  IInv'
<1> USE DEF Empty
<1> job \in [Writers -> Job]
  BY DEF IInv, TypeOK
<1>1. TypeOK'
  BY DEF IInv, TypeOK
<1>2. HeldAlone'
  BY DEF IInv, HeldAlone
<1>3. JobInv'
  <2> SUFFICES ASSUME NEW v \in Writers
               PROVE  (FreshIsStored(v) /\ PutIsFirst(v) /\ HeldHasRow(v) /\ LinkIsHeld(v))'
    BY DEF JobInv
  <2>1. CASE v = w
    BY <2>1 DEF FreshIsStored, Stored, Opens, PutIsFirst, HeldHasRow, LinkIsHeld
  <2>2. CASE v # w
    BY <2>2 DEF IInv, JobInv, FreshIsStored, Stored, Opens, PutIsFirst, HeldHasRow, LinkIsHeld, HasRow
  <2> QED
    BY <2>1, <2>2
<1>4. (RowsAreStored /\ CapsHaveRows /\ DropsHaveRows)'
  BY DEF IInv, RowsAreStored, Stored, Opens, CapsHaveRows, DropsHaveRows, HasRow
<1> QED
  BY <1>1, <1>2, <1>3, <1>4 DEF IInv

LEMMA NoJobIsJob == NoJob \in Job /\ NoJob.pc = "idle" /\ NoJob.held = {} /\ NoJob.fresh = {}
                    /\ NoJob.link = None
BY DEF NoJob, Job

LEMMA StartDropKeepsInv ==
  ASSUME IInv, NEW w \in Writers, StartDrop(w)
  PROVE  IInv'
<1>1. PICK a, b \in Photos :
        job' = [job EXCEPT ![w] = [NoJob EXCEPT !.pc = "lock", !.photos = <<a, b>>]]
  BY DEF StartDrop
<1> DEFINE j == [NoJob EXCEPT !.pc = "lock", !.photos = <<a, b>>]
<1>2. /\ j.pc = "lock" /\ j.held = {} /\ j.fresh = {} /\ j.link = None
      /\ j \in Job
  <2>1. <<a, b>> \in Seq(Photos)
    OBVIOUS
  <2> QED
    BY <2>1 DEF NoJob, Job
<1>3. Empty(w, j)
  BY <1>1, <1>2 DEF Empty
<1> QED
  BY <1>3, EmptyKeepsInv DEF StartDrop, IInv, TypeOK

LEMMA StartAddKeepsInv ==
  ASSUME IInv, NEW w \in Writers, NEW d \in Photos, StartAdd(w, d)
  PROVE  IInv'
<1> DEFINE j == [NoJob EXCEPT !.pc = "lock", !.photos = <<d>>, !.link = d]
<1>1. /\ j.pc = "lock" /\ j.held = {} /\ j.fresh = {} /\ j.photos = <<j.link>>
      /\ j \in Job
  <2>1. <<d>> \in Seq(Photos)
    OBVIOUS
  <2> QED
    BY <2>1 DEF NoJob, Job
<1>2. job' = [job EXCEPT ![w] = j]
  BY DEF StartAdd
<1>3. Empty(w, j)
  BY <1>1, <1>2 DEF Empty
<1> QED
  BY <1>3, EmptyKeepsInv DEF StartAdd, IInv, TypeOK

(* Rolled back: by the program, by the database, or with the process.      *)
LEMMA RollbackKeepsInv ==
  ASSUME IInv, NEW w \in Writers, NEW v \in Writers, Fail(w) \/ BreakDeadlock(w, v)
  PROVE  IInv'
<1>1. Empty(w, NoJob)
  BY NoJobIsJob DEF Empty, Fail, BreakDeadlock
<1> QED
  BY <1>1, EmptyKeepsInv DEF Fail, BreakDeadlock, IInv, TypeOK

-------------------------------------------------------------------------------
LEMMA HeadAndTail ==
  ASSUME NEW S, NEW s \in Seq(S), s # <<>>
  PROVE  /\ Head(s) \in S /\ Tail(s) \in Seq(S)
         /\ \A x : s = <<x>> => Head(s) = x /\ Tail(s) = <<>>
<1>1. Head(s) \in S /\ Tail(s) \in Seq(S)
  OBVIOUS
<1>2. ASSUME NEW x, s = <<x>>
      PROVE  Head(s) = x /\ Tail(s) = <<>>
  BY <1>2
<1> QED
  BY <1>1, <1>2

(* Rolled back with the put still to come.                                 *)
LEMMA FailBeforePutKeepsInv ==
  ASSUME IInv, NEW w \in Writers, FailBeforePut(w)
  PROVE  IInv'
<1> DEFINE put == [digest |-> Head(job[w].photos), envelope |-> envelopes + 1]
<1>1. Empty(w, NoJob)
  BY NoJobIsJob DEF Empty, FailBeforePut
<1>2. job[w] \in Job /\ envelopes \in Nat /\ failures \in Nat /\ late \in SUBSET BlobRow
  BY DEF IInv, TypeOK
<1>3. job[w].photos # <<>>
  BY DEF FailBeforePut, IInv, JobInv, PutIsFirst
<1>4. put \in BlobRow
  BY <1>2, <1>3, HeadAndTail DEF Job, BlobRow
<1>5. late' \in SUBSET BlobRow
  BY <1>2, <1>4 DEF FailBeforePut
<1> QED
  BY <1>1, <1>2, <1>5, EmptyKeepsInv DEF FailBeforePut, IInv, TypeOK

(* A late put leaves its digest stored as a late put, the rest as it was.  *)
LEMMA PutLandsKeepsInv ==
  ASSUME IInv, NEW put \in late, PutLands(put)
  PROVE  IInv'
<1>1. /\ objects' = [objects EXCEPT ![put.digest] = put.envelope]
      /\ late' = late \ {put} /\ landed' = landed \cup {put}
      /\ UNCHANGED <<clock, rows, caps, dropped, envelopes, job, failures>>
  BY DEF PutLands
<1>2. /\ put.digest \in Photos /\ put.envelope \in Nat
      /\ objects \in [Photos -> Nat \cup {None}]
      /\ late \in SUBSET BlobRow /\ landed \in SUBSET BlobRow
  BY DEF IInv, TypeOK, BlobRow
<1>3. TypeOK'
  BY <1>1, <1>2 DEF IInv, TypeOK
<1>4. ASSUME NEW r \in BlobRow, Stored(r)
      PROVE  Stored(r)'
  <2>1. CASE r.digest = put.digest
    BY <1>1, <1>2, <2>1 DEF Stored, Opens
  <2>2. CASE r.digest # put.digest
    BY <1>1, <1>2, <1>4, <2>2 DEF Stored, Opens
  <2> QED
    BY <2>1, <2>2
<1>5. RowsAreStored'
  BY <1>1, <1>4 DEF IInv, TypeOK, RowsAreStored
<1>6. JobInv'
  <2> SUFFICES ASSUME NEW w \in Writers
               PROVE  (FreshIsStored(w) /\ PutIsFirst(w) /\ HeldHasRow(w) /\ LinkIsHeld(w))'
    BY DEF JobInv
  <2>1. FreshIsStored(w) /\ PutIsFirst(w) /\ HeldHasRow(w) /\ LinkIsHeld(w)
    BY DEF IInv, JobInv
  <2>2. job[w].fresh \in SUBSET BlobRow
    BY DEF IInv, TypeOK, Job
  <2>3. FreshIsStored(w)'
    BY <1>1, <1>4, <2>1, <2>2 DEF FreshIsStored, HasRow
  <2> QED
    BY <1>1, <2>1, <2>3 DEF PutIsFirst, HeldHasRow, LinkIsHeld, HasRow
<1>7. (HeldAlone /\ CapsHaveRows /\ DropsHaveRows)'
  BY <1>1 DEF IInv, HeldAlone, CapsHaveRows, DropsHaveRows, HasRow
<1> QED
  BY <1>3, <1>5, <1>6, <1>7 DEF IInv

(* The lock is taken while no one else holds it.                           *)
LEMMA LockDigestKeepsInv ==
  ASSUME IInv, NEW w \in Writers, LockDigest(w)
  PROVE  IInv'
<1> DEFINE d == Head(job[w].photos)
           has == HasRow(rows \cup job[w].fresh, d)
<1>1. /\ job[w].pc = "lock" /\ job[w].photos # <<>> /\ MayLock(w, d)
      /\ UNCHANGED <<clock, rows, caps, dropped, objects, envelopes, late, landed, failures>>
  BY DEF LockDigest
<1>2. job \in [Writers -> Job] /\ job[w] \in Job
  BY DEF IInv, TypeOK
<1>3. /\ d \in Photos /\ Tail(job[w].photos) \in Seq(Photos)
      /\ \A x : job[w].photos = <<x>> => d = x /\ Tail(job[w].photos) = <<>>
  BY <1>1, <1>2, HeadAndTail DEF Job
<1>4. job' = [job EXCEPT ![w].held = @ \cup {d},
                         ![w].pc = IF has THEN "lock" ELSE "put",
                         ![w].photos = IF has THEN Tail(@) ELSE @]
  BY DEF LockDigest
<1> HIDE DEF d, has
<1>5. /\ job'[w].held = job[w].held \cup {d} /\ job'[w].fresh = job[w].fresh
      /\ job'[w].link = job[w].link
      /\ has => job'[w].pc = "lock" /\ job'[w].photos = Tail(job[w].photos)
      /\ ~has => job'[w].pc = "put" /\ job'[w].photos = job[w].photos
      /\ \A v \in Writers : v # w => job'[v] = job[v]
      /\ job' \in [Writers -> Job]
  <2>1. job'[w] \in Job
    BY <1>2, <1>3, <1>4 DEF Job
  <2> QED
    BY <1>2, <1>4, <2>1 DEF Job
<1>6. TypeOK'
  BY <1>1, <1>5 DEF IInv, TypeOK
<1>7. HeldAlone'
  <2> SUFFICES ASSUME NEW u \in Writers, NEW v \in Writers, u # v
               PROVE  job'[u].held \cap job'[v].held = {}
    BY DEF HeldAlone
  <2>1. \A x \in Writers : x # w => d \notin job[x].held
    BY <1>1 DEF MayLock, Holders
  <2> QED
    BY <1>5, <2>1 DEF IInv, HeldAlone
<1>8. JobInv'
  <2> SUFFICES ASSUME NEW v \in Writers
               PROVE  (FreshIsStored(v) /\ PutIsFirst(v) /\ HeldHasRow(v) /\ LinkIsHeld(v))'
    BY DEF JobInv
  <2>1. FreshIsStored(v) /\ PutIsFirst(v) /\ HeldHasRow(v) /\ LinkIsHeld(v)
    BY DEF IInv, JobInv
  <2>2. CASE v # w
    BY <1>1, <1>5, <2>1, <2>2 DEF FreshIsStored, Stored, Opens, PutIsFirst, HeldHasRow, LinkIsHeld, HasRow
  <2>3. CASE v = w
    <3>1. FreshIsStored(w)'
      BY <1>1, <1>5, <2>1, <2>3 DEF FreshIsStored, Stored, Opens, HasRow
    <3>2. PutIsFirst(w)'
      BY <1>1, <1>5 DEF PutIsFirst, HasRow, d, has
    <3>3. HeldHasRow(w)'
      BY <1>1, <1>5, <2>1, <2>3 DEF HeldHasRow, HasRow, d, has
    <3>4. LinkIsHeld(w)'
      BY <1>1, <1>3, <1>5, <2>1, <2>3 DEF LinkIsHeld
    <3> QED
      BY <2>3, <3>1, <3>2, <3>3, <3>4
  <2> QED
    BY <2>2, <2>3
<1>9. (RowsAreStored /\ CapsHaveRows /\ DropsHaveRows)'
  BY <1>1 DEF IInv, RowsAreStored, Stored, Opens, CapsHaveRows, DropsHaveRows, HasRow
<1> QED
  BY <1>6, <1>7, <1>8, <1>9 DEF IInv

(* The digest of a put has no row, so no row's object is replaced.         *)
LEMMA PutObjectKeepsInv ==
  ASSUME IInv, NEW w \in Writers, PutObject(w)
  PROVE  IInv'
<1> DEFINE d == Head(job[w].photos)
           row == [digest |-> d, envelope |-> envelopes + 1]
<1>1. /\ job[w].pc = "put"
      /\ objects' = [objects EXCEPT ![d] = envelopes + 1]
      /\ envelopes' = envelopes + 1
      /\ UNCHANGED <<clock, rows, caps, dropped, late, landed, failures>>
  BY DEF PutObject
<1>2. job \in [Writers -> Job] /\ job[w] \in Job /\ envelopes \in Nat
      /\ objects \in [Photos -> Nat \cup {None}]
  BY DEF IInv, TypeOK
<1>3. FreshIsStored(w) /\ PutIsFirst(w) /\ HeldHasRow(w) /\ LinkIsHeld(w)
  BY DEF IInv, JobInv
<1>4. /\ job[w].photos # <<>> /\ d \in job[w].held
      /\ ~HasRow(rows \cup job[w].fresh, d)
  BY <1>1, <1>3 DEF PutIsFirst
<1>5. /\ d \in Photos /\ Tail(job[w].photos) \in Seq(Photos)
      /\ \A x : job[w].photos = <<x>> => d = x /\ Tail(job[w].photos) = <<>>
  BY <1>2, <1>4, HeadAndTail DEF Job
<1>6. job' = [job EXCEPT ![w].pc = "lock", ![w].photos = Tail(@),
                         ![w].fresh = @ \cup {row}]
  BY DEF PutObject
<1>7. row \in BlobRow /\ row.digest = d /\ row.envelope = envelopes + 1
  BY <1>2, <1>5 DEF BlobRow
<1> HIDE DEF d, row
<1>8. /\ job'[w].pc = "lock" /\ job'[w].photos = Tail(job[w].photos)
      /\ job'[w].held = job[w].held /\ job'[w].link = job[w].link
      /\ job'[w].fresh = job[w].fresh \cup {row}
      /\ \A v \in Writers : v # w => job'[v] = job[v]
      /\ job' \in [Writers -> Job]
  <2>1. job'[w] \in Job
    BY <1>2, <1>5, <1>6, <1>7 DEF Job
  <2> QED
    BY <1>2, <1>6, <2>1 DEF Job
<1>9. /\ objects'[d] = envelopes + 1
      /\ \A x \in Photos : x # d => objects'[x] = objects[x]
  BY <1>1, <1>2, <1>5
<1>10. TypeOK'
  BY <1>1, <1>2, <1>5, <1>8 DEF IInv, TypeOK
<1>11. HeldAlone'
  BY <1>8 DEF IInv, HeldAlone
<1>12. \A r \in rows \cup job[w].fresh : r.digest \in Photos /\ r.digest # d
  BY <1>2, <1>4 DEF IInv, TypeOK, Job, BlobRow, HasRow
<1>13. \A r : r.digest \in Photos /\ r.digest # d /\ Stored(r) => Stored(r)'
  BY <1>1, <1>9 DEF Stored, Opens
<1>14. PICK s \in BlobRow : /\ s.digest = d /\ s.envelope = objects'[d]
                           /\ job'[w].fresh = job[w].fresh \cup {s}
  BY <1>7, <1>8, <1>9
<1>15. FreshIsStored(w)' /\ HeldHasRow(w)' /\ PutIsFirst(w)' /\ LinkIsHeld(w)'
  <2>1. FreshIsStored(w)'
    <3>1. ~HasRow(rows, d)
      BY <1>4 DEF HasRow
    <3>2. \A r \in job[w].fresh : /\ r.digest \in job[w].held /\ Stored(r)'
                                 /\ ~HasRow(rows, r.digest)
      BY <1>3, <1>12, <1>13 DEF FreshIsStored
    <3>3. s.digest \in job[w].held /\ Stored(s)' /\ ~HasRow(rows, s.digest)
      BY <1>4, <1>14, <3>1 DEF Stored
    <3>4. rows' = rows /\ job'[w].held = job[w].held
      BY <1>1, <1>8
    <3> QED
      BY <1>14, <3>2, <3>3, <3>4 DEF FreshIsStored
  <2>2. HeldHasRow(w)'
    BY <1>1, <1>3, <1>7, <1>8 DEF HeldHasRow, HasRow, d
  <2>3. PutIsFirst(w)' /\ LinkIsHeld(w)'
    BY <1>3, <1>4, <1>5, <1>8 DEF PutIsFirst, LinkIsHeld
  <2> QED
    BY <2>1, <2>2, <2>3
<1>16. ASSUME NEW v \in Writers, v # w
       PROVE  (FreshIsStored(v) /\ PutIsFirst(v) /\ HeldHasRow(v) /\ LinkIsHeld(v))'
  <2>1. FreshIsStored(v) /\ PutIsFirst(v) /\ HeldHasRow(v) /\ LinkIsHeld(v) /\ job[v] \in Job
    BY <1>2 DEF IInv, JobInv
  <2>2. d \notin job[v].held
    BY <1>4, <1>16 DEF IInv, HeldAlone
  <2>3. FreshIsStored(v)'
    <3>1. \A r \in job[v].fresh : r.digest \in Photos /\ r.digest # d
      BY <2>1, <2>2 DEF FreshIsStored, Job, BlobRow
    <3>2. \A r \in job[v].fresh : /\ r.digest \in job[v].held /\ Stored(r)'
                                 /\ ~HasRow(rows, r.digest)
      BY <1>13, <2>1, <3>1 DEF FreshIsStored
    <3>3. job'[v] = job[v] /\ rows' = rows
      BY <1>1, <1>8, <1>16
    <3> QED
      BY <3>2, <3>3 DEF FreshIsStored
  <2> QED
    BY <1>1, <1>8, <1>16, <2>1, <2>3 DEF PutIsFirst, HeldHasRow, LinkIsHeld, HasRow
<1>17. JobInv'
  BY <1>15, <1>16 DEF JobInv
<1>18. (RowsAreStored /\ CapsHaveRows /\ DropsHaveRows)'
  BY <1>1, <1>12, <1>13 DEF IInv, RowsAreStored, CapsHaveRows, DropsHaveRows, HasRow
<1> QED
  BY <1>10, <1>11, <1>17, <1>18 DEF IInv

(* The rows of a transaction come under its locks, which no other holds,   *)
(* and their objects are the store's.                                      *)
LEMMA CommitKeepsInv ==
  ASSUME IInv, NEW w \in Writers, Commit(w)
  PROVE  IInv'
<1>1. /\ job[w].pc = "lock" /\ job[w].photos = <<>>
      /\ rows' = rows \cup job[w].fresh
      /\ job' = [job EXCEPT ![w] = NoJob]
      /\ clock' = clock + 1
      /\ UNCHANGED <<objects, envelopes, late, landed, failures>>
  BY DEF Commit
<1>2. job \in [Writers -> Job] /\ job[w] \in Job /\ clock \in Nat
  BY DEF IInv, TypeOK
<1>3. FreshIsStored(w) /\ HeldHasRow(w) /\ LinkIsHeld(w)
  BY DEF IInv, JobInv
<1>4. job'[w] = NoJob /\ \A v \in Writers : v # w => job'[v] = job[v]
  BY <1>1, <1>2
<1>5. \A d \in job[w].held : HasRow(rows', d)
  BY <1>1, <1>3 DEF HeldHasRow
<1>6. ASSUME job[w].link = None
      PROVE  (TypeOK /\ CapsHaveRows /\ DropsHaveRows)'
  <2>1. dropped' = dropped \cup job[w].held /\ caps' = caps
    BY <1>6 DEF Commit
  <2>2. TypeOK'
    BY <1>1, <1>2, <1>4, <2>1, NoJobIsJob DEF IInv, TypeOK, Job
  <2>3. (CapsHaveRows /\ DropsHaveRows)'
    BY <1>1, <1>5, <2>1 DEF IInv, CapsHaveRows, DropsHaveRows, HasRow
  <2> QED
    BY <2>2, <2>3
<1>7. ASSUME job[w].link # None
      PROVE  (TypeOK /\ CapsHaveRows /\ DropsHaveRows)'
  <2>1. caps' = caps \cup {[photo |-> job[w].link, at |-> clock]} /\ dropped' = dropped
    BY <1>7 DEF Commit
  <2>2. job[w].link \in Photos
    BY <1>2, <1>7 DEF Job
  <2>3. TypeOK'
    BY <1>1, <1>2, <1>4, <2>1, <2>2, NoJobIsJob DEF IInv, TypeOK, Job
  <2>4. job[w].link \in job[w].held
    BY <1>1, <1>3, <1>7 DEF LinkIsHeld
  <2>5. (CapsHaveRows /\ DropsHaveRows)'
    BY <1>1, <1>5, <2>1, <2>4 DEF IInv, CapsHaveRows, DropsHaveRows, HasRow
  <2> QED
    BY <2>3, <2>5
<1>8. HeldAlone'
  BY <1>4, NoJobIsJob DEF IInv, HeldAlone
<1>9. JobInv'
  <2> SUFFICES ASSUME NEW v \in Writers
               PROVE  (FreshIsStored(v) /\ PutIsFirst(v) /\ HeldHasRow(v) /\ LinkIsHeld(v))'
    BY DEF JobInv
  <2>1. CASE v = w
    BY <1>4, <2>1, NoJobIsJob DEF FreshIsStored, Stored, Opens, PutIsFirst, HeldHasRow, LinkIsHeld
  <2>2. CASE v # w
    <3>1. FreshIsStored(v) /\ PutIsFirst(v) /\ HeldHasRow(v) /\ LinkIsHeld(v)
      BY DEF IInv, JobInv
    <3>2. \A d \in job[v].held : \A r \in job[w].fresh : r.digest # d
      BY <1>3, <2>2 DEF IInv, HeldAlone, FreshIsStored, Stored, Opens
    <3>3. \A d \in job[v].held : HasRow(rows', d) => HasRow(rows, d)
      BY <1>1, <3>2 DEF HasRow
    <3>4. FreshIsStored(v)'
      BY <1>1, <1>4, <2>2, <3>1, <3>3 DEF FreshIsStored, Stored, Opens
    <3>5. PutIsFirst(v)'
      BY <1>1, <1>4, <2>2, <3>1, <3>2 DEF PutIsFirst, HasRow
    <3>6. HeldHasRow(v)' /\ LinkIsHeld(v)'
      BY <1>1, <1>4, <2>2, <3>1 DEF HeldHasRow, LinkIsHeld, HasRow
    <3> QED
      BY <3>1, <3>4, <3>5, <3>6
  <2> QED
    BY <2>1, <2>2
<1>10. RowsAreStored'
  BY <1>1, <1>3 DEF IInv, RowsAreStored, FreshIsStored, Stored, Opens
<1> QED
  BY <1>6, <1>7, <1>8, <1>9, <1>10 DEF IInv

(* A dropped photo had its row when the page was answered.                 *)
LEMMA LinkDroppedKeepsInv ==
  ASSUME IInv, NEW d \in Photos, LinkDropped(d)
  PROVE  IInv'
<1> USE DEF LinkDropped
<1>1. TypeOK'
  BY DEF IInv, TypeOK
<1>2. HeldAlone' /\ JobInv'
  BY DEF IInv, HeldAlone, JobInv, FreshIsStored, Stored, Opens, PutIsFirst, HeldHasRow, LinkIsHeld, HasRow
<1>3. (RowsAreStored /\ CapsHaveRows /\ DropsHaveRows)'
  BY DEF IInv, RowsAreStored, Stored, Opens, CapsHaveRows, DropsHaveRows, HasRow
<1> QED
  BY <1>1, <1>2, <1>3 DEF IInv

(* A backup only reads what this is about.                                 *)
LEMMA BackupKeepsInv ==
  ASSUME IInv,
         \/ StartBackup \/ TakeSnapshot \/ CopyBlob \/ Publish \/ StopBackup
         \/ UNCHANGED vars
  PROVE  IInv'
<1>1. UNCHANGED <<rows, caps, dropped, objects, envelopes, late, landed, job>>
  BY DEF StartBackup, TakeSnapshot, CopyBlob, Publish, StopBackup, vars
<1>2. clock' \in Nat /\ failures' \in Nat
  BY DEF StartBackup, TakeSnapshot, CopyBlob, Publish, StopBackup, vars, IInv, TypeOK
<1>3. TypeOK'
  BY <1>1, <1>2 DEF IInv, TypeOK
<1>4. HeldAlone' /\ JobInv'
  BY <1>1 DEF IInv, HeldAlone, JobInv, FreshIsStored, Stored, Opens, PutIsFirst, HeldHasRow, LinkIsHeld, HasRow
<1>5. (RowsAreStored /\ CapsHaveRows /\ DropsHaveRows)'
  BY <1>1 DEF IInv, RowsAreStored, Stored, Opens, CapsHaveRows, DropsHaveRows, HasRow
<1> QED
  BY <1>3, <1>4, <1>5 DEF IInv

LEMMA NextKeepsInv ==
  ASSUME IInv, [Next]_vars
  PROVE  IInv'
<1>1. ASSUME NEW w \in Writers, StartDrop(w) PROVE IInv'
  BY <1>1, StartDropKeepsInv
<1>2. ASSUME NEW w \in Writers, LockDigest(w) PROVE IInv'
  BY <1>2, LockDigestKeepsInv
<1>3. ASSUME NEW w \in Writers, PutObject(w) PROVE IInv'
  BY <1>3, PutObjectKeepsInv
<1>4. ASSUME NEW w \in Writers, Commit(w) PROVE IInv'
  BY <1>4, CommitKeepsInv
<1>5. ASSUME NEW w \in Writers, Fail(w) PROVE IInv'
  BY <1>5, RollbackKeepsInv
<1>6. ASSUME NEW w \in Writers, NEW d \in Photos, StartAdd(w, d) PROVE IInv'
  BY <1>6, StartAddKeepsInv
<1>7. ASSUME NEW w \in Writers, NEW v \in Writers, BreakDeadlock(w, v) PROVE IInv'
  BY <1>7, RollbackKeepsInv
<1>8. ASSUME NEW d \in Photos, LinkDropped(d) PROVE IInv'
  BY <1>8, LinkDroppedKeepsInv
<1>9. CASE \/ StartBackup \/ TakeSnapshot \/ CopyBlob \/ Publish \/ StopBackup
           \/ UNCHANGED vars
  BY <1>9, BackupKeepsInv
<1>10. ASSUME NEW w \in Writers, FailBeforePut(w) PROVE IInv'
  BY <1>10, FailBeforePutKeepsInv
<1>11. ASSUME NEW put \in late, PutLands(put) PROVE IInv'
  BY <1>11, PutLandsKeepsInv
<1> QED
  BY <1>1, <1>2, <1>3, <1>4, <1>5, <1>6, <1>7, <1>8, <1>9, <1>10, <1>11 DEF Next, Rest

-------------------------------------------------------------------------------
(* What put_blob's transactions hold, have put and have inserted: no two   *)
(* hold one digest, what each inserted is new and in the store as its row  *)
(* says, and a committed row's object is its own, unless a put that        *)
(* outlived its transaction has landed on it.                              *)
THEOREM VaultInvariant == Spec => []IInv
<1>1. Init => IInv
  BY InitIInv
<1>2. IInv /\ [Next]_vars => IInv'
  BY NextKeepsInv
<1> QED
  BY <1>1, <1>2, PTL DEF Spec

(* For any number of photos and of handlers that store them, whatever      *)
(* fails in between: what a capture links opens, unless a put that had     *)
(* outlived its transaction landed on it.                                  *)
THEOREM OnlyLatePutsLosePhotos == Spec => []LinkedPhotoOpens
<1>1. IInv => LinkedPhotoOpens
  BY InvImpliesOpens
<1> QED
  BY <1>1, VaultInvariant, PTL
-------------------------------------------------------------------------------
(* Backups.  A snapshot is of one moment: its captures have their rows,    *)
(* and it has every capture from before the backup was stamped.            *)
Whole(b) ==
  /\ \A c \in b.caps : HasRow(b.rows, c.photo)
  /\ \A c \in caps : c.at < b.created => c \in b.caps

Captures == [photo : Photos, at : Nat]
Backups ==
  [pc : {"idle", "snapshot", "copy"}, created : Nat, rows : SUBSET BlobRow,
   caps : SUBSET Captures, blobs : SUBSET BlobRow]

BackupInv ==
  /\ backup \in Backups
  /\ backup.pc # "idle" => backup.created < clock
  /\ backup.pc = "copy" => Whole(backup)

ArtifactInv ==
  \A a \in artifacts :
    a.created \in Nat /\ a.created < clock /\ a.blobs = a.rows /\ Whole(a)

(* What of the photos the backups depend on.                               *)
BackupIInv == IInv /\ BackupInv /\ ArtifactInv
LEMMA InitBackups == ASSUME Init PROVE BackupIInv
BY InitIInv DEF Init, BackupIInv, BackupInv, ArtifactInv, Backups, NoBackup

(* A capture is linked now, after every stamp, and is never unlinked.      *)
LEMMA LinkKeepsBackups ==
  ASSUME BackupIInv, UNCHANGED <<backup, artifacts>>, clock' \in {clock, clock + 1},
         \A c \in caps' \ caps : c.at = clock
  PROVE  BackupInv' /\ ArtifactInv'
<1>1. clock \in Nat
  BY DEF BackupIInv, IInv, TypeOK
<1>2. ASSUME NEW b, b.created \in Nat, b.created < clock, Whole(b)
      PROVE  Whole(b)'
  BY <1>1, <1>2 DEF Whole
<1>3. BackupInv'
  <2>1. backup.created \in Nat
    BY DEF BackupIInv, BackupInv, Backups
  <2>2. Whole(backup) /\ backup.created < clock => Whole(backup)'
    <3> SUFFICES ASSUME Whole(backup), backup.created < clock
                 PROVE  Whole(backup)'
      OBVIOUS
    <3>1. \A c \in backup'.caps : HasRow(backup'.rows, c.photo)
      BY DEF Whole
    <3>2. \A c \in caps' : c.at < backup'.created => c \in backup'.caps
      BY <1>1, <2>1 DEF Whole
    <3> QED
      BY <3>1, <3>2 DEF Whole
  <2> QED
    BY <1>1, <2>1, <2>2 DEF BackupIInv, BackupInv
<1>4. ArtifactInv'
  BY <1>1, <1>2 DEF BackupIInv, ArtifactInv, Whole
<1> QED
  BY <1>3, <1>4

(* A snapshot is of the rows and captures of one moment.                   *)
LEMMA SnapshotIsWhole ==
  ASSUME BackupIInv, TakeSnapshot
  PROVE  BackupInv' /\ ArtifactInv'
<1>1. /\ clock' = clock /\ caps' = caps /\ artifacts' = artifacts
      /\ backup.pc = "snapshot"
      /\ backup' = [backup EXCEPT !.pc = "copy", !.rows = rows, !.caps = caps]
  BY DEF TakeSnapshot
<1>2. /\ backup \in Backups /\ backup.created < clock
      /\ rows \in SUBSET BlobRow /\ caps \in SUBSET Captures
      /\ \A c \in caps : HasRow(rows, c.photo)
  BY <1>1 DEF BackupIInv, BackupInv, IInv, TypeOK, Captures, CapsHaveRows
<1>3. /\ backup' \in Backups /\ backup'.created = backup.created
      /\ backup'.rows = rows /\ backup'.caps = caps
  BY <1>1, <1>2 DEF Backups
<1>4. BackupInv'
  BY <1>1, <1>2, <1>3 DEF BackupInv, Whole
<1> QED
  BY <1>1, <1>4 DEF BackupIInv, ArtifactInv, Whole

LEMMA CopyKeepsBackups ==
  ASSUME BackupIInv, CopyBlob
  PROVE  BackupInv' /\ ArtifactInv'
<1>1. PICK r \in backup.rows \ backup.blobs :
        \/ backup' = [backup EXCEPT !.blobs = @ \cup {r}]
        \/ backup' = NoBackup
  BY DEF CopyBlob
<1>2. UNCHANGED <<clock, caps, artifacts>> /\ backup.pc = "copy"
  BY DEF CopyBlob
<1>3. backup \in Backups /\ backup.created < clock /\ Whole(backup)
  BY <1>2 DEF BackupIInv, BackupInv
<1>4. ArtifactInv'
  BY <1>2 DEF BackupIInv, ArtifactInv, Whole
<1>5. CASE backup' = NoBackup
  BY <1>4, <1>5 DEF BackupInv, Backups, NoBackup
<1>6. CASE backup' = [backup EXCEPT !.blobs = @ \cup {r}]
  <2>1. /\ backup' \in Backups /\ backup'.created = backup.created
        /\ backup'.rows = backup.rows /\ backup'.caps = backup.caps
    BY <1>3, <1>6 DEF Backups
  <2> QED
    BY <1>2, <1>3, <1>4, <2>1 DEF BackupInv, Whole
<1> QED
  BY <1>1, <1>5, <1>6

(* What is published is the snapshot, with every ciphertext.               *)
LEMMA PublishKeepsBackups ==
  ASSUME BackupIInv, Publish
  PROVE  BackupInv' /\ ArtifactInv'
<1>1. /\ backup.pc = "copy" /\ backup.blobs = backup.rows /\ backup' = NoBackup
      /\ artifacts' = artifacts \cup {Artifact} /\ UNCHANGED <<clock, caps>>
  BY DEF Publish
<1>2. backup \in Backups /\ backup.created < clock /\ Whole(backup)
  BY <1>1 DEF BackupIInv, BackupInv
<1>3. /\ Artifact.created \in Nat /\ Artifact.created < clock
      /\ Artifact.blobs = Artifact.rows /\ Whole(Artifact)
  BY <1>1, <1>2 DEF Artifact, Whole, Backups
<1>4. ArtifactInv'
  BY <1>1, <1>3 DEF BackupIInv, ArtifactInv, Whole
<1> QED
  BY <1>1, <1>4 DEF BackupInv, Backups, NoBackup

LEMMA StampKeepsBackups ==
  ASSUME BackupIInv, StartBackup \/ StopBackup
  PROVE  BackupInv' /\ ArtifactInv'
<1>1. clock \in Nat /\ clock' \in {clock, clock + 1} /\ UNCHANGED <<caps, artifacts>>
  BY DEF StartBackup, StopBackup, BackupIInv, IInv, TypeOK
<1>2. BackupInv'
  <2>1. NoBackup \in Backups /\ NoBackup.pc = "idle"
    BY DEF NoBackup, Backups
  <2>2. CASE StartBackup
    <3>1. /\ backup' = [NoBackup EXCEPT !.pc = "snapshot", !.created = clock]
          /\ clock' = clock + 1
      BY <2>2 DEF StartBackup
    <3>2. backup' \in Backups /\ backup'.pc = "snapshot" /\ backup'.created = clock
      BY <1>1, <2>1, <3>1 DEF NoBackup, Backups
    <3> QED
      BY <1>1, <3>1, <3>2 DEF BackupInv
  <2>3. CASE StopBackup
    BY <2>1, <2>3 DEF StopBackup, BackupInv
  <2> QED
    BY <2>2, <2>3
<1> QED
  BY <1>1, <1>2 DEF BackupIInv, ArtifactInv, Whole

LEMMA NextBackups ==
  ASSUME BackupIInv, [Next]_vars
  PROVE  BackupIInv'
<1>1. IInv'
  BY NextKeepsInv DEF BackupIInv
<1>2. CASE StartBackup \/ StopBackup
  BY <1>1, <1>2, StampKeepsBackups DEF BackupIInv
<1>3. CASE TakeSnapshot \/ CopyBlob \/ Publish
  BY <1>1, <1>3, SnapshotIsWhole, CopyKeepsBackups, PublishKeepsBackups DEF BackupIInv
<1>4. ASSUME NEW w \in Writers, Commit(w)
      PROVE  BackupIInv'
  <2>1. /\ UNCHANGED <<backup, artifacts>> /\ clock' = clock + 1
        /\ \A c \in caps' \ caps : c.at = clock
    BY <1>4 DEF Commit
  <2> QED
    BY <1>1, <2>1, LinkKeepsBackups DEF BackupIInv
<1>5. ASSUME NEW d \in Photos, LinkDropped(d)
      PROVE  BackupIInv'
  <2>1. /\ UNCHANGED <<backup, artifacts>> /\ clock' = clock + 1
        /\ \A c \in caps' \ caps : c.at = clock
    BY <1>5 DEF LinkDropped
  <2> QED
    BY <1>1, <2>1, LinkKeepsBackups DEF BackupIInv
<1>6. CASE UNCHANGED <<clock, caps, backup, artifacts>>
  BY <1>1, <1>6, LinkKeepsBackups DEF BackupIInv
<1> QED
  BY <1>2, <1>3, <1>4, <1>5, <1>6
     DEF Next, Rest, vars, StartDrop, StartAdd, LockDigest, PutObject, Fail, FailBeforePut,
         PutLands, BreakDeadlock

(* The invariant of the backups, with that of the photos: a backup being   *)
(* made and every artifact is of one moment, and complete since its stamp. *)
THEOREM BackupInvariant == Spec => []BackupIInv
<1>1. Init => BackupIInv
  BY InitBackups
<1>2. BackupIInv /\ [Next]_vars => BackupIInv'
  BY NextBackups
<1> QED
  BY <1>1, <1>2, PTL DEF Spec

(* An artifact of whose rows all the ciphertexts were copied restores the  *)
(* photos that have a row in it.                                           *)
LEMMA WholeRestores ==
  ASSUME NEW a, a.blobs = a.rows, NEW d, HasRow(a.rows, d)
  PROVE  RestoredOpens(a, d)
<1> DEFINE r == CHOOSE x \in a.blobs : x.digest = d
<1>1. r \in a.rows /\ r.digest = d
  BY DEF HasRow
<1>2. RestoredStore(a)[d] = r.envelope
  BY <1>1 DEF RestoredStore
<1> QED
  BY <1>1, <1>2 DEF RestoredOpens, Opens, HasRow

(* A backup that passes the freshness check restores every photo it links, *)
(* and links every photo that was linked when it may have begun: for every *)
(* age the check allows, and whatever is stored, fails or is backed up     *)
(* meanwhile (create_backup, check_backup_freshness, restore_smoke).       *)
THEOREM BackupsHoldAll == Spec => []FreshBackupHoldsAll
<1>1. BackupIInv => FreshBackupHoldsAll
  <2> SUFFICES ASSUME BackupIInv, NEW a \in FreshArtifacts
               PROVE  /\ \A c \in a.caps : RestoredOpens(a, c.photo)
                      /\ \A c \in caps : c.at < clock - MaxAge => c \in a.caps
    BY DEF FreshBackupHoldsAll
  <2>1. /\ a \in artifacts /\ clock - a.created <= MaxAge
        /\ a.created \in Nat /\ a.blobs = a.rows /\ Whole(a)
    BY DEF FreshArtifacts, BackupIInv, ArtifactInv
  <2>2. \A c \in a.caps : RestoredOpens(a, c.photo)
    BY <2>1, WholeRestores DEF Whole
  <2>3. ASSUME NEW c \in caps, c.at < clock - MaxAge
        PROVE  c \in a.caps
    <3>1. c.at \in Nat /\ clock \in Nat /\ MaxAge \in Nat
      BY VaultAssumption DEF BackupIInv, IInv, TypeOK
    <3>2. c.at < a.created
      BY <2>1, <2>3, <3>1
    <3> QED
      BY <2>1, <3>2 DEF Whole
  <2> QED
    BY <2>2, <2>3
<1> QED
  BY <1>1, BackupInvariant, PTL
===============================================================================
