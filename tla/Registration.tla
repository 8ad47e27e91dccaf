----------------------------- MODULE Registration -----------------------------
(***************************************************************************)
(* How a bin comes to exist: register_bin (bin_register.py), called by the *)
(* registration pages and by create_quick_label (bin_quick_label.py),      *)
(* which also assigns the bin's code, over the capture ledger              *)
(* (personal_memory.py) and the move ledger, and the one label that is     *)
(* printed after the commit.                                               *)
(*                                                                         *)
(* As in InventoryLedger, a session is a database connection, each of its  *)
(* READ COMMITTED statements is a step, and a row carries in `by` the      *)
(* session whose open transaction wrote it, or None.                       *)
(***************************************************************************)
EXTENDS Naturals, FiniteSetsExt

CONSTANTS Sites,      \* each site has a code prefix of its own
          Actions,    \* request ids of quick-label pages
          Details,    \* theme, contents, printer and copies of a quick label
          Sessions,
          Requests,   \* what clients may submit, any number of times
          Earlier,    \* codes registered before the first day
          Contained,  \* of them, those packed into another bin
          Moved,      \* codes that other surfaces place
          LastDay,    \* bound: days of the calendar
          MaxPlaceSeq,\* bound: no request or move begins beyond this identity
          MaxCrashes, \* bound: connections or processes lost in a call
          None

(* <<site, n>> stands for the code of that site's prefix and number n.     *)
Codes == Sites \X (Nat \ {0})

(* idem: one registration of a bin at a site per day.                      *)
KeyOf(c, site, d) == <<c, site, d>>
Keys == Codes \X Sites \X Nat

RequestType ==
  [op : {"register"}, code : Codes, site : Sites, print : BOOLEAN]
    \cup [op : {"quick"}, action : Actions, site : Sites, details : Details]
NoRequest == [op |-> "none"]

ASSUME RegistrationAssumption ==
  /\ None \notin Sites \cup Actions \cup Details \cup Sessions
  /\ None \notin Keys \cup Codes
  /\ Requests \subseteq RequestType
  /\ Contained \subseteq Earlier
  /\ Earlier \subseteq Codes /\ IsFiniteSet(Earlier)
  /\ Moved \subseteq Codes
  /\ LastDay \in Nat /\ MaxPlaceSeq \in Nat /\ MaxCrashes \in Nat

(* The advisory locks: one per request id, one per code prefix, and the    *)
(* containment lock of the move ledger.                                    *)
Locks == ({"quick-label"} \X Actions) \cup ({"bin-code"} \X Sites)
           \cup {<<"containment", None>>}
LedgerLock == <<"containment", None>>

VARIABLES captures,  \* capture_evidence, registrations only
          places,    \* the place events of bin_trip_events
          placeSeq,  \* next identity value of bin_trip_events
          day,       \* the UTC date
          lock,      \* holder of each advisory lock, or None
          pc, req,
          code,      \* the code being registered
          when,      \* the date register_bin took
          told,      \* answers given: request and code
          jobs,      \* label jobs handed to the printer
          crashes

vars == <<captures, places, placeSeq, day, lock, pc, req, code, when, told, jobs,
          crashes>>
tables == <<captures, places, placeSeq>>
locals == <<req, code, when>>

Resting == {"idle", "registered", "existed", "refused", "failed", "printed",
            "unprinted"}
InTransaction == {"claim", "lookup", "prefix", "assign", "select", "insert",
                  "ledger", "place", "commit"}

Committed(table)  == {e \in table : e.by = None}
Visible(table, s) == {e \in table : e.by \in {None, s}}

RowsOf(table, key) == {e \in table : e.key = key}
KeyIn(s) == KeyOf(code[s], req[s].site, when[s])

(* load_known_bin_codes                                                    *)
KnownCodes(s) == {e.code : e \in Visible(captures, s) \cup Visible(places, s)}

(* _next_code                                                              *)
NextCode(site, known) ==
  <<site, 1 + Max({0} \cup {c[2] : c \in {k \in known : k[1] = site}})>>

(* What a capture says of the quick label it was made for, if any.         *)
ActionOf(r)  == IF r.op = "quick" THEN r.action ELSE None
DetailsOf(r) == IF r.op = "quick" THEN r.details ELSE None

(* The row a quick label left for its request id.                          *)
OfAction(table, a) == {e \in table : e.action = a}

-------------------------------------------------------------------------------
EarlierCapture(c) ==
  [key |-> KeyOf(c, c[1], 0), code |-> c, site |-> c[1], action |-> None,
   details |-> None, by |-> None]
EarlierPlace(c) ==
  [seq |-> 0, key |-> KeyOf(c, c[1], 0), code |-> c, site |-> c[1], by |-> None]

Init ==
  /\ captures = {EarlierCapture(c) : c \in Earlier}
  /\ places = {EarlierPlace(c) : c \in Earlier}
  /\ placeSeq = 1
  /\ day = 1
  /\ lock = [l \in Locks |-> None]
  /\ pc = [s \in Sessions |-> "idle"]
  /\ req = [s \in Sessions |-> NoRequest]
  /\ code = [s \in Sessions |-> None]
  /\ when = [s \in Sessions |-> 0]
  /\ told = {}
  /\ jobs = {}
  /\ crashes = 0

Goto(s, label) == pc' = [pc EXCEPT ![s] = label]

(* The call returns or raises: its locals are gone.                        *)
Return(s, answer) ==
  /\ Goto(s, answer)
  /\ req' = [req EXCEPT ![s] = NoRequest]
  /\ code' = [code EXCEPT ![s] = None]
  /\ when' = [when EXCEPT ![s] = 0]

Tell(s, c) == told' = told \cup {[req |-> req[s], code |-> c]}

(* Slip: session locks, which outlive the transaction.                      *)
KeepLocks(s) == UNCHANGED lock

ReleaseLocks(s) ==
  lock' = [l \in Locks |-> IF lock[l] = s THEN None ELSE lock[l]]

(* Slip: the capture is written on a connection of its own.                 *)
RollbackPlaceOnly(s, answer) ==
  /\ captures' = {[e EXCEPT !.by = None] : e \in captures}
  /\ places' = {e \in places : e.by # s}
  /\ ReleaseLocks(s)
  /\ Return(s, answer)
  /\ UNCHANGED placeSeq

Rollback(s, answer) ==
  /\ captures' = {e \in captures : e.by # s}
  /\ places' = {e \in places : e.by # s}
  /\ ReleaseLocks(s)
  /\ Return(s, answer)
  /\ UNCHANGED placeSeq

Fail(s, answer) == Rollback(s, answer) /\ UNCHANGED <<day, told, jobs, crashes>>

(* A transaction that wrote nothing ends, and the call with it.            *)
EndReadOnly(s, answer) ==
  /\ ReleaseLocks(s)
  /\ Return(s, answer)
  /\ UNCHANGED <<tables, day, jobs, crashes>>

-------------------------------------------------------------------------------
(* A page is submitted.  The registration pages go straight to             *)
(* register_bin; its idempotency key takes the date of this moment.        *)
Begin(s, r) ==
  /\ pc[s] \in Resting
  /\ placeSeq <= MaxPlaceSeq
  /\ req' = [req EXCEPT ![s] = r]
  /\ \/ /\ r.op = "register"
        /\ code' = [code EXCEPT ![s] = r.code]
        /\ when' = [when EXCEPT ![s] = day]
        /\ Goto(s, "select")
     \/ /\ r.op = "quick"
        /\ Goto(s, "claim")
        /\ UNCHANGED <<code, when>>
  /\ UNCHANGED <<tables, day, lock, told, jobs, crashes>>

(* Slip: no lock on the code prefix.                                        *)
TakeUnlessCode(s, l) ==
  /\ l[1] = "bin-code" \/ lock[l] \in {None, s}
  /\ lock' = [lock EXCEPT ![l] = s]

(* pg_advisory_xact_lock                                                   *)
Take(s, l) ==
  /\ lock[l] \in {None, s}
  /\ lock' = [lock EXCEPT ![l] = s]

ClaimAction(s) ==
  /\ pc[s] = "claim"
  /\ Take(s, <<"quick-label", req[s].action>>)
  /\ Goto(s, "lookup")
  /\ UNCHANGED <<tables, day, locals, told, jobs, crashes>>

(* Slip: only the site of the earlier request is compared.                  *)
SameSite(e, r) == e.site = r.site

(* The earlier request had the same details.                               *)
SameRequest(e, r) == e.site = r.site /\ e.details = r.details

(* create_quick_label looks for a registration with its request id, of any *)
(* day: the same request is told its code, another one is refused.         *)
LookUpAction(s) ==
  LET old == OfAction(Visible(captures, s), req[s].action) IN
  /\ pc[s] = "lookup"
  /\ \/ /\ old = {}
        /\ Goto(s, "prefix")
        /\ UNCHANGED <<tables, day, lock, locals, told, jobs, crashes>>
     \/ \E e \in old : /\ SameRequest(e, req[s])
                       /\ Tell(s, e.code)
                       /\ EndReadOnly(s, "existed")
     \/ (\E e \in old : ~SameRequest(e, req[s])) /\ Fail(s, "refused")

LockPrefix(s) ==
  /\ pc[s] = "prefix"
  /\ Take(s, <<"bin-code", req[s].site>>)
  /\ Goto(s, "assign")
  /\ UNCHANGED <<tables, day, locals, told, jobs, crashes>>

(* A label that cannot be rendered (make_label_job) refuses the request.   *)
AssignCode(s) ==
  /\ pc[s] = "assign"
  /\ \/ /\ code' = [code EXCEPT ![s] = NextCode(req[s].site, KnownCodes(s))]
        /\ when' = [when EXCEPT ![s] = day]
        /\ Goto(s, "select")
        /\ UNCHANGED <<tables, day, lock, req, told, jobs, crashes>>
     \/ Fail(s, "refused")

-------------------------------------------------------------------------------
(* Slip: what is on file already is printed once more.                      *)
SelectAndPrint(s) ==
  LET old == RowsOf(Visible(captures, s), KeyIn(s)) IN
  /\ pc[s] = "select"
  /\ Goto(s, IF old = {} THEN "insert" ELSE "print")
  /\ UNCHANGED <<tables, day, lock, locals, told, jobs, crashes>>

(* PersonalMemoryService.capture: is this registration on file?  Then      *)
(* register_bin does nothing, whether its details are the same or not, and *)
(* a quick label, whose code should have been new, raises after its commit. *)
SelectCapture(s) ==
  LET old == RowsOf(Visible(captures, s), KeyIn(s)) IN
  /\ pc[s] = "select"
  /\ \/ /\ old = {}
        /\ Goto(s, "insert")
        /\ UNCHANGED <<tables, day, lock, locals, told, jobs, crashes>>
     \/ /\ old # {} /\ req[s].op = "register"
        /\ Tell(s, code[s])
        /\ EndReadOnly(s, "existed")
     \/ old # {} /\ req[s].op = "quick" /\ Fail(s, "refused")

(* The plain INSERT waits for a transaction that has inserted the same key *)
(* and violates the unique index if that one has committed since.          *)
InsertCapture(s) ==
  /\ pc[s] = "insert"
  /\ \/ /\ RowsOf(captures, KeyIn(s)) = {}
        /\ captures' = captures \cup
             {[key |-> KeyIn(s), code |-> code[s], site |-> req[s].site,
               action |-> ActionOf(req[s]), details |-> DetailsOf(req[s]),
               by |-> s]}
        /\ Goto(s, "ledger")
        /\ UNCHANGED <<places, placeSeq, day, lock, locals, told, jobs, crashes>>
     \/ RowsOf(Committed(captures), KeyIn(s)) # {} /\ Fail(s, "failed")

(* record_event of the placement, whose key no row has: it is written only *)
(* with the capture of the same key.  A contained bin is refused.          *)
LockLedger(s) ==
  /\ pc[s] = "ledger"
  /\ Take(s, LedgerLock)
  /\ Goto(s, "place")
  /\ UNCHANGED <<tables, day, locals, told, jobs, crashes>>

(* Slip: the label is printed before the commit.                            *)
PlaceAndPrint(s) ==
  /\ pc[s] = "place"
  /\ places' = places \cup
       {[seq |-> placeSeq, key |-> KeyIn(s), code |-> code[s],
         site |-> req[s].site, by |-> s]}
  /\ placeSeq' = placeSeq + 1
  /\ Goto(s, "print")
  /\ UNCHANGED <<captures, day, lock, locals, told, jobs, crashes>>

PlaceBin(s) ==
  /\ pc[s] = "place"
  /\ \/ /\ code[s] \notin Contained
        /\ places' = places \cup
             {[seq |-> placeSeq, key |-> KeyIn(s), code |-> code[s],
               site |-> req[s].site, by |-> s]}
        /\ placeSeq' = placeSeq + 1
        /\ Goto(s, "commit")
        /\ UNCHANGED <<captures, day, lock, locals, told, jobs, crashes>>
     \/ code[s] \in Contained /\ Fail(s, "refused")

Settle(table, s) == {[e EXCEPT !.by = IF @ = s THEN None ELSE @] : e \in table}

(* A label is asked for with every quick label and, on the registration    *)
(* page, by a box the owner ticks.                                         *)
WantsLabel(r) == IF r.op = "quick" THEN TRUE ELSE r.print

(* Slip: the code is forgotten with the transaction.                        *)
CommitAndForget(s) ==
  /\ pc[s] = "commit"
  /\ captures' = Settle(captures, s)
  /\ places' = Settle(places, s)
  /\ ReleaseLocks(s)
  /\ Goto(s, "print")
  /\ code' = [code EXCEPT ![s] = None]
  /\ UNCHANGED <<placeSeq, day, req, when, told, jobs, crashes>>

Commit(s) ==
  /\ pc[s] = "commit"
  /\ captures' = Settle(captures, s)
  /\ places' = Settle(places, s)
  /\ ReleaseLocks(s)
  /\ \/ /\ WantsLabel(req[s])
        /\ Goto(s, "print")
        /\ UNCHANGED <<locals, told>>
     \/ /\ ~WantsLabel(req[s])
        /\ Tell(s, code[s])
        /\ Return(s, "registered")
  /\ UNCHANGED <<placeSeq, day, jobs, crashes>>

Job(s) == [n |-> Cardinality(jobs), key |-> KeyIn(s), code |-> code[s],
           req |-> req[s]]

(* send_label_job, once, after the commit: the printer is given the job,   *)
(* or the program cannot tell or knows that it was not.                    *)
PrintLabel(s) ==
  /\ pc[s] = "print"
  /\ \/ jobs' = jobs \cup {Job(s)} /\ Return(s, "printed")
     \/ jobs' \in {jobs, jobs \cup {Job(s)}} /\ Return(s, "unprinted")
  /\ Tell(s, code[s])
  /\ UNCHANGED <<tables, day, lock, crashes>>

-------------------------------------------------------------------------------
(* The connection or the process is lost.  After the commit only the label *)
(* is at stake: the printer may or may not have been given the job.        *)
Crash(s) ==
  /\ crashes < MaxCrashes
  /\ crashes' = crashes + 1
  /\ \/ pc[s] \in InTransaction /\ Rollback(s, "failed") /\ UNCHANGED jobs
     \/ /\ pc[s] = "print"
        /\ jobs' \in {jobs, jobs \cup {Job(s)}}
        /\ Return(s, "failed")
        /\ UNCHANGED <<tables, lock>>
  /\ UNCHANGED <<day, told>>

(* Another surface places a bin, known or not, in a transaction of its own *)
(* (record_event, see InventoryLedger).                                    *)
Move(c, site) ==
  /\ placeSeq <= MaxPlaceSeq
  /\ lock[LedgerLock] = None
  /\ c \notin Contained
  /\ places' = places \cup
       {[seq |-> placeSeq, key |-> None, code |-> c, site |-> site, by |-> None]}
  /\ placeSeq' = placeSeq + 1
  /\ UNCHANGED <<captures, day, lock, pc, locals, told, jobs, crashes>>

Midnight ==
  /\ day < LastDay
  /\ day' = day + 1
  /\ UNCHANGED <<tables, lock, pc, locals, told, jobs, crashes>>

Step(s) ==
  \/ ClaimAction(s) \/ LookUpAction(s) \/ LockPrefix(s) \/ AssignCode(s)
  \/ SelectCapture(s) \/ InsertCapture(s) \/ LockLedger(s) \/ PlaceBin(s)
  \/ Commit(s) \/ PrintLabel(s)

Rest == (\A s \in Sessions : pc[s] \in Resting) /\ UNCHANGED vars

Next ==
  \/ \E s \in Sessions, r \in Requests : Begin(s, r)
  \/ \E s \in Sessions : Step(s) \/ Crash(s)
  \/ \E c \in Moved, site \in Sites : Move(c, site)
  \/ Midnight
  \/ Rest

Spec == Init /\ [][Next]_vars

(* A session whose next statement can run runs it.  PostgreSQL serves the  *)
(* waiters of an advisory lock in order, and wakes an insert that waits    *)
(* for another transaction when that one ends: a session that keeps        *)
(* finding its lock or its key free goes on.                               *)
Fairness ==
  \A s \in Sessions :
    /\ WF_vars(Step(s))
    /\ SF_vars(ClaimAction(s)) /\ SF_vars(LockPrefix(s)) /\ SF_vars(LockLedger(s))
    /\ SF_vars(InsertCapture(s))

FairSpec == Spec /\ Fairness

-------------------------------------------------------------------------------
CaptureRows == [key : Keys, code : Codes, site : Sites, action : Actions \cup {None},
                details : Details \cup {None}, by : Sessions \cup {None}]
PlaceRows == [seq : Nat, key : Keys \cup {None}, code : Codes, site : Sites,
              by : Sessions \cup {None}]

TypeOK ==
  /\ captures \subseteq CaptureRows
  /\ places \subseteq PlaceRows
  /\ placeSeq \in Nat
  /\ day \in Nat
  /\ lock \in [Locks -> Sessions \cup {None}]
  /\ pc \in [Sessions -> Resting \cup InTransaction \cup {"print"}]
  /\ req \in [Sessions -> RequestType \cup {NoRequest}]
  /\ code \in [Sessions -> Codes \cup {None}]
  /\ when \in [Sessions -> Nat]
  /\ told \subseteq [req : RequestType, code : Codes]
  /\ jobs \subseteq [n : Nat, key : Keys, code : Codes, req : RequestType]
  /\ crashes \in Nat

(* A registration and the placement it implies are one fact: there is      *)
(* never a bin on file that was put nowhere, nor a registration placement  *)
(* of a bin that is not on file, whatever fails in between.                *)
RegisteredIsPlaced ==
  {e.key : e \in Committed(captures)} =
    {e.key : e \in Committed(places)} \ {None}

(* Two quick labels never get the same code, and a request id never gets   *)
(* two, however the submissions interleave, fail and are repeated.         *)
CodesIdentifyActions ==
  \A e, f \in Committed(captures) :
    e.action # None /\ f.action # None => (e.action = f.action <=> e.code = f.code)

(* "A request UUID in registration provenance identifies replays across    *)
(* days; a replay shows the saved bin without printing again":             *)
(* (architecture.md) at most one job goes to the printer for a quick       *)
(* label, and for a registration page at most one a day.                   *)
OneLabelPerRegistration ==
  \A j, k \in jobs :
    \/ j.key = k.key
    \/ j.req.op = "quick" /\ k.req.op = "quick" /\ j.req.action = k.req.action
    => j = k

(* A label that comes out of the printer names a bin on file.              *)
LabelsNameRegistrations ==
  \A j \in jobs : \E e \in Committed(captures) : e.key = j.key /\ e.code = j.code

(* Whoever is told the code of a quick label, at first or by a replay,     *)
(* gets the bin that was registered with these very details.               *)
AnswersMatchRequests ==
  \A t \in told : t.req.op = "quick" =>
    \E e \in Committed(captures) :
      /\ e.action = t.req.action /\ e.code = t.code
      /\ e.site = t.req.site /\ e.details = t.req.details

(* Every submission is answered or fails: nobody waits for ever for a lock *)
(* or for a row another session has inserted.                              *)
EverySubmissionAnswered ==
  \A s \in Sessions : pc[s] \notin Resting ~> pc[s] \in Resting

(* Quick labels implement the book of codes.                               *)
CodeOf(a) ==
  LET rows == OfAction(Committed(captures), a) IN
  IF rows = {} THEN None ELSE (CHOOSE e \in rows : TRUE).code

Book == INSTANCE CodeBook WITH
  issued <- [a \in Actions |-> CodeOf(a)],
  labels <- [a \in Actions |->
               Cardinality({j \in jobs : j.req.op = "quick" /\ j.req.action = a})]
ImplementsCodeBook == Book!Spec

-------------------------------------------------------------------------------
(* The inductive invariant behind the safety properties.                   *)

Registering == {"select", "insert", "ledger", "place", "commit", "print"}
Writing     == {"ledger", "place", "commit"}
(* Row e is the registration session s is making.                          *)
IsOwn(e, s) ==
  /\ e.key = KeyIn(s) /\ e.code = code[s] /\ e.site = req[s].site
  /\ e.action = ActionOf(req[s]) /\ e.details = DetailsOf(req[s])

(* What each statement finds in its session's registers.                   *)
Registers(s) ==
  /\ pc[s] \in {"claim", "lookup", "prefix", "assign"} => req[s].op = "quick"
  /\ pc[s] \in Registering => req[s] # NoRequest /\ code[s] \in Codes

FiniteTables == IsFiniteSet(captures) /\ IsFiniteSet(places) /\ IsFiniteSet(jobs)

TypeInv == TypeOK /\ FiniteTables /\ \A s \in Sessions : Registers(s)

(* A quick label holds the lock of its request id from its lookup to the   *)
(* end of its transaction, and the lock of its prefix from the assignment. *)
HoldsLocks(s) ==
  req[s].op = "quick" =>
    /\ pc[s] \in InTransaction \ {"claim"} =>
         lock[<<"quick-label", req[s].action>>] = s
    /\ pc[s] \in InTransaction \ {"claim", "lookup", "prefix"} =>
         lock[<<"bin-code", req[s].site>>] = s

(* The open transaction of a session has written its registration, and no  *)
(* other, and the placement once it is about to commit.                    *)
OpenRows(s) ==
  /\ \A e \in captures : e.by = s => pc[s] \in Writing /\ IsOwn(e, s)
  /\ \A e \in places : e.by = s => pc[s] = "commit" /\ e.key = KeyIn(s)
  /\ pc[s] \in Writing => \E e \in captures : e.by = s
  /\ pc[s] = "commit" => \E e \in places : e.by = s

(* What a quick label found is still so when it writes: nothing is on file *)
(* for its request id, and no quick label has its code.                    *)
StillNew(s) ==
  req[s].op = "quick" =>
    /\ pc[s] \in {"prefix", "assign", "select", "insert"} =>
         OfAction(captures, req[s].action) = {}
    /\ pc[s] \in {"select", "insert"} =>
         \A e \in captures : e.action # None => e.code # code[s]
    /\ pc[s] \in Registering => code[s][1] = req[s].site

(* A session about to print has just registered what the label names.      *)
MayPrint(s) ==
  pc[s] = "print" =>
    /\ \E e \in Committed(captures) : IsOwn(e, s)
    /\ \A j \in jobs : j.key # KeyIn(s)
    /\ \A other \in Sessions \ {s} : pc[other] = "print" => KeyIn(other) # KeyIn(s)

CaptureInv ==
  /\ \A e, f \in captures :
       \/ e.key = f.key
       \/ e.action # None /\ e.action = f.action
       \/ e.action # None /\ f.action # None /\ e.code = f.code
       => e = f
  /\ \A e \in captures : e.action # None => e.code[1] = e.site

JobInv ==
  /\ \A j \in jobs : \E e \in Committed(captures) :
       /\ e.key = j.key /\ e.code = j.code
       /\ j.req.op = "quick" => e.action = j.req.action
  /\ \A j, k \in jobs : j.key = k.key => j = k

SessionInv ==
  \A s \in Sessions : HoldsLocks(s) /\ OpenRows(s) /\ StillNew(s) /\ MayPrint(s)

IInv ==
  /\ TypeInv /\ SessionInv /\ CaptureInv /\ JobInv
  /\ RegisteredIsPlaced /\ AnswersMatchRequests
===============================================================================
