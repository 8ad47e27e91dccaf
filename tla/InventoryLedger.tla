--------------------------- MODULE InventoryLedger ---------------------------
(***************************************************************************)
(* The two evidence ledgers of BinKeeper, bin_trip_events and              *)
(* bin_containment_events, under concurrent sessions: the CLI, the MCP     *)
(* server and the web service each hold a database connection of their own *)
(* and call record_event, arrive_all, place_existing_bin and               *)
(* record_bin_containment.                                                 *)
(*                                                                         *)
(* Each call is one READ COMMITTED transaction of several statements, and  *)
(* each statement that another session can observe or disturb is a step.   *)
(* A row carries in `by` the session whose open transaction wrote it, or   *)
(* None once committed; a statement sees committed rows and its own.  The  *)
(* advisory transaction lock of _lock_scope is `lock`.                     *)
(***************************************************************************)
EXTENDS TripLedger

CONSTANTS Keys,
          Sessions,     \* database connections serving requests
          Requests,     \* what clients may ask; each may be repeated (retries)
          MaxTripSeq,   \* bound: no request begins beyond this identity value
          MaxCrashes    \* bound: connections lost in the middle of a call

(* The identities events are deduplicated by: a client's own key, and the  *)
(* keys the program derives.                                               *)
EventKeys == ({"client", "containment-unpack-place"} \X Keys)
               \cup ({"binplace"} \X Bins \X Keys)
               \cup ({"arrive-all"} \X Trips \X Bins \X Sites)

Events == [kind : EventKinds, bin : Bins \cup {None},
           site : Sites \cup {None}, trip : Trips \cup {None}, key : EventKeys]
NoEvent == [kind |-> "none"]

RequestType ==
  [op : {"event"}, kind : EventKinds, bin : Bins \cup {None},
   site : Sites \cup {None}, trip : Trips \cup {None}, key : Keys]
    \cup [op : {"pack", "unpack"}, bin : Bins, box : Bins, key : Keys]
    \cup [op : {"place_existing"}, bin : Bins, site : Sites, key : Keys]
    \cup [op : {"arrive_all"}, trip : Trips, site : Sites \cup {None}]
NoRequest == [op |-> "none"]

ASSUME ConstantsAssumption ==
  /\ None \notin Bins \cup Sites \cup Trips \cup Keys \cup Sessions
  /\ Home \in [Bins -> Sites \cup {None}]
  /\ Requests \subseteq RequestType
  /\ MaxTripSeq \in Nat
  /\ MaxCrashes \in Nat

VARIABLES trips,    \* bin_trip_events
          nest,     \* bin_containment_events
          tripSeq,  \* next identity value of each table
          nestSeq,
          lock,     \* holder of the containment lock, or None
          pc,       \* the statement each session executes next
          req,      \* the request it serves
          ev,       \* the move event it is recording
          seen,     \* the site its validation read
          plan,     \* arrive_all: the bins its checksum found unaccounted,
          done,     \*   and those whose arrival it has recorded
          crashes

vars == <<trips, nest, tripSeq, nestSeq, lock, pc, req, ev, seen, plan, done,
          crashes>>
txVars == <<req, ev, seen, plan, done>>

Resting == {"idle", "recorded", "existed", "refused", "failed"}
Busy == {"prior", "lock", "check", "insert", "validate", "child", "append",
         "checksum", "verify", "commit"}

Committed(table)  == {e \in table : e.by = None}
Visible(table, s) == {e \in table : e.by \in {None, s}}

RowsOf(table, key) == {e \in table : e.key = key}

(* Slip: the key's row is compared by its bins only.                        *)
SameBins(e, r) == e.bin = r.bin /\ e.box = r.box

(* _require_same_action                                                    *)
SameAction(e, r) == e.kind = r.op /\ e.bin = r.bin /\ e.box = r.box

(* The event an "event" or a "place_existing" request records.             *)
EventOf(r) ==
  IF r.op = "event"
    THEN [kind |-> r.kind, bin |-> r.bin, site |-> r.site, trip |-> r.trip,
          key |-> <<"client", r.key>>]
    ELSE [kind |-> "place", bin |-> r.bin, site |-> r.site, trip |-> None,
          key |-> <<"binplace", r.bin, r.key>>]

(* Slip: the placement reuses the containment's key without its prefix.     *)
UnpackPlaceBareKey(r, site) ==
  [kind |-> "place", bin |-> r.bin, site |-> site, trip |-> None, key |-> r.key]

(* The event _record_unpack_location records for an unpack.                *)
UnpackPlace(r, site) ==
  [kind |-> "place", bin |-> r.bin, site |-> site, trip |-> None,
   key |-> <<"containment-unpack-place", r.key>>]

(* The event arrive_all records for one bin.                               *)
ArriveEvent(t, b, site) ==
  [kind |-> "arrive", bin |-> b, site |-> site, trip |-> t,
   key |-> <<"arrive-all", t, b, site>>]

(* Slip: moves skip the prior read, the lock and the top-level check.       *)
FirstStepUnlocked(e) == "insert"

(* Only a move event looks for its prior row and takes the lock.           *)
FirstStep(e) == IF e.kind \in MoveKinds THEN "prior" ELSE "insert"

-------------------------------------------------------------------------------
Init ==
  /\ trips = {} /\ nest = {}
  /\ tripSeq = 1 /\ nestSeq = 1
  /\ lock = None
  /\ pc = [s \in Sessions |-> "idle"]
  /\ req = [s \in Sessions |-> NoRequest]
  /\ ev = [s \in Sessions |-> NoEvent]
  /\ seen = [s \in Sessions |-> None]
  /\ plan = [s \in Sessions |-> {}]
  /\ done = [s \in Sessions |-> {}]
  /\ crashes = 0

Goto(s, label) == pc' = [pc EXCEPT ![s] = label]

(* Slip: a session lock, released explicitly, and only after a success.     *)
EndTransactionHoldingLock(s, answer) ==
  /\ lock' = IF lock = s /\ answer = "recorded" THEN None ELSE lock
  /\ Goto(s, answer)
  /\ req' = [req EXCEPT ![s] = NoRequest]
  /\ ev' = [ev EXCEPT ![s] = NoEvent]
  /\ seen' = [seen EXCEPT ![s] = None]
  /\ plan' = [plan EXCEPT ![s] = {}]
  /\ done' = [done EXCEPT ![s] = {}]

(* The lock is an xact lock: it goes when the transaction ends.            *)
EndTransaction(s, answer) ==
  /\ lock' = IF lock = s THEN None ELSE lock
  /\ Goto(s, answer)
  /\ req' = [req EXCEPT ![s] = NoRequest]
  /\ ev' = [ev EXCEPT ![s] = NoEvent]
  /\ seen' = [seen EXCEPT ![s] = None]
  /\ plan' = [plan EXCEPT ![s] = {}]
  /\ done' = [done EXCEPT ![s] = {}]

(* Slip: the containment row is committed before the child is placed.       *)
RollbackTripOnly(s, answer) ==
  /\ trips' = {e \in trips : e.by # s}
  /\ nest' = {[e EXCEPT !.by = None] : e \in nest}
  /\ EndTransaction(s, answer)
  /\ UNCHANGED <<tripSeq, nestSeq>>

Rollback(s, answer) ==
  /\ trips' = {e \in trips : e.by # s}
  /\ nest' = {e \in nest : e.by # s}
  /\ EndTransaction(s, answer)
  /\ UNCHANGED <<tripSeq, nestSeq>>

(* An error raised by the program leaves the transaction block.            *)
Refuse(s) == Rollback(s, "refused") /\ UNCHANGED crashes

-------------------------------------------------------------------------------
(* A client calls the program, possibly again with a request it made       *)
(* before.  A malformed event or a bin packed into itself is refused       *)
(* before the database is touched.                                         *)
Begin(s, r) ==
  /\ pc[s] \in Resting
  /\ tripSeq <= MaxTripSeq
  /\ \/ /\ r.op = "event"
        /\ ValidEvent(EventOf(r))
        /\ ev' = [ev EXCEPT ![s] = EventOf(r)]
        /\ Goto(s, FirstStep(EventOf(r)))
        /\ req' = [req EXCEPT ![s] = r]
     \/ /\ r.op = "event"
        /\ ~ValidEvent(EventOf(r))
        /\ Goto(s, "refused")
        /\ UNCHANGED <<req, ev>>
     \/ /\ r.op = "place_existing"
        /\ ev' = [ev EXCEPT ![s] = EventOf(r)]
        /\ Goto(s, "verify")
        /\ req' = [req EXCEPT ![s] = r]
     \/ /\ r.op = "arrive_all"
        /\ Goto(s, "checksum")
        /\ req' = [req EXCEPT ![s] = r]
        /\ UNCHANGED ev
     \/ /\ r.op \in {"pack", "unpack"}
        /\ r.bin # r.box
        /\ Goto(s, "lock")
        /\ req' = [req EXCEPT ![s] = r]
        /\ UNCHANGED ev
     \/ /\ r.op \in {"pack", "unpack"}
        /\ r.bin = r.box
        /\ Goto(s, "refused")
        /\ UNCHANGED <<req, ev>>
  /\ UNCHANGED <<trips, nest, tripSeq, nestSeq, lock, seen, plan, done, crashes>>

(* record_event: is there a row with this external_id already?  If so the  *)
(* insert will conflict with it and neither lock nor check is needed.      *)
ReadPrior(s) ==
  /\ pc[s] = "prior"
  /\ Goto(s, IF RowsOf(Visible(trips, s), ev[s].key) = {} THEN "lock" ELSE "insert")
  /\ UNCHANGED <<trips, nest, tripSeq, nestSeq, lock, txVars, crashes>>

(* Slip: the advisory lock is not taken.                                    *)
LockIsNeverAwaited(s) == TRUE

(* _lock_scope: waits for the transaction that holds the lock to end; a    *)
(* transaction that already holds it gets it again.                        *)
LockIsFree(s) == lock \in {None, s}

AcquireLock(s) ==
  /\ pc[s] = "lock"
  /\ LockIsFree(s)
  /\ lock' = s
  /\ Goto(s, IF ev[s] = NoEvent THEN "validate" ELSE "check")
  /\ UNCHANGED <<trips, nest, tripSeq, nestSeq, txVars, crashes>>

(* Slip: the containment graph is not consulted.                            *)
AnyBinMoves(s) == TRUE

(* require_top_level_for_move, after the lock: a contained bin is moved    *)
(* with its container, never directly.                                     *)
IsTopLevel(s) == ParentOf(Visible(nest, s), ev[s].bin) = None

CheckTopLevel(s) ==
  /\ pc[s] = "check"
  /\ \/ /\ IsTopLevel(s)
        /\ Goto(s, "insert")
        /\ UNCHANGED <<trips, nest, tripSeq, nestSeq, lock, txVars, crashes>>
     \/ ~IsTopLevel(s) /\ Refuse(s)

(* Slip: arrive_all returns after its first record.                         *)
OnlyFirstArrival(s, arrived) ==
  /\ done' = [done EXCEPT ![s] = arrived]
  /\ Goto(s, "commit")
  /\ UNCHANGED ev

(* The rest of arrive_all after the bins in `arrived`: one more bin, or    *)
(* the commit.  The code takes the bins in the order they were loaded;     *)
(* they become visible together, so the order is left open.                *)
NextArrival(s, arrived) ==
  LET rest == plan[s] \ arrived IN
  /\ done' = [done EXCEPT ![s] = arrived]
  /\ \/ rest = {} /\ Goto(s, "commit") /\ UNCHANGED ev
     \/ /\ \E b \in rest :
             ev' = [ev EXCEPT ![s] = ArriveEvent(req[s].trip, b, seen[s])]
        /\ Goto(s, "prior")

(* INSERT ... ON CONFLICT DO NOTHING waits while another open transaction  *)
(* holds a row with the key.                                               *)
KeyIsSettled(s) == RowsOf(trips, ev[s].key) \subseteq Visible(trips, s)

(* The insert adds the row: it is the last statement of a single event, of *)
(* an unpack, or one round of arrive_all.                                  *)
InsertEvent(s) ==
  /\ pc[s] = "insert"
  /\ RowsOf(trips, ev[s].key) = {}
  /\ trips' = trips \cup
       {[seq |-> tripSeq, by |-> s, kind |-> ev[s].kind, bin |-> ev[s].bin,
         site |-> ev[s].site, trip |-> ev[s].trip, key |-> ev[s].key]}
  /\ tripSeq' = tripSeq + 1
  /\ \/ req[s].op = "arrive_all" /\ NextArrival(s, done[s] \cup {ev[s].bin})
     \/ req[s].op # "arrive_all" /\ Goto(s, "commit") /\ UNCHANGED <<ev, done>>
  /\ UNCHANGED <<nest, nestSeq, lock, req, seen, plan, crashes>>

(* The insert meets a committed row, or one of its own transaction: the    *)
(* event is reported as already existing, whatever the row says, except by *)
(* place_existing_bin, which reads the row's site once more.               *)
ReplayEvent(s) ==
  /\ pc[s] = "insert"
  /\ RowsOf(trips, ev[s].key) # {}
  /\ KeyIsSettled(s)
  /\ \/ /\ req[s].op = "arrive_all"
        /\ NextArrival(s, done[s] \cup {ev[s].bin})
        /\ UNCHANGED <<trips, nest, tripSeq, nestSeq, lock, req, seen, plan, crashes>>
     \/ /\ req[s].op = "event"
        /\ EndTransaction(s, "existed")
        /\ UNCHANGED <<trips, nest, tripSeq, nestSeq, crashes>>
     \/ /\ req[s].op = "place_existing"
        /\ \A e \in RowsOf(trips, ev[s].key) : e.site = req[s].site
        /\ EndTransaction(s, "existed")
        /\ UNCHANGED <<trips, nest, tripSeq, nestSeq, crashes>>
     \/ /\ req[s].op = "place_existing"
        /\ \E e \in RowsOf(trips, ev[s].key) : e.site # req[s].site
        /\ Refuse(s)

(* place_existing_bin before it records: the bin is known, and the request *)
(* was not already used for another site.                                  *)
PlacementIsNew(s) ==
  /\ Known(Visible(trips, s), req[s].bin)
  /\ \A e \in RowsOf(Visible(trips, s), ev[s].key) : e.site = req[s].site

VerifyPlacement(s) ==
  /\ pc[s] = "verify"
  /\ \/ /\ PlacementIsNew(s)
        /\ Goto(s, "prior")
        /\ UNCHANGED <<trips, nest, tripSeq, nestSeq, lock, txVars, crashes>>
     \/ ~PlacementIsNew(s) /\ Refuse(s)

(* arrive_all reads the checksum of the trip, without the lock.            *)
ArrivalSite(s) ==
  IF req[s].site # None
    THEN req[s].site
    ELSE ToSite(Visible(trips, s), req[s].trip)

ReadChecksum(s) ==
  LET t    == req[s].trip
      left == Unaccounted(Visible(trips, s), t)
  IN
  /\ pc[s] = "checksum"
  /\ \/ ArrivalSite(s) = None /\ Refuse(s)
     \/ /\ ArrivalSite(s) # None
        /\ left = {}
        /\ EndTransaction(s, "recorded")
        /\ UNCHANGED <<trips, nest, tripSeq, nestSeq, crashes>>
     \/ /\ ArrivalSite(s) # None
        /\ \E b \in left :
             ev' = [ev EXCEPT ![s] = ArriveEvent(t, b, ArrivalSite(s))]
        /\ plan' = [plan EXCEPT ![s] = left]
        /\ seen' = [seen EXCEPT ![s] = ArrivalSite(s)]
        /\ Goto(s, "prior")
        /\ UNCHANGED <<trips, nest, tripSeq, nestSeq, lock, req, done, crashes>>

-------------------------------------------------------------------------------
(* Slip: only a direct container is looked at.                              *)
MayPackIntoDescendant(s) == ParentOf(Visible(nest, s), req[s].bin) = None

(* Slip: the container may be on the road.                                  *)
MayUnpackInTransit(s, where) ==
  ParentOf(Visible(nest, s), req[s].bin) = req[s].box

(* record_bin_containment, under the lock: a replay of the same action is  *)
(* answered with its row, a reuse of the key for another action refused;   *)
(* otherwise the graph and the container's location are read.              *)
MayPack(s) ==
  LET rows == Visible(nest, s)  b == req[s].bin  c == req[s].box IN
  /\ ParentOf(rows, b) = None
  /\ b \notin PathFor(rows, c)

MayUnpack(s, where) ==
  /\ ParentOf(Visible(nest, s), req[s].bin) = req[s].box
  /\ where.status = "at_site"

Validate(s) ==
  LET old   == RowsOf(Visible(nest, s), req[s].key)
      known == \A b \in {req[s].bin, req[s].box} : Known(Visible(trips, s), b)
      where == WhereIs(Visible(trips, s), Visible(nest, s), req[s].box)
      ok    == /\ known
               /\ \/ req[s].op = "pack" /\ MayPack(s)
                  \/ req[s].op = "unpack" /\ MayUnpack(s, where)
  IN
  /\ pc[s] = "validate"
  /\ \/ /\ old # {}
        /\ \A e \in old : SameAction(e, req[s])
        /\ EndTransaction(s, "existed")
        /\ UNCHANGED <<trips, nest, tripSeq, nestSeq, crashes>>
     \/ /\ \E e \in old : ~SameAction(e, req[s])
        /\ Refuse(s)
     \/ old = {} /\ ~ok /\ Refuse(s)
     \/ /\ old = {} /\ ok
        /\ seen' = [seen EXCEPT ![s] = where.site]
        /\ Goto(s, IF req[s].op = "pack" THEN "child" ELSE "append")
        /\ UNCHANGED <<trips, nest, tripSeq, nestSeq, lock, req, ev, plan, done,
                       crashes>>

(* _validated_pack_site: then the child's location, a read of its own.     *)
SameKnownSite(s) ==
  seen[s] # None /\
  WhereIs(Visible(trips, s), Visible(nest, s), req[s].bin) = AtSite(seen[s])

ReadChild(s) ==
  /\ pc[s] = "child"
  /\ \/ /\ SameKnownSite(s)
        /\ Goto(s, "append")
        /\ UNCHANGED <<trips, nest, tripSeq, nestSeq, lock, txVars, crashes>>
     \/ ~SameKnownSite(s) /\ Refuse(s)

(* _insert_containment_event; an unpack then places the child, in the same *)
(* transaction, through record_event.                                      *)
AppendContainment(s) ==
  /\ pc[s] = "append"
  /\ nest' = nest \cup
       {[seq |-> nestSeq, by |-> s, kind |-> req[s].op, bin |-> req[s].bin,
         box |-> req[s].box, site |-> seen[s], key |-> req[s].key]}
  /\ nestSeq' = nestSeq + 1
  /\ \/ req[s].op = "pack" /\ Goto(s, "commit") /\ UNCHANGED ev
     \/ /\ req[s].op = "unpack"
        /\ ev' = [ev EXCEPT ![s] = UnpackPlace(req[s], seen[s])]
        /\ Goto(s, "prior")
  /\ UNCHANGED <<trips, tripSeq, lock, req, seen, plan, done, crashes>>

-------------------------------------------------------------------------------
Settle(table, s) == {[e EXCEPT !.by = IF @ = s THEN None ELSE @] : e \in table}

Commit(s) ==
  /\ pc[s] = "commit"
  /\ trips' = Settle(trips, s)
  /\ nest' = Settle(nest, s)
  /\ EndTransaction(s, "recorded")
  /\ UNCHANGED <<tripSeq, nestSeq, crashes>>

(* The connection is lost before the commit: the server rolls back.        *)
Crash(s) ==
  /\ pc[s] \in Busy
  /\ crashes < MaxCrashes
  /\ crashes' = crashes + 1
  /\ Rollback(s, "failed")

Step(s) ==
  \/ ReadPrior(s) \/ AcquireLock(s) \/ CheckTopLevel(s)
  \/ InsertEvent(s) \/ ReplayEvent(s)
  \/ VerifyPlacement(s) \/ ReadChecksum(s)
  \/ Validate(s) \/ ReadChild(s) \/ AppendContainment(s)
  \/ Commit(s)

(* No request is being served and no further one is made.                  *)
Rest == (\A s \in Sessions : pc[s] \in Resting) /\ UNCHANGED vars

Next ==
  \/ \E s \in Sessions, r \in Requests : Begin(s, r)
  \/ \E s \in Sessions : Step(s) \/ Crash(s)
  \/ Rest

Spec == Init /\ [][Next]_vars

(* A session that can execute its next statement does so: the calls run to *)
(* their end on their own.  Sessions waiting for the lock queue in order,  *)
(* so one that keeps finding it free gets it.                              *)
Fairness == \A s \in Sessions : WF_vars(Step(s)) /\ SF_vars(AcquireLock(s))

FairSpec == Spec /\ Fairness
-------------------------------------------------------------------------------
TripRows == [seq : Nat, by : Sessions \cup {None}, kind : EventKinds,
             bin : Bins \cup {None}, site : Sites \cup {None},
             trip : Trips \cup {None}, key : EventKeys]
NestRows == [seq : Nat, by : Sessions \cup {None}, kind : {"pack", "unpack"},
             bin : Bins, box : Bins, site : Sites \cup {None}, key : Keys]

TypeOK ==
  /\ trips \subseteq TripRows
  /\ nest \subseteq NestRows
  /\ tripSeq \in Nat
  /\ nestSeq \in Nat
  /\ lock \in Sessions \cup {None}
  /\ pc \in [Sessions -> Resting \cup Busy]
  /\ req \in [Sessions -> RequestType \cup {NoRequest}]
  /\ ev \in [Sessions -> Events \cup {NoEvent}]
  /\ seen \in [Sessions -> Sites \cup {None}]
  /\ plan \in [Sessions -> SUBSET Bins]
  /\ done \in [Sessions -> SUBSET Bins]
  /\ crashes \in 0..MaxCrashes

(* No transaction ever sees a containment ledger that fold_bin_containment *)
(* raises on.  One such committed row would make every bin_where, pack,    *)
(* move and passport of the scope fail for good: the ledger is append-only *)
(* and the fold reads all of it.                                           *)
FoldNeverRaises == \A s \in Sessions : FoldsCleanly(Visible(nest, s))

(* The plain INSERT of record_bin_containment cannot meet the unique       *)
(* index: under the lock, no row of any transaction has the key once the   *)
(* replay check found none.                                                *)
AppendKeyIsFresh ==
  \A s \in Sessions : pc[s] = "append" => RowsOf(nest, req[s].key) = {}

(* Every row meets the CHECK and NOT NULL constraints of its table, so an  *)
(* insert in the middle of a transaction does not fail on what an earlier  *)
(* statement read: a container in transit has no site to unpack at, a trip *)
(* without a destination no site to arrive at.                             *)
RowsMeetSchema ==
  /\ \A e \in trips : ValidEvent(e)
  /\ \A e \in nest : e.site # None

(* An unpack and the placement of its child are one fact: no committed     *)
(* state has one without the other, through crashes and retries.           *)
UnpackPlacesChild ==
  \A k \in Keys :
    LET unpacks == {e \in RowsOf(Committed(nest), k) : e.kind = "unpack"}
        places  == RowsOf(Committed(trips), <<"containment-unpack-place", k>>)
    IN  /\ unpacks = {} <=> places = {}
        /\ \A e \in unpacks, f \in places : e.bin = f.bin /\ e.site = f.site

NewRows(table, table2) == Committed(table2) \ Committed(table)

(* A place, load or arrive only ever becomes visible for a bin that is in  *)
(* no container at that moment, however a concurrent pack is interleaved   *)
(* with it (ADR 0003: "A contained bin cannot receive a direct place,      *)
(* load, or arrive event").                                                *)
ContainedNeverMoved ==
  [][\A e \in NewRows(trips, trips') :
       e.kind \in MoveKinds => ParentOf(Committed(nest'), e.bin) = None]_vars

(* What decides the location of b is a sighting, not a move.               *)
SightedLast(rows, b) ==
  \E e \in rows : Decides(rows, e, b) /\ e.kind \in SightingKinds

(* Child and container of a pack that commits are still at the site the    *)
(* pack was validated for, as far as moves are concerned: only a sighting, *)
(* which takes no lock, can have come between.                             *)
NoMoveSplitsPack ==
  [][\A e \in NewRows(nest, nest') : e.kind = "pack" =>
       \A b \in {e.bin, LocationSource(Committed(nest), e.box)} :
         \/ FoldBinLocation(Committed(trips), b) = AtSite(e.site)
         \/ SightedLast(Committed(trips), b)]_vars

Answered(s) == pc[s] \in Busy /\ pc'[s] \in {"recorded", "existed"}

(* A call answered as recorded or already existing is in the committed     *)
(* ledgers: a containment as that very action, a management placement at   *)
(* that very site, although their keys may be reused by other requests and *)
(* raced by a second submission of the same form.                          *)
AnswersAreTrue ==
  [][\A s \in Sessions : Answered(s) =>
       CASE req[s].op \in {"pack", "unpack"} ->
              \E e \in RowsOf(Committed(nest'), req[s].key) :
                e.kind = req[s].op /\ e.bin = req[s].bin /\ e.box = req[s].box
         [] req[s].op = "place_existing" ->
              \E e \in RowsOf(Committed(trips'), EventOf(req[s]).key) :
                e.bin = req[s].bin /\ e.site = req[s].site
         [] req[s].op = "event" ->
              RowsOf(Committed(trips'), EventOf(req[s]).key) # {}
         [] OTHER -> TRUE]_vars

(* arrive_all clears the trip it read: when it is answered, no bin that    *)
(* was unaccounted for at its checksum still is, in spite of other         *)
(* sessions loading, packing and arriving bins meanwhile.                  *)
ClearTripLeavesNone ==
  [][\A s \in Sessions : Answered(s) /\ req[s].op = "arrive_all" =>
       plan[s] \cap Unaccounted(Committed(trips'), req[s].trip) = {}]_vars

(* Every call is answered or fails: no session waits for ever for the lock *)
(* or for another session's row.                                           *)
EveryCallAnswered == \A s \in Sessions : pc[s] \in Busy ~> pc[s] \in Resting

-------------------------------------------------------------------------------
(* The inductive invariant behind the safety properties.                   *)

Recording   == {"event", "place_existing", "arrive_all", "unpack"}
Containing  == {"pack", "unpack"}

(* What each statement finds in its session's registers.                   *)
Registers(s) ==
  /\ pc[s] \in Resting => ev[s] = NoEvent /\ req[s] = NoRequest
  /\ pc[s] \in {"prior", "check", "insert"} =>
       ev[s] \in Events /\ req[s].op \in Recording
  /\ pc[s] = "lock" =>
       \/ ev[s] = NoEvent /\ req[s].op \in Containing
       \/ ev[s] \in Events /\ req[s].op \in Recording
  /\ pc[s] = "verify" => ev[s] \in Events /\ req[s].op = "place_existing"
  /\ pc[s] = "checksum" => req[s].op = "arrive_all"
  /\ pc[s] \in {"validate", "child", "append"} =>
       ev[s] = NoEvent /\ req[s].op \in Containing
  /\ pc[s] = "append" => seen[s] \in Sites
  /\ req[s].op \in Containing => req[s].bin # req[s].box
  /\ ev[s] \in Events => ValidEvent(ev[s])
  /\ req[s].op = "arrive_all" /\ ev[s] \in Events =>
       seen[s] \in Sites /\ ev[s].bin \in Bins

ControlInv == \A s \in Sessions : Registers(s)

TypeInv == TypeOK /\ RowsMeetSchema /\ ControlInv

(* A session between its lock statement and its write holds the lock.      *)
HoldsLock(s) ==
  pc[s] \in {"check", "validate", "child", "append"} => lock = s

(* Past its first write, a session records a move event or commits.        *)
Written(s) ==
  \/ pc[s] = "commit"
  \/ pc[s] \in {"prior", "lock", "check", "insert"} /\ ev[s] \in Events

(* Only the holder of the lock has uncommitted containment rows.           *)
PendingNest(s) ==
  (\E e \in nest : e.by = s) => lock = s /\ req[s].op \in Containing /\ Written(s)

(* What a session has validated is still so when it appends.               *)
Validated(s) ==
  /\ pc[s] = "child" => req[s].op = "pack"
  /\ pc[s] \in {"child", "append"} =>
       /\ RowsOf(nest, req[s].key) = {}
       /\ \/ req[s].op = "pack" /\ MayPack(s)
          \/ /\ req[s].op = "unpack"
             /\ ParentOf(Visible(nest, s), req[s].bin) = req[s].box

(* A move event about to be inserted is a replay, or its bin is top-level  *)
(* and cannot be packed; so is the bin of one that is not yet committed.   *)
Movable(s) ==
  pc[s] = "insert" /\ ev[s].kind \in MoveKinds =>
    \/ RowsOf(Visible(trips, s), ev[s].key) # {}
    \/ lock = s /\ ParentOf(nest, ev[s].bin) = None

PendingTrips(s) ==
  \A e \in trips : e.by = s =>
    /\ Written(s) /\ (pc[s] = "commit" \/ req[s].op = "arrive_all")
    /\ e.kind \in MoveKinds => lock = s /\ ParentOf(nest, e.bin) = None

SessionInv ==
  \A s \in Sessions : /\ HoldsLock(s) /\ PendingNest(s) /\ Validated(s)
                      /\ Movable(s) /\ PendingTrips(s)

(* Uncommitted containment rows are newer than all committed ones, and the *)
(* whole table folds.                                                      *)
NestInv ==
  /\ \A e \in nest : e.seq < nestSeq
  /\ \A e, f \in nest : e.by = None /\ f.by # None => e.seq < f.seq
  /\ FoldsCleanly(nest)

IInv == TypeInv /\ SessionInv /\ NestInv

-------------------------------------------------------------------------------
(* What the answers promise needs more: what a key tells of its row, and   *)
(* what each transaction has written so far.                               *)

(* The event that row e records.                                           *)
EventIn(e) ==
  [kind |-> e.kind, bin |-> e.bin, site |-> e.site, trip |-> e.trip, key |-> e.key]

(* Row f takes a bin out of its container, row e places it.                *)
Places(e, f) ==
  /\ f.kind = "unpack"
  /\ e.key = <<"containment-unpack-place", f.key>>
  /\ e.kind = "place" /\ e.bin = f.bin /\ e.site = f.site /\ e.by = f.by

(* A key the program derived names the request the row answers.            *)
KeyTells(e) ==
  /\ \A k \in Keys : e.key = <<"containment-unpack-place", k>> =>
       \E f \in nest : Places(e, f)
  /\ \A b \in Bins, k \in Keys : e.key = <<"binplace", b, k>> => e.bin = b
  /\ \A t \in Trips, b \in Bins, site \in Sites :
       e.key = <<"arrive-all", t, b, site>> =>
         e.kind = "arrive" /\ e.trip = t /\ e.bin = b

(* Identity values and keys are unique, in both tables, and only an unpack *)
(* that has not come to its commit lacks its placement.                    *)
RowInv ==
  /\ \A e \in trips : e.seq < tripSeq
  /\ \A e, f \in trips : e.seq = f.seq \/ e.key = f.key => e = f
  /\ \A e, f \in nest : e.seq = f.seq \/ e.key = f.key => e = f
  /\ \A e \in trips : KeyTells(e)
  /\ \A f \in nest : f.kind = "unpack" =>
       \/ \E e \in trips : Places(e, f)
       \/ f.by # None /\ pc[f.by] # "commit"

(* Session s records the event x, or may for one of these arrivals.        *)
Records(s, x, arrivals) ==
  \/ req[s].op \in {"event", "place_existing"} /\ x = EventOf(req[s])
  \/ req[s].op = "unpack" /\ x = UnpackPlace(req[s], seen[s])
  \/ /\ req[s].op = "arrive_all"
     /\ \E b \in arrivals : x = ArriveEvent(req[s].trip, b, seen[s])

(* A row of s in the table of containments says what s was asked.          *)
Contains(f, s) ==
  /\ f.kind = req[s].op /\ f.bin = req[s].bin /\ f.box = req[s].box
  /\ f.key = req[s].key /\ f.site = seen[s]

(* What s is about to record and what it has written.                      *)
Writes(s) ==
  /\ pc[s] # "commit" /\ ev[s] \in Events =>
       Records(s, ev[s], plan[s] \ done[s])
  /\ \A e \in trips : e.by = s => Records(s, EventIn(e), done[s])
  /\ \A f \in nest : f.by = s => Contains(f, s)
  /\ req[s].op = "unpack" /\ ev[s] \in Events => \E f \in nest : f.by = s

(* An arrive_all finds the arrivals it has passed.                         *)
Arrivals(s) ==
  /\ req[s].op # "arrive_all" \/ pc[s] = "checksum" => done[s] = {}
  /\ \A b \in done[s] :
       RowsOf(Visible(trips, s), <<"arrive-all", req[s].trip, b, seen[s]>>) # {}

(* A session that comes to its commit has written all it was asked.        *)
Complete(s) ==
  pc[s] = "commit" =>
    /\ req[s].op \in Recording \cup {"pack"}
    /\ req[s].op = "arrive_all" => plan[s] \subseteq done[s]
    /\ req[s].op \in {"event", "place_existing", "unpack"} =>
         \E e \in trips : e.by = s
    /\ req[s].op \in Containing => \E f \in nest : f.by = s

(* As far as moves go, bin b is still at the site.                         *)
Stands(b, site) ==
  \/ FoldBinLocation(Committed(trips), b) = AtSite(site)
  \/ SightedLast(Committed(trips), b)

(* A pack read the container's location, then the child's.                 *)
PackStands(s) ==
  req[s].op = "pack" =>
    /\ pc[s] \in {"child", "append", "commit"} /\ seen[s] # None =>
         Stands(LocationSource(Committed(nest), req[s].box), seen[s])
    /\ pc[s] \in {"append", "commit"} =>
         seen[s] # None /\ Stands(req[s].bin, seen[s])

TransactionInv ==
  \A s \in Sessions : Writes(s) /\ Arrivals(s) /\ Complete(s) /\ PackStands(s)

PromiseInv == IInv /\ RowInv /\ TransactionInv

-------------------------------------------------------------------------------
(* The ledgers implement the forest: what a reader folds from the          *)
(* committed rows changes only as InventoryForest allows.                  *)
Forest == INSTANCE InventoryForest WITH
  loc    <- [b \in Bins |-> FoldBinLocation(Committed(trips), b)],
  parent <- [b \in Bins |-> ParentOf(Committed(nest), b)]
ImplementsForest == Forest!Spec

-------------------------------------------------------------------------------
(* Statements of the documentation that the code does not keep.            *)

(* CONTEXT.md, "Retrieval outcome": "none relocates the bin".              *)
RetrievalNeverRelocates ==
  [][\A e \in NewRows(trips, trips') : e.kind \in RetrievalKinds =>
       FoldBinLocation(Committed(trips'), e.bin) =
         FoldBinLocation(Committed(trips), e.bin)]_vars
===============================================================================
