------------------------------- MODULE StashRuns -------------------------------
(***************************************************************************)
(* A stash run: a batch of items is routed (record_stash_run), the owner   *)
(* decides over each receipt on the deck (record_stash_decision) or founds *)
(* a bin from what fits nowhere (found_bin_from_cluster), and walks the    *)
(* wave of destinations (complete_wave_stop): bin_stash.py,                *)
(* bin_placement.py, personal_memory.py and bin_photo_web/stash.py.        *)
(*                                                                         *)
(* A session is a database connection without autocommit and each of its   *)
(* READ COMMITTED statements is a step.  A row carries in `by` the session *)
(* whose open transaction wrote it, or None.                               *)
(***************************************************************************)
EXTENDS PlacementFeedback, SequencesExt

CONSTANTS Starts,     \* forms of the start page: [run, items], any number of times
          Foundings,  \* proposals of the quorum page: [receipts, bin]
          Sessions,
          Agenda,     \* bound: the kinds of the first, second, ... request
          MaxCrashes  \* bound: connections or processes lost in a call

Runs == {f.run : f \in Starts}   \* identities: the action id of the form
Batches == Seq(Items) \ {<<>>}

(* A receipt is named by its run and its position in the batch.            *)
ReceiptIds == Runs \X (Nat \ {0})

Taps == [op : {"decide"}, receipt : ReceiptIds, selected : Codes \cup {None},
         kind : {"accept", "override", "reject", "not_an_item"}]
RequestType ==
  [op : {"start"}, run : Runs, items : Batches]
    \cup Taps
    \cup [op : {"found"}, receipts : Seq(ReceiptIds) \ {<<>>}, bin : NewCodes]
    \cup [op : {"stop"}, run : Runs, bin : Codes]
Kinds == {"start", "accept", "override", "reject", "not_an_item", "found", "stop"}
KindOf(r) == IF r.op = "decide" THEN r.kind ELSE r.op
NoRequest == [op |-> "none"]

ASSUME StashAssumption ==
  /\ None \notin Codes \cup Sessions \cup Items
  /\ Bins \cap NewCodes = {}
  /\ Starts \subseteq [run : Runs, items : Batches]
  /\ Foundings \subseteq [receipts : Seq(ReceiptIds) \ {<<>>}, bin : NewCodes]
  /\ \A item \in Items : IsFiniteSet(Tokens[item])
  /\ Agenda \in Seq(SUBSET Kinds)
  /\ MaxCrashes \in Nat

VARIABLES runs,      \* stash_runs
          receipts,  \* bin_routing_requests
          decisions, \* bin_placement_decisions
          seq,       \* next identity value of bin_placement_decisions
          stops,     \* capture_evidence, wave stops only
          clock,     \* requests begun: the time of day
          pc, req,
          when,      \* received_at of the request
          index,     \* the item or receipt a loop is at
          rec,       \* the recommendation just computed
          text,      \* the text made for a stop
          dated,     \* whether the stop was found on file, with its time
          told,      \* answers given
          crashes

vars == <<runs, receipts, decisions, seq, stops, clock, pc, req, when, index, rec,
          text, dated, told, crashes>>
tables == <<runs, receipts, decisions, seq, stops>>
locals == <<req, when, index, rec, text, dated>>

Committed(table)  == {e \in table : e.by = None}
Visible(table, s) == {e \in table : e.by \in {None, s}}

ReceiptOf(id) == CHOOSE r \in receipts : r.id = id
Header(run)   == CHOOSE h \in runs : h.run = run

(* The decisions a unique key makes one: `<receipt>-accept`, -reject,      *)
(* -notitem, -alt-<bin>, and `quorum:<code>:<receipt>`.                    *)
SameAction(receipt, kind, selected) ==
  {d \in decisions : d.receipt = receipt /\ d.kind = kind /\ d.selected = selected}

(* The latest decision over a receipt, if any, in the order of appending.  *)
LatestOver(receipt, ds) ==
  {d \in ds : d.receipt = receipt /\
     \A e \in ds : e.receipt = receipt => e.seq <= d.seq}

(* _placed_items: the positions of the items the latest decisions place.   *)
PlacedItems(run, bin, ds) ==
  {i \in DOMAIN Header(run).items :
     \E d \in LatestOver(<<run, i>>, ds) : d.kind \in Placing /\ d.selected = bin}

(* The text of a stop: these items joined in order, as its numbered parts. *)
TextOf(run, placed) ==
  {<<Cardinality(placed \cap 1..i), Header(run).items[i]>> : i \in placed}

OnFile(table, run, bin) == {e \in table : e.run = run /\ e.bin = bin}

-------------------------------------------------------------------------------
Init ==
  /\ runs = {} /\ receipts = {} /\ decisions = {} /\ seq = 1 /\ stops = {}
  /\ clock = 0
  /\ pc = [s \in Sessions |-> "idle"]
  /\ req = [s \in Sessions |-> NoRequest]
  /\ when = [s \in Sessions |-> 0]
  /\ index = [s \in Sessions |-> 0]
  /\ rec = [s \in Sessions |-> None]
  /\ text = [s \in Sessions |-> {}]
  /\ dated = [s \in Sessions |-> FALSE]
  /\ told = {}
  /\ crashes = 0

Goto(s, label) == pc' = [pc EXCEPT ![s] = label]

(* The call returns or raises: its locals are gone.                        *)
Return(s) ==
  /\ Goto(s, "idle")
  /\ req' = [req EXCEPT ![s] = NoRequest]
  /\ when' = [when EXCEPT ![s] = 0]
  /\ index' = [index EXCEPT ![s] = 0]
  /\ rec' = [rec EXCEPT ![s] = None]
  /\ text' = [text EXCEPT ![s] = {}]
  /\ dated' = [dated EXCEPT ![s] = FALSE]

Tell(answer) == told' = told \cup {answer}

(* The transaction of s is undone, and its call fails.                     *)
Rollback(s) ==
  /\ receipts' = {e \in receipts : e.by # s}
  /\ decisions' = {e \in decisions : e.by # s}
  /\ stops' = {e \in stops : e.by # s}
  /\ Return(s)
  /\ UNCHANGED <<runs, seq, clock, told>>

Fail(s) == Rollback(s) /\ UNCHANGED crashes

-------------------------------------------------------------------------------
(* A form is submitted.  The deck deals a card per receipt on file: its    *)
(* recommendation to accept, other bins to override it with.               *)
DeckOffers(r) ==
  [op : {"decide"}, receipt : {r.id}, selected : {r.rec} \ {None}, kind : {"accept"}]
    \cup [op : {"decide"}, receipt : {r.id}, selected : Bins \ {r.rec},
          kind : {"override"}]
    \cup [op : {"decide"}, receipt : {r.id}, selected : {None},
          kind : {"reject", "not_an_item"}]

(* load_orphans: the quorum page proposes receipts without a               *)
(* recommendation that nobody had placed when it was drawn.                *)
Orphans == {r.id : r \in {e \in Committed(receipts) : e.rec = None}}

QuorumForms ==
  {[op |-> "found", receipts |-> f.receipts, bin |-> f.bin] :
     f \in {g \in Foundings : ToSet(g.receipts) \subseteq Orphans}}

StartForms == {[op |-> "start", run |-> f.run, items |-> f.items] : f \in Starts}
DeckForms == UNION {DeckOffers(r) : r \in Committed(receipts)}
WaveForms == {[op |-> "stop", run |-> h.run, bin |-> b] : h \in runs, b \in Codes}

Requests == StartForms \cup DeckForms \cup QuorumForms \cup WaveForms

FirstStep(op) ==
  CASE op = "start"  -> "header"
    [] op = "decide" -> "decide"
    [] op = "found"  -> "found"
    [] op = "stop"   -> "placed"

Begin(s, r) ==
  /\ pc[s] = "idle"
  /\ clock < Len(Agenda) /\ KindOf(r) \in Agenda[clock + 1]
  /\ clock' = clock + 1
  /\ req' = [req EXCEPT ![s] = r]
  /\ when' = [when EXCEPT ![s] = 2 * clock']
  /\ index' = [index EXCEPT ![s] = 1]
  /\ Goto(s, FirstStep(r.op))
  /\ UNCHANGED <<tables, rec, text, dated, told, crashes>>

-------------------------------------------------------------------------------
(* The header is inserted in a transaction block on an idle connection,    *)
(* which commits at its end.                                               *)
InsertHeader(s) ==
  /\ pc[s] = "header"
  /\ \/ /\ ~\E h \in runs : h.run = req[s].run
        /\ runs' = runs \cup {[run |-> req[s].run, items |-> req[s].items]}
        /\ Goto(s, "route")
     \/ /\ \E h \in runs : h.run = req[s].run
        /\ Goto(s, "replay")
        /\ UNCHANGED runs
  /\ UNCHANGED <<receipts, decisions, seq, stops, clock, locals, told, crashes>>

(* _existing_stash_run                                                     *)
ReadReceipts(s) ==
  /\ pc[s] = "replay"
  /\ Tell([op |-> "start", run |-> req[s].run,
           listed |-> {r.id[2] : r \in {e \in Visible(receipts, s) :
                                          e.id[1] = req[s].run}}])
  /\ Return(s)
  /\ UNCHANGED <<tables, clock, crashes>>

(* bin_route: the decisions are read and the item is routed; the open      *)
(* transaction holds from here to the end of the call.                     *)
RouteItem(s) ==
  /\ pc[s] = "route"
  /\ \E b \in Recommendations(req[s].items[index[s]], Visible(decisions, s)) :
       rec' = [rec EXCEPT ![s] = b]
  /\ Goto(s, "receipt")
  /\ UNCHANGED <<tables, clock, req, when, index, text, dated, told, crashes>>

(* Slip: positions counted from zero, as the receipts' keys count them.     *)
ReceiptFromZero(s, writer) ==
  [id |-> <<req[s].run, index[s] - 1>>, item |-> req[s].items[index[s]],
   rec |-> rec[s], by |-> writer]

Receipt(s, writer) ==
  [id |-> <<req[s].run, index[s]>>, item |-> req[s].items[index[s]],
   rec |-> rec[s], by |-> writer]

NextItem(s) ==
  /\ index' = [index EXCEPT ![s] = @ + 1]
  /\ rec' = [rec EXCEPT ![s] = None]
  /\ Goto(s, IF index[s] = Len(req[s].items) THEN "commit" ELSE "route")
  /\ UNCHANGED <<runs, decisions, seq, stops, clock, req, when, text, dated, told,
                 crashes>>

(* Slip: each receipt is committed on its own.                              *)
InsertReceiptAlone(s) ==
  /\ pc[s] = "receipt"
  /\ receipts' = receipts \cup {Receipt(s, None)}
  /\ NextItem(s)

InsertReceipt(s) ==
  /\ pc[s] = "receipt"
  /\ receipts' = receipts \cup {Receipt(s, s)}
  /\ NextItem(s)

-------------------------------------------------------------------------------
(* record_placement_decision: a row, unless one with this key is on file;  *)
(* the insert waits for a transaction that has inserted the same key.      *)
AppendDecision(s, receipt, kind, selected, at, writer) ==
  LET old == SameAction(receipt, kind, selected)
      r   == ReceiptOf(receipt)
  IN
  /\ \A d \in old : d.by \in {None, s}
  /\ \/ /\ old = {}
        /\ decisions' = decisions \cup
             {[seq |-> seq, receipt |-> receipt, item |-> r.item, kind |-> kind,
               rec |-> r.rec, selected |-> selected, at |-> at, by |-> writer]}
        /\ seq' = seq + 1
     \/ old # {} /\ UNCHANGED <<decisions, seq>>

Decide(s) ==
  /\ pc[s] = "decide"
  /\ AppendDecision(s, req[s].receipt, req[s].kind, req[s].selected, when[s], s)
  /\ Goto(s, "commit")
  /\ UNCHANGED <<runs, receipts, stops, clock, locals, told, crashes>>

FoundNext(s, writer) ==
  /\ pc[s] = "found"
  /\ AppendDecision(s, req[s].receipts[index[s]], "create_new_bin", req[s].bin,
                    2 * clock + 1, writer)
  /\ index' = [index EXCEPT ![s] = @ + 1]
  /\ Goto(s, IF index[s] = Len(req[s].receipts) THEN "commit" ELSE "found")
  /\ UNCHANGED <<runs, receipts, stops, clock, req, when, rec, text, dated, told,
                 crashes>>

(* Slip: each founding decision is committed on its own.                    *)
FoundOneByOne(s) == FoundNext(s, None)

(* found_bin_from_cluster: one decision per receipt, each with the time at *)
(* which it is made, after those of the requests begun so far.             *)
Found(s) == FoundNext(s, s)

-------------------------------------------------------------------------------
(* complete_wave_stop                                                      *)
ReadPlaced(s) ==
  LET placed == PlacedItems(req[s].run, req[s].bin, Visible(decisions, s)) IN
  /\ pc[s] = "placed"
  /\ \/ /\ placed # {}
        /\ text' = [text EXCEPT ![s] = TextOf(req[s].run, placed)]
        /\ Goto(s, "time")
        /\ UNCHANGED <<tables, clock, req, when, index, rec, dated, told, crashes>>
     \/ placed = {} /\ Fail(s)

(* _stable_wave_time: the time on file, or else the present one, which no  *)
(* stop on file has.                                                       *)
ReadWaveTime(s) ==
  /\ pc[s] = "time"
  /\ dated' = [dated EXCEPT ![s] =
                 OnFile(Visible(stops, s), req[s].run, req[s].bin) # {}]
  /\ Goto(s, "lookup")
  /\ UNCHANGED <<tables, clock, req, when, index, rec, text, told, crashes>>

(* Slip: whatever is on file for the stop will do.                          *)
AnyPayload(e, s) == TRUE

(* The stop on file has the text and the time of this one.                 *)
SamePayload(e, s) == e.text = text[s] /\ dated[s]

StopDone(s) ==
  [op |-> "stop", run |-> req[s].run, bin |-> req[s].bin, text |-> text[s]]

(* PersonalMemoryService.capture                                           *)
LookUpStop(s) ==
  LET old == OnFile(Visible(stops, s), req[s].run, req[s].bin) IN
  /\ pc[s] = "lookup"
  /\ \/ /\ old = {}
        /\ Goto(s, "insert")
        /\ UNCHANGED <<tables, clock, locals, told, crashes>>
     \/ \E e \in old : /\ SamePayload(e, s)
                       /\ Tell(StopDone(s))
                       /\ Return(s)
                       /\ UNCHANGED <<tables, clock, crashes>>
     \/ (\E e \in old : ~SamePayload(e, s)) /\ Fail(s)

(* The plain INSERT waits for a transaction that has inserted the same key *)
(* and violates the unique index if that one has committed since.          *)
InsertStop(s) ==
  /\ pc[s] = "insert"
  /\ \/ /\ OnFile(stops, req[s].run, req[s].bin) = {}
        /\ stops' = stops \cup {[run |-> req[s].run, bin |-> req[s].bin,
                                 text |-> text[s], by |-> s]}
        /\ Goto(s, "commit")
        /\ UNCHANGED <<runs, receipts, decisions, seq, clock, locals, told, crashes>>
     \/ OnFile(Committed(stops), req[s].run, req[s].bin) # {} /\ Fail(s)

-------------------------------------------------------------------------------
Settle(table, s) == {[e EXCEPT !.by = IF @ = s THEN None ELSE @] : e \in table}

Answer(s) ==
  CASE req[s].op = "start"  -> {[op |-> "start", run |-> req[s].run,
                                 listed |-> DOMAIN req[s].items]}
    [] req[s].op = "decide" -> {}
    [] req[s].op = "found"  -> {req[s]}
    [] req[s].op = "stop"   -> {StopDone(s)}

Commit(s) ==
  /\ pc[s] = "commit"
  /\ receipts' = Settle(receipts, s)
  /\ decisions' = Settle(decisions, s)
  /\ stops' = Settle(stops, s)
  /\ told' = told \cup Answer(s)
  /\ Return(s)
  /\ UNCHANGED <<runs, seq, clock, crashes>>

(* The connection or the process is lost in the middle of a call.          *)
Crash(s) ==
  /\ pc[s] # "idle"
  /\ crashes < MaxCrashes
  /\ crashes' = crashes + 1
  /\ Rollback(s)

Step(s) ==
  \/ InsertHeader(s) \/ ReadReceipts(s) \/ RouteItem(s) \/ InsertReceipt(s)
  \/ Decide(s) \/ Found(s)
  \/ ReadPlaced(s) \/ ReadWaveTime(s) \/ LookUpStop(s) \/ InsertStop(s)
  \/ Commit(s)

Rest == (\A s \in Sessions : pc[s] = "idle") /\ UNCHANGED vars

Next ==
  \/ \E s \in Sessions : \E r \in Requests : Begin(s, r)
  \/ \E s \in Sessions : Step(s) \/ Crash(s)
  \/ Rest

Spec == Init /\ [][Next]_vars

-------------------------------------------------------------------------------
Labels == {"idle", "header", "replay", "route", "receipt", "decide", "found",
           "placed", "time", "lookup", "insert", "commit"}

ReceiptRows == [id : ReceiptIds, item : Items, rec : Bins \cup {None},
                by : Sessions \cup {None}]
DecisionRows == [seq : Nat, receipt : ReceiptIds, item : Items, kind : DecisionKinds,
                 rec : Bins \cup {None}, selected : Codes \cup {None}, at : Nat,
                 by : Sessions \cup {None}]

Texts == SUBSET (Nat \X Items)
Answers == [op : {"start"}, run : Runs, listed : SUBSET Nat]
             \cup [op : {"stop"}, run : Runs, bin : Codes, text : Texts]
             \cup [op : {"found"}, receipts : Seq(ReceiptIds) \ {<<>>}, bin : NewCodes]

TypeOK ==
  /\ runs \subseteq [run : Runs, items : Batches]
  /\ receipts \subseteq ReceiptRows
  /\ decisions \subseteq DecisionRows
  /\ seq \in Nat
  /\ stops \subseteq [run : Runs, bin : Codes, text : Texts,
                      by : Sessions \cup {None}]
  /\ clock \in Nat
  /\ pc \in [Sessions -> Labels]
  /\ req \in [Sessions -> RequestType \cup {NoRequest}]
  /\ when \in [Sessions -> Nat]
  /\ index \in [Sessions -> Nat]
  /\ rec \in [Sessions -> Bins \cup {None}]
  /\ text \in [Sessions -> Texts]
  /\ dated \in [Sessions -> BOOLEAN]
  /\ told \subseteq Answers
  /\ crashes \in Nat

(* "each receipt's key derives from the run handle plus the item's batch   *)
(* position" (record_stash_run): a run on file has a receipt for each of   *)
(* its items and no other, or none at all, wherever a call ended.          *)
ReceiptsAllOrNone ==
  \A h \in runs :
    LET rows == {r \in Committed(receipts) : r.id[1] = h.run} IN
    \/ rows = {}
    \/ /\ {r.id[2] : r \in rows} = DOMAIN h.items
       /\ \A r \in rows : r.item = h.items[r.id[2]]
       /\ \A r, q \in rows : r.id = q.id => r = q

(* "Stop recorded - the items joined the bin's contents history": what the *)
(* owner is told of a stop, at first or by a replay, is on file with the   *)
(* very items the wave had for it.                                         *)
StopAnswersAreTrue ==
  \A t \in told : t.op = "stop" =>
    \E e \in Committed(stops) : e.run = t.run /\ e.bin = t.bin /\ e.text = t.text

Founders(bin) ==
  {d.receipt : d \in {e \in Committed(decisions) :
                        e.kind = "create_new_bin" /\ e.selected = bin}}

(* "The decisions are the bin's birth certificate: every founding item     *)
(* links to the new code": the founders of a bin are those of whole        *)
(* proposals, and of every proposal the owner was told is founded.         *)
FoundingIsWhole ==
  \A bin \in NewCodes :
    LET whole == {f \in Foundings : f.bin = bin /\ ToSet(f.receipts) \subseteq Founders(bin)}
    IN  /\ Founders(bin) = UNION {ToSet(f.receipts) : f \in whole}
        /\ \A t \in told : t.op = "found" /\ t.bin = bin =>
             ToSet(t.receipts) \subseteq Founders(bin)

(* The owner's last word on an item and a bin, in the order of deciding,   *)
(* told from the decisions themselves.                                     *)
Concerns(d, item, bin) ==
  /\ d.item = item
  /\ d.selected = bin \/ (d.kind \in {"override", "reject"} /\ d.rec = bin)
LastWord(item, bin, ds) ==
  {d \in ds : Concerns(d, item, bin) /\
     \A e \in ds : Concerns(e, item, bin) => ~Later(e, d)}

(* An override "suppresses that now-wrong recommendation, so it cannot win *)
(* again next time" (_directives_for_decision): no item is routed to a bin *)
(* out of which the owner's last word put it.                              *)
OverruledNeverReturns ==
  [][\A s \in Sessions :
       pc[s] = "route" /\ rec'[s] # None =>
         LET item == req[s].items[index[s]] IN
         \A d \in LastWord(item, rec'[s], Committed(decisions)) :
           d.kind \in Placing /\ d.selected = rec'[s]]_vars

(* "an item cannot be simultaneously accepted into two bins"               *)
(* (group_winners_by_identity), nor accepted into a bin that excludes it.  *)
FeedbackNamesOneBin ==
  \A c, d \in Surviving(Committed(decisions)) :
    /\ c.item = d.item /\ c.kind = "accept" /\ d.kind = "accept" => c.bin = d.bin
    /\ c.item = d.item /\ c.bin = d.bin => c.kind = d.kind

-------------------------------------------------------------------------------
(* The inductive invariant behind the safety properties.                   *)

OnFileReceipt(id) == \E r \in Committed(receipts) : r.id = id

(* What each statement finds in its session's registers.                   *)
Registers(s) ==
  /\ pc[s] = "idle" <=> req[s] = NoRequest
  /\ pc[s] \in {"header", "replay", "route", "receipt"} => req[s].op = "start"
  /\ pc[s] = "header" => index[s] = 1
  /\ pc[s] \in {"route", "receipt"} => index[s] \in DOMAIN req[s].items
  /\ pc[s] = "decide" => req[s].op = "decide" /\ OnFileReceipt(req[s].receipt)
  /\ pc[s] = "found" =>
       /\ req[s].op = "found" /\ index[s] \in DOMAIN req[s].receipts
       /\ \A i \in DOMAIN req[s].receipts : OnFileReceipt(req[s].receipts[i])
  /\ pc[s] \in {"placed", "time", "lookup", "insert"} => req[s].op = "stop"
  /\ pc[s] = "placed" => \E h \in runs : h.run = req[s].run

TypeInv == TypeOK /\ \A s \in Sessions : Registers(s)

(* A session that writes the receipts of a run is the one that filed its   *)
(* header, has it for itself, and has come as far as its index says.       *)
Making(s) == req[s].op = "start" /\ pc[s] \in {"route", "receipt", "commit"}

BatchSoFar(s) ==
  /\ [run |-> req[s].run, items |-> req[s].items] \in runs
  /\ \A r \in receipts : r.id[1] = req[s].run =>
       r.by = s /\ r.id[2] \in 1..(index[s] - 1) /\ r.item = req[s].items[r.id[2]]
  /\ \A i \in 1..(index[s] - 1) : \E r \in receipts : r.id = <<req[s].run, i>>
  /\ pc[s] = "commit" => index[s] = Len(req[s].items) + 1

BatchInv ==
  /\ \A g, h \in runs : g.run = h.run => g = h
  /\ \A q, r \in receipts : q.id = r.id => q = r
  /\ \A r \in receipts : \E h \in runs : h.run = r.id[1]
  /\ \A r \in receipts : r.by # None => Making(r.by) /\ r.id[1] = req[r.by].run
  /\ \A s \in Sessions : Making(s) => BatchSoFar(s)
  /\ \A s, t \in Sessions :
       Making(s) /\ Making(t) /\ req[s].run = req[t].run => s = t

(* A stop about to be committed is its session's own.                      *)
StopInv ==
  /\ \A e \in stops : e.by # None =>
       /\ pc[e.by] = "commit" /\ req[e.by].op = "stop"
  /\ \A s \in Sessions : pc[s] = "commit" /\ req[s].op = "stop" =>
       \E e \in stops : /\ e.run = req[s].run /\ e.bin = req[s].bin
                        /\ e.text = text[s] /\ e.by = s

(* Founding decisions are those of proposals; an open transaction has made *)
(* or found those its loop has passed.                                     *)
FoundingSoFar(s) ==
  /\ [receipts |-> req[s].receipts, bin |-> req[s].bin] \in Foundings
  /\ \A i \in DOMAIN req[s].receipts : pc[s] = "commit" \/ i < index[s] =>
       \E d \in Visible(decisions, s) :
         /\ d.kind = "create_new_bin" /\ d.selected = req[s].bin
         /\ d.receipt = req[s].receipts[i]

DecisionInv ==
  /\ \A d \in decisions : d.seq < seq
  /\ \A d, e \in decisions : d.seq = e.seq => d = e
  /\ \A d \in decisions : d.by # None /\ d.kind = "create_new_bin" =>
       /\ req[d.by].op = "found" /\ d.selected = req[d.by].bin
       /\ d.receipt \in ToSet(req[d.by].receipts)
  /\ \A s \in Sessions : req[s].op = "found" => FoundingSoFar(s)

(* What the router needs: only a decision or a founding has decisions that *)
(* are not committed, a refusal selects no bin, and a recommendation is    *)
(* held only until its receipt is written.                                 *)
RouterInv ==
  /\ \A d \in decisions : d.by # None => req[d.by].op \in {"decide", "found"}
  /\ \A d \in decisions : d.kind \in {"reject", "not_an_item"} => d.selected = None
  /\ \A s \in Sessions :
       /\ req[s].op = "decide" /\ req[s].kind \in {"reject", "not_an_item"}
            => req[s].selected = None
       /\ pc[s] # "receipt" => rec[s] = None

IInv ==
  /\ TypeInv /\ BatchInv /\ StopInv /\ DecisionInv /\ RouterInv
  /\ ReceiptsAllOrNone /\ StopAnswersAreTrue /\ FoundingIsWhole

-------------------------------------------------------------------------------
(* Statements of the documentation that the code does not keep.            *)

(* record_stash_run: the "same input or explicit key returns the original  *)
(* run and its receipts".                                                  *)
ReplayReturnsReceipts ==
  \A t \in told : t.op = "start" => t.listed = DOMAIN Header(t.run).items
================================================================================
