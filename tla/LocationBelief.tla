---------------------------- MODULE LocationBelief ----------------------------
(***************************************************************************)
(* Where the program believes the bins are, while the owner moves, packs,  *)
(* misses and photographs them and the harvesters go through the photos:   *)
(* harvest_photo_gps (bin_harvest.py), one transaction, and                *)
(* harvest_peripheral_ocr (bin_ocr_harvest.py), autocommit.                *)
(*                                                                         *)
(* The owner's calls are atomic here; InventoryLedger has them statement   *)
(* by statement.  A harvester's pass is a step per statement.  A row or    *)
(* observation carries in `by` the pass whose open transaction wrote it.   *)
(* The clock tells the order of the owner's calls and photos.  A row need  *)
(* not be dated by it: the owner may name a date (cli.py, --occurred-at),  *)
(* and the default is read before the lock is waited for                   *)
(* (bin_inventory.py:692).                                                 *)
(***************************************************************************)
EXTENDS BeliefFold

CONSTANTS Passes,        \* harvester processes
          SourceOf,      \* the source each harvests
          Autocommit,    \* those that commit each statement
          Fixes,         \* the GPS fixes a photo may carry
          Dates,         \* the dates a row may carry other than the present
          MaxTripSeq,    \* bound: identity values of the trip ledger
          MaxNestSeq,    \* bound: rows of the containment ledger
          MaxCaptures,   \* bound: photos
          MaxClock,      \* bound: instants
          MaxPasses,     \* bound: passes started
          MaxCrashes     \* bound: passes killed

ASSUME HarvestAssumption ==
  /\ None \notin Passes
  /\ SourceOf \in [Passes -> Sources]
  /\ Autocommit \subseteq Passes
  /\ Fixes \subseteq [inside : SUBSET Sites, loose : BOOLEAN]
  /\ Dates \subseteq Nat
  /\ Home = [b \in Bins |-> None]
  /\ {MaxTripSeq, MaxNestSeq, MaxCaptures, MaxClock, MaxPasses, MaxCrashes}
       \subseteq Nat

VARIABLES clock,
          trips,     \* bin_trip_events, each row with its occurred_at
          tripSeq,   \* the next identity value
          nest,      \* bin_containment_events
          captures,  \* photos of bins: the label, the codes in view, the fix
          obs,       \* location_observation
          pc,        \* what each pass does next
          todo,      \* the pairs of capture and code it has yet to harvest
          trusted,   \* whether it may shock: read once, when it starts
          item,      \* the pair at hand
          passes, crashes

vars == <<clock, trips, tripSeq, nest, captures, obs, pc, todo, trusted, item,
          passes, crashes>>
ledgers == <<trips, tripSeq, nest>>
passVars == <<pc, todo, trusted, item, passes, crashes>>

NoItem == <<>>

Visible(rows, p) == {r \in rows : r.by \in {None, p}}
Committed(rows)  == {r \in rows : r.by = None}
Parents          == {b \in Bins : ParentOf(nest, b) # None}
Where(b)         == WhereIs(Committed(trips), nest, b)

Init ==
  /\ clock = 1 /\ trips = {} /\ tripSeq = 1 /\ nest = {}
  /\ captures = {} /\ obs = {}
  /\ pc = [p \in Passes |-> "idle"]
  /\ todo = [p \in Passes |-> {}]
  /\ trusted = [p \in Passes |-> FALSE]
  /\ item = [p \in Passes |-> NoItem]
  /\ passes = 0 /\ crashes = 0

-------------------------------------------------------------------------------
(* The owner.                                                              *)
Row(kind, b, site, t, at) ==
  [seq |-> tripSeq, kind |-> kind, bin |-> b, site |-> site, trip |-> t,
   at |-> at, key |-> <<>>, by |-> None]

Record(row) ==
  /\ tripSeq <= MaxTripSeq /\ clock < MaxClock
  /\ trips' = trips \cup {row}
  /\ tripSeq' = tripSeq + 1
  /\ clock' = clock + 1
  /\ UNCHANGED <<captures, obs, passVars>>

Place(b, site, at) ==
  b \notin Parents /\ Record(Row("place", b, site, None, at)) /\ UNCHANGED nest

Load(b, t, at) ==
  b \notin Parents /\ Record(Row("load", b, None, t, at)) /\ UNCHANGED nest

(* A verdict on the site the bin is claimed to be at: confirm, not_found,  *)
(* fetch or browse.                                                        *)
Verify(b, kind, at) ==
  /\ Where(b).status = "at_site"
  /\ Record(Row(kind, b, Where(b).site, None, at))
  /\ UNCHANGED nest

Nested(kind, b, c) ==
  nest' = nest \cup {[seq |-> Cardinality(nest) + 1, kind |-> kind, bin |-> b, box |-> c]}

Pack(b, c) ==
  /\ Cardinality(nest) < MaxNestSeq
  /\ b # c /\ b \notin Parents /\ b \notin PathFor(nest, c)
  /\ Where(b).status = "at_site" /\ Where(b) = Where(c)
  /\ Nested("pack", b, c)
  /\ clock < MaxClock /\ clock' = clock + 1
  /\ UNCHANGED <<trips, tripSeq, captures, obs, passVars>>

(* The derived place row is part of the unpack.                            *)
Unpack(b, at) ==
  LET c == ParentOf(nest, b) IN
  /\ Cardinality(nest) < MaxNestSeq
  /\ c # None /\ Where(c).status = "at_site"
  /\ Nested("unpack", b, c)
  /\ Record(Row("place", b, Where(c).site, None, at))

(* A photo of a bin's label, with other labels perhaps in view and the fix *)
(* of the phone, good or bad.  For the properties only, `upTo` and         *)
(* `served` record which rows of the ledger there were and what bin_where  *)
(* answered at that moment.                                                *)
Photograph(b, others, fix) ==
  /\ Cardinality(captures) < MaxCaptures /\ clock < MaxClock
  /\ captures' = captures \cup
       {[id |-> clock, bin |-> b, codes |-> {b} \cup others, fix |-> fix,
         upTo |-> tripSeq, served |-> [x \in Bins |-> Where(x)], packed |-> Parents]}
  /\ clock' = clock + 1
  /\ UNCHANGED <<ledgers, obs, passVars>>

-------------------------------------------------------------------------------
(* resolve_site abstains on a loose fix and on overlapping fences.         *)
ResolveSite(fix) ==
  IF ~fix.loose /\ \E s \in Sites : fix.inside = {s}
    THEN CHOOSE s \in Sites : fix.inside = {s}
    ELSE None

(* What a pass will go through: the GPS harvester the label of each photo, *)
(* the OCR harvester every known code in view.                             *)
CodesOf(p, c) ==
  IF p \in Autocommit
    THEN {b \in c.codes : Known(Committed(trips), b) \/ \E d \in captures : d.bin = b}
    ELSE {c.bin}

Work(p) ==
  UNION {{<<c, b>> : b \in CodesOf(p, c)} :
           c \in {d \in captures : ResolveSite(d.fix) # None}}

Reliability(source) ==
  ReliabilityOf(Committed(trips), Committed(obs), source)

StartPass(p) ==
  /\ pc[p] = "idle" /\ passes < MaxPasses /\ Work(p) # {}
  /\ passes' = passes + 1
  /\ todo' = [todo EXCEPT ![p] = Work(p)]
  /\ trusted' = [trusted EXCEPT ![p] = Trusted(Reliability(SourceOf[p]))]
  /\ pc' = [pc EXCEPT ![p] = "observe"]
  /\ UNCHANGED <<clock, ledgers, captures, obs, item, crashes>>

(* Slip: the keys name the moment of the pass, not the capture.             *)
EvidenceKeyOfPass(p, x) == <<SourceOf[p], clock, x[2]>>

(* f"photo-gps:{external_id}", f"peripheral-ocr:{external_id}:{code}"      *)
EvidenceKey(p, x) == <<SourceOf[p], x[1].id, x[2]>>

(* A row that pass p writes is its own until its transaction commits.      *)
Writer(p) == IF p \in Autocommit THEN None ELSE p

Observation(p, x) ==
  [key |-> EvidenceKey(p, x), source |-> SourceOf[p], ref |-> x[1].id,
   bin |-> x[2], site |-> ResolveSite(x[1].fix), at |-> x[1].id, by |-> Writer(p)]

(* An insert ON CONFLICT DO NOTHING waits for another's uncommitted row.   *)
Free(rows, key, p) == \A r \in rows : r.key = key => r.by \in {None, p}
Taken(rows, key)   == \E r \in rows : r.key = key

Advance(p) ==
  /\ todo' = [todo EXCEPT ![p] = @ \ {item[p]}]
  /\ item' = [item EXCEPT ![p] = NoItem]
  /\ pc' = [pc EXCEPT ![p] = IF todo[p] # {item[p]} THEN "observe"
                             ELSE IF p \in Autocommit THEN "idle" ELSE "commit"]

(* The next capture, in the order of import, and record_observation.       *)
Observe(p) ==
  /\ pc[p] = "observe"
  /\ \E x \in todo[p] :
       /\ \A y \in todo[p] : x[1].id <= y[1].id
       /\ Free(obs, EvidenceKey(p, x), p)
       /\ obs' = IF Taken(obs, EvidenceKey(p, x)) THEN obs
                 ELSE obs \cup {Observation(p, x)}
       /\ item' = [item EXCEPT ![p] = x]
  /\ pc' = [pc EXCEPT ![p] = "compare"]
  /\ UNCHANGED <<clock, ledgers, captures, todo, trusted, passes, crashes>>

(* The photo does not open, or the reader does not see the code this time. *)
Unread(p) ==
  /\ pc[p] = "observe" /\ p \in Autocommit
  /\ \E x \in todo[p] :
       /\ todo' = [todo EXCEPT ![p] = @ \ {x}]
       /\ pc' = [pc EXCEPT ![p] = IF todo[p] = {x} THEN "idle" ELSE @]
  /\ UNCHANGED <<clock, ledgers, captures, obs, trusted, item, passes, crashes>>

(* The observation at hand is of another site than bin_where answers now.  *)
Disputes(p) ==
  Contradicts(ResolveSite(item[p][1].fix),
              WhereIs(Visible(trips, p), nest, item[p][2]))

Compare(p) ==
  /\ pc[p] = "compare"
  /\ IF Disputes(p) /\ trusted[p]
       THEN pc' = [pc EXCEPT ![p] = "shock"] /\ UNCHANGED <<todo, item>>
       ELSE Advance(p)
  /\ UNCHANGED <<clock, ledgers, captures, obs, trusted, passes, crashes>>

(* Slip: the disagreement is recorded as a confirmation of where the photo  *)
(* was taken.                                                              *)
ShockRowConfirms(p) ==
  [seq |-> tripSeq, kind |-> "confirm", bin |-> item[p][2],
   site |-> ResolveSite(item[p][1].fix), trip |-> None, at |-> item[p][1].id,
   key |-> EvidenceKey(p, item[p]), by |-> Writer(p)]

(* The contradict row occurred when the photo was taken; its place in the  *)
(* ledger is the newest.                                                   *)
ShockRow(p) ==
  [seq |-> tripSeq, kind |-> "contradict", bin |-> item[p][2], site |-> None,
   trip |-> None, at |-> item[p][1].id, key |-> EvidenceKey(p, item[p]),
   by |-> Writer(p)]

EmitShock(p) ==
  /\ pc[p] = "shock"
  /\ Free(trips, EvidenceKey(p, item[p]), p)
  /\ IF Taken(trips, EvidenceKey(p, item[p]))
       THEN UNCHANGED <<trips, tripSeq>>
       ELSE trips' = trips \cup {ShockRow(p)} /\ tripSeq' = tripSeq + 1
  /\ Advance(p)
  /\ UNCHANGED <<clock, nest, captures, obs, trusted, passes, crashes>>

Publish(rows, p) == {IF r.by = p THEN [r EXCEPT !.by = None] ELSE r : r \in rows}

CommitPass(p) ==
  /\ pc[p] = "commit"
  /\ trips' = Publish(trips, p) /\ obs' = Publish(obs, p)
  /\ pc' = [pc EXCEPT ![p] = "idle"]
  /\ UNCHANGED <<clock, tripSeq, nest, captures, todo, trusted, item, passes,
                 crashes>>

(* The process dies: its open transaction is rolled back.                  *)
KillPass(p) ==
  /\ pc[p] # "idle" /\ crashes < MaxCrashes
  /\ crashes' = crashes + 1
  /\ trips' = {r \in trips : r.by # p} /\ obs' = {o \in obs : o.by # p}
  /\ pc' = [pc EXCEPT ![p] = "idle"]
  /\ todo' = [todo EXCEPT ![p] = {}]
  /\ item' = [item EXCEPT ![p] = NoItem]
  /\ UNCHANGED <<clock, tripSeq, nest, captures, trusted, passes>>

-------------------------------------------------------------------------------
Owner ==
  \/ \E b \in Bins, at \in Dates \cup {clock} :
       \/ \E s \in Sites : Place(b, s, at)
       \/ \E t \in Trips : Load(b, t, at)
       \/ \E kind \in {"confirm", "not_found"} : Verify(b, kind, at)
       \/ Unpack(b, at)
  \/ \E b, c \in Bins : Pack(b, c)
  \/ \E b \in Bins, others \in SUBSET Bins, fix \in Fixes : Photograph(b, others, fix)

PassStep(p) ==
  StartPass(p) \/ Observe(p) \/ Unread(p) \/ Compare(p) \/ EmitShock(p)
    \/ CommitPass(p)

(* Nothing is left to do within the bounds.                                *)
Rest == (\A p \in Passes : pc[p] = "idle") /\ UNCHANGED vars

Next ==
  \/ Owner
  \/ \E p \in Passes : PassStep(p) \/ KillPass(p)
  \/ Rest

Spec == Init /\ [][Next]_vars

-------------------------------------------------------------------------------
(* However many passes run, overlap or die halfway, a photo counts once    *)
(* per source and bin, in the record of the source and as a shock          *)
(* (bin_harvest.py:296-297, "a second pass dedupes on the capture          *)
(* identity"; bin_ocr_harvest.py:228-229).                                 *)
EvidenceCountsOnce ==
  /\ \A o, q \in obs :
       o.source = q.source /\ o.ref = q.ref /\ o.bin = q.bin => o = q
  /\ \A e, f \in trips :
       /\ e.kind = "contradict" /\ f.kind = "contradict"
       /\ e.key[1] = f.key[1] /\ e.at = f.at /\ e.bin = f.bin
       => e = f

(* The rows of the owner have no key of evidence.                          *)
OwnerRows == {e \in trips : e.key = <<>>}

(* The owner's rows of bin b have dates that agree with the photo: those   *)
(* that were on file when it was taken are dated up to it, the later ones  *)
(* after it.                                                               *)
DatedInTime(b, c) ==
  \A e \in OwnerRows : Locates(e, b) => (e.at <= c.id <=> e.seq < c.upTo)

(* Reliability is computed at read time from as_of_site.  For a bin that   *)
(* was not packed, that is what bin_where answered when the photo was      *)
(* taken, whatever has been recorded since, unless the owner has dated a   *)
(* row of this bin across the photo: a harvester's shocks, which are dated *)
(* by their photos and always come late, change no verdict.                *)
AsOfIsWhatWasServed ==
  \A o \in Committed(obs), c \in captures :
    o.ref = c.id /\ o.bin \notin c.packed /\ DatedInTime(o.bin, c)
      => AsOf(Committed(trips), o.bin, o.at) = c.served[o.bin]

(* A harvester shakes confidence and never relocates a bin: not when it    *)
(* writes, commits or is rolled back.                                      *)
HarvestNeverRelocates ==
  [][trips' # trips /\ OwnerRows' = OwnerRows
       => \A b \in Bins : Where(b)' = Where(b)]_vars

-------------------------------------------------------------------------------
(* The inductive invariant of the three properties above.                  *)
EvidenceKeys == Sources \X Nat \X Bins

MoveRows ==
  [seq : Nat, kind : {"place", "confirm", "not_found"}, bin : Bins, site : Sites,
   trip : {None}, at : Nat, key : {<<>>}, by : {None}]
    \cup [seq : Nat, kind : {"load"}, bin : Bins, site : {None}, trip : Trips,
          at : Nat, key : {<<>>}, by : {None}]
ShockRows ==
  [seq : Nat, kind : {"contradict"}, bin : Bins, site : {None}, trip : {None},
   at : Nat, key : EvidenceKeys, by : Passes \cup {None}]
Photos ==
  [id : Nat, bin : Bins, codes : SUBSET Bins, fix : Fixes,
   upTo : Nat, served : [Bins -> Locations], packed : SUBSET Bins]
Observations ==
  [key : EvidenceKeys, source : Sources, ref : Nat, bin : Bins,
   site : Sites \cup {None}, at : Nat, by : Passes \cup {None}]

TypeInv ==
  /\ clock \in Nat /\ tripSeq \in Nat /\ passes \in Nat /\ crashes \in Nat
  /\ trips \subseteq MoveRows \cup ShockRows
  /\ nest \subseteq [seq : Nat, kind : {"pack", "unpack"}, bin : Bins, box : Bins]
  /\ IsFiniteSet(nest)
  /\ captures \subseteq Photos
  /\ obs \subseteq Observations
  /\ pc \in [Passes -> {"idle", "observe", "compare", "shock", "commit"}]
  /\ trusted \in [Passes -> BOOLEAN]

(* A pass works on photos that were taken, and has one in hand while it    *)
(* compares and shocks.                                                    *)
Items == captures \X Bins
WorkInv ==
  /\ todo \in [Passes -> SUBSET Items]
  /\ item \in [Passes -> Items \cup {NoItem}]
  /\ \A p \in Passes : pc[p] \in {"compare", "shock"} => item[p] \in Items

(* Identities and the instants of photos are never used twice.             *)
ClockInv ==
  /\ \A e \in trips : e.seq < tripSeq
  /\ \A e, f \in trips : e.seq = f.seq => e = f
  /\ \A c \in captures : c.id < clock /\ c.upTo <= tripSeq

(* A key of evidence names source, photo and bin, and is used once.        *)
KeyInv ==
  /\ \A o \in obs : /\ o.key = <<o.source, o.ref, o.bin>> /\ o.at = o.ref
                    /\ \E c \in captures : c.id = o.ref
  /\ \A o, q \in obs : o.key = q.key => o = q
  /\ \A e \in trips : e.kind = "contradict" => e.key[2] = e.at /\ e.key[3] = e.bin
  /\ \A e, f \in trips :
       e.kind = "contradict" /\ f.kind = "contradict" /\ e.key = f.key => e = f

(* Of a bin that was not packed, the rows that had occurred by then say    *)
(* what was answered then, if they are dated so.                           *)
ServedInv ==
  \A c \in captures : \A b \in Bins \ c.packed :
    DatedInTime(b, c) => AsOf(Committed(trips), b, c.id) = c.served[b]

BeliefInv == TypeInv /\ WorkInv /\ ClockInv /\ KeyInv /\ ServedInv

-------------------------------------------------------------------------------
(* What the documentation says and the program does not do.                *)

(* "not_found shocks it": a miss at the claimed site, which nothing        *)
(* observed since, leaves less confidence in that site than there would be *)
(* without it.                                                             *)
Sure(rows, b) == Confidence(rows, Committed(obs), b, clock)
UnansweredMiss(rows, e) ==
  /\ e.kind = "not_found" /\ e.at < clock
  /\ \E d \in rows : Decides(rows, d, e.bin) /\ d.seq < e.seq
  /\ \A o \in Corroborating(rows, Committed(obs), e.bin) : o.at < e.at
MissLowersConfidence ==
  \A e \in Committed(trips) :
    UnansweredMiss(Committed(trips), e) /\ Sure(Committed(trips) \ {e}, e.bin) > 0
      => Sure(Committed(trips), e.bin) < Sure(Committed(trips) \ {e}, e.bin)

(* A sweep returns "the current site's stalest bins": the bins it sends    *)
(* the owner to look at are, to the program's own knowledge, at the site.  *)
SweepNamesBinsOfTheSite ==
  \A s \in Sites :
    \A b \in SweptAt(Committed(trips), Committed(obs), s, clock) :
      Where(b) = AtSite(s)
===============================================================================
