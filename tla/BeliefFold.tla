------------------------------ MODULE BeliefFold ------------------------------
(***************************************************************************)
(* Location belief (bin_inventory.py): how sure the program is of the site *)
(* the ledger folds to, from the age of the deciding row, the shocks after *)
(* it, and the observations harvested from photos, each weighted by the    *)
(* record of its source.  All of it is computed at read time.              *)
(*                                                                         *)
(* A trip row here also carries `at`, its occurred_at.  Confidence runs    *)
(* from 0 to Unit and halves once per whole half-life (the code's          *)
(* exponential, sampled at the half-lives); quotients are rounded down and *)
(* an observation's own strength is left out.                              *)
(***************************************************************************)
EXTENDS TripLedger, SequencesExt, FiniteSets, TLC

CONSTANTS Sources,           \* the kinds of observation
          Prior,             \* BIN_SOURCE_PRIORS: pseudo-counts per source
          DefaultHalfLife    \* BIN_DEFAULT_HALF_LIFE_DAYS

ASSUME BeliefAssumption ==
  /\ Prior \in [Sources -> [hits : Nat \ {0}, misses : Nat]]
  /\ DefaultHalfLife \in Nat \ {0}

Unit  == 1000
Floor == 500    \* BIN_LOCATION_FLOOR
Shock == 600    \* BIN_CONTRADICTION_SHOCK

Larger(m, n) == IF m < n THEN n ELSE m

-------------------------------------------------------------------------------
(* bin_half_life_days: twice the median of the positive gaps between the   *)
(* moves of a bin in order of seq; a confirmation is no move.              *)
Moves(rows, b) ==
  SetToSortSeq({e \in rows : e.bin = b /\ e.kind \in MoveKinds},
               LAMBDA e, f : e.seq < f.seq)

Gaps(rows, b) ==
  LET moves == Moves(rows, b)
      gaps  == [i \in 1..(Len(moves) - 1) |-> moves[i + 1].at - moves[i].at]
  IN  SelectSeq(gaps, LAMBDA g : g > 0)

TwiceMedian(values) ==
  LET sorted == SortSeq(values, <) IN
  sorted[(Len(values) + 1) \div 2] + sorted[(Len(values) \div 2) + 1]

TwiceHalfLife(rows, b) ==
  IF Gaps(rows, b) = <<>> THEN 2 * DefaultHalfLife ELSE TwiceMedian(Gaps(rows, b))

(* decayed_confidence, before the shock                                    *)
Decayed(age, twiceHalfLife) ==
  IF age <= 0 THEN Unit ELSE Unit \div (2 ^ ((2 * age) \div twiceHalfLife))

(* _contradiction_shock counts the rows that come after in seq.            *)
ShocksAfter(rows, e) ==
  {f \in rows : /\ f.bin = e.bin
                /\ f.kind \in {"contradict", "not_found"}
                /\ f.seq > e.seq}

MoveConfidence(rows, e, now) ==
  Larger(0, Decayed(now - e.at, TwiceHalfLife(rows, e.bin))
              - Shock * Cardinality(ShocksAfter(rows, e)))

-------------------------------------------------------------------------------
(* Slip: an observation is judged by where the bin is now.                 *)
AsOfNow(rows, b, at) == FoldBinLocation(rows, b)

(* as_of_site: the rows that had occurred by then.                         *)
AsOf(rows, b, at) == FoldBinLocation({e \in rows : e.at <= at}, b)

(* adjudicate_observation                                                  *)
Verdict(rows, o) ==
  LET truth == AsOf(rows, o.bin, o.at) IN
  IF truth.status # "at_site" THEN "none"
  ELSE IF o.site = truth.site THEN "hit" ELSE "miss"

Tally(rows, observations, source, verdict) ==
  Cardinality({o \in observations : o.source = source /\ Verdict(rows, o) = verdict})

(* compute_source_reliabilities: prior and track record, as a fraction.    *)
ReliabilityOf(rows, observations, source) ==
  LET hits   == Prior[source].hits + Tally(rows, observations, source, "hit")
      misses == Prior[source].misses + Tally(rows, observations, source, "miss")
  IN  [hits |-> hits, all |-> hits + misses]

(* BIN_CONTRADICT_TRUST_THRESHOLD is 0.6.                                  *)
Trusted(reliability) == 10 * reliability.hits >= 6 * reliability.all

(* observation_contradicts                                                 *)
Contradicts(site, location) ==
  location.status = "at_site" /\ site # location.site

-------------------------------------------------------------------------------
(* compute_belief: the better of the move clock and the best observation   *)
(* of the site the ledger folds to.  Only a bin that rests corroborates.   *)
Corroborating(rows, observations, b) ==
  LET location == FoldBinLocation(rows, b) IN
  {o \in observations : /\ o.bin = b
                        /\ location.status = "at_site"
                        /\ o.site = location.site}

Corroboration(rows, observations, o, now) ==
  LET reliability == ReliabilityOf(rows, observations, o.source) IN
  (Decayed(now - o.at, TwiceHalfLife(rows, o.bin)) * reliability.hits)
    \div reliability.all

Confidence(rows, observations, b, now) ==
  IF \E e \in rows : Decides(rows, e, b)
    THEN LET decider == CHOOSE e \in rows : Decides(rows, e, b)
             witnesses == {Corroboration(rows, observations, o, now) :
                             o \in Corroborating(rows, observations, b)}
         IN  CHOOSE best \in witnesses \cup {MoveConfidence(rows, decider, now)} :
               /\ best >= MoveConfidence(rows, decider, now)
               /\ \A w \in witnesses : best >= w
    ELSE 0

Belief(rows, observations, b, now) ==
  [location   |-> FoldBinLocation(rows, b),
   confidence |-> Confidence(rows, observations, b, now),
   abstained  |-> Confidence(rows, observations, b, now) < Floor]

(* bin_belief: a contained bin takes its outermost container's.            *)
BinBelief(rows, nestRows, observations, b, now) ==
  Belief(rows, observations, LocationSource(nestRows, b), now)

(* reconfirm_priorities ranks every bin a move event ever named, each by   *)
(* its own rows.                                                           *)
Ranked(rows) == {b \in Bins : \E e \in rows : e.bin = b}

(* _rank_at_site, before its limit: the bins a sweep of the site names.    *)
SweptAt(rows, observations, site, now) ==
  {b \in Ranked(rows) : Belief(rows, observations, b, now).location = AtSite(site)}
===============================================================================
