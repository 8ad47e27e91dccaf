------------------------ MODULE LocationBelief_proofs ------------------------
(***************************************************************************)
(* Proofs about LocationBelief, for every set of bins, sites, photos and   *)
(* harvesters: BeliefInv is inductive, and with it evidence counts once,   *)
(* an observation is judged by what was answered when its photo was taken, *)
(* and no harvester moves a bin.                                           *)
(*                                                                         *)
(* The arguments about locations rest on one fact, SameFold: where the     *)
(* ledger puts a bin depends only on the location rows of that bin.        *)
(***************************************************************************)
EXTENDS LocationBelief, FiniteSetTheorems, TLAPS

-------------------------------------------------------------------------------
(* Rows with an identity of their own.                                     *)
Identified(rows) ==
  /\ \A e \in rows : e.seq \in Nat
  /\ \A e, f \in rows : e.seq = f.seq => e = f

LEMMA OneDecider ==
  ASSUME NEW rows, Identified(rows), NEW b, NEW d \in rows, Decides(rows, d, b)
  PROVE  FoldBinLocation(rows, b) = LocationOf(d)
<1>1. ASSUME NEW e \in rows, Decides(rows, e, b)
      PROVE  e = d
  <2>1. e.seq <= d.seq /\ d.seq <= e.seq /\ e.seq \in Nat /\ d.seq \in Nat
    BY <1>1 DEF Decides, Identified
  <2> QED
    BY <2>1 DEF Identified
<1>2. (CHOOSE e \in rows : Decides(rows, e, b)) = d
  BY <1>1
<1> QED
  BY <1>2 DEF FoldBinLocation

(* Two ledgers with the same location rows of a bin say the same of it.    *)
LEMMA SameFold ==
  ASSUME NEW A, NEW B, Identified(A), Identified(B), NEW b,
         \A e : Locates(e, b) => (e \in A <=> e \in B)
  PROVE  FoldBinLocation(A, b) = FoldBinLocation(B, b)
<1>1. \A e : e \in A /\ Decides(A, e, b) <=> e \in B /\ Decides(B, e, b)
  BY DEF Decides
<1>2. CASE \E d \in A : Decides(A, d, b)
  <2>1. PICK d \in A : Decides(A, d, b)
    BY <1>2
  <2>2. d \in B /\ Decides(B, d, b)
    BY <1>1, <2>1
  <2>3. FoldBinLocation(A, b) = LocationOf(d)
    BY <2>1, OneDecider
  <2>4. FoldBinLocation(B, b) = LocationOf(d)
    BY <2>2, OneDecider
  <2> QED
    BY <2>3, <2>4
<1>3. CASE ~ \E d \in A : Decides(A, d, b)
  BY <1>1, <1>3 DEF FoldBinLocation
<1> QED
  BY <1>2, <1>3

(* A bin in no container is located by its own rows.                       *)
LEMMA TopLevelSource ==
  ASSUME NEW rows, NEW b \in Bins, ParentOf(rows, b) = None
  PROVE  LocationSource(rows, b) = b
<1>1. \A c \in Bins : ~Inside(rows, b, c)
  BY NoneIsNoBin DEF ParentOf
<1>2. PathFor(rows, b) = {}
  <2>1. ClosedAbove(rows, b, {})
    BY <1>1 DEF ClosedAbove
  <2> QED
    BY <2>1 DEF PathFor
<1> QED
  BY <1>2 DEF LocationSource

LEMMA SourceIsBin ==
  ASSUME NEW rows, NEW b \in Bins
  PROVE  LocationSource(rows, b) \in Bins
BY DEF LocationSource, PathFor

LEMMA RowsIdentified ==
  ASSUME TypeInv, ClockInv
  PROVE  /\ Identified(trips) /\ Identified(Committed(trips))
         /\ \A e \in trips : e.seq \in Nat /\ e.at \in Nat /\ e.bin \in Bins
BY DEF TypeInv, ClockInv, Identified, Committed, MoveRows, ShockRows

(* What bin_where answers is a location.                                   *)
LEMMA FoldIsLocation ==
  ASSUME TypeInv, NEW b \in Bins, NEW rows \in SUBSET trips
  PROVE  FoldBinLocation(rows, b) \in Locations
<1>1. \A e \in rows : Locates(e, b) => LocationOf(e) \in Locations
  BY DEF TypeInv, MoveRows, ShockRows, LocationOf, Locations, Locates, LocationKinds
<1>2. Home[b] = None
  BY HarvestAssumption
<1>3. CASE \E e \in rows : Decides(rows, e, b)
  BY <1>1, <1>3 DEF FoldBinLocation, Decides
<1>4. CASE ~ \E e \in rows : Decides(rows, e, b)
  BY <1>2, <1>4 DEF FoldBinLocation, Locations
<1> QED
  BY <1>3, <1>4

LEMMA WhereIsLocation ==
  ASSUME TypeInv, NEW b \in Bins
  PROVE  Where(b) \in Locations
BY SourceIsBin, FoldIsLocation DEF Where, WhereIs, Committed

-------------------------------------------------------------------------------
LEMMA InitInv == Init => BeliefInv
<1> SUFFICES ASSUME Init
             PROVE  BeliefInv
  OBVIOUS
<1>1. TypeInv
  BY FS_EmptySet DEF Init, TypeInv
<1>2. WorkInv
  BY DEF Init, WorkInv
<1>3. ClockInv /\ KeyInv /\ ServedInv
  BY DEF Init, ClockInv, KeyInv, ServedInv
<1> QED
  BY <1>1, <1>2, <1>3 DEF BeliefInv

(* What the owner records later, dated in time, changes nothing of what    *)
(* was answered before.                                                    *)
LEMMA EarlierRowsStand ==
  ASSUME BeliefInv, NEW row, row.seq = tripSeq, row.by = None, row.key = <<>>,
         trips' = trips \cup {row}, UNCHANGED captures,
         Identified(Committed(trips)'), Identified(Committed(trips))
  PROVE  ServedInv'
<1> SUFFICES ASSUME NEW c \in captures, NEW b \in Bins \ c.packed, DatedInTime(b, c)'
             PROVE  AsOf(Committed(trips)', b, c.id) = c.served[b]
  BY DEF ServedInv
<1>1. row.seq \in Nat /\ c.upTo \in Nat /\ c.upTo <= row.seq
  BY DEF BeliefInv, ClockInv, TypeInv, Photos
<1>2. row \in OwnerRows' /\ OwnerRows \subseteq OwnerRows'
  BY DEF OwnerRows
<1>3. Locates(row, b) => ~(row.at <= c.id)
  BY <1>1, <1>2 DEF DatedInTime
<1>4. DatedInTime(b, c)
  BY <1>2 DEF DatedInTime
<1> DEFINE A == {e \in Committed(trips)' : e.at <= c.id}
           B == {e \in Committed(trips) : e.at <= c.id}
<1>5. Identified(A) /\ Identified(B)
  BY DEF Identified
<1>6. \A e : Locates(e, b) => (e \in A <=> e \in B)
  BY <1>3 DEF Committed
<1>7. FoldBinLocation(A, b) = FoldBinLocation(B, b)
  BY <1>5, <1>6, SameFold
<1> QED
  BY <1>4, <1>7 DEF AsOf, BeliefInv, ServedInv

(* A call of the owner that records a move.                                *)
LEMMA RecordInv ==
  ASSUME BeliefInv, NEW row \in MoveRows, row.seq = tripSeq,
         Record(row),
         nest' \subseteq [seq : Nat, kind : {"pack", "unpack"}, bin : Bins, box : Bins],
         IsFiniteSet(nest')
  PROVE  BeliefInv'
<1> USE DEF BeliefInv
<1>1. TypeInv'
  BY DEF TypeInv, Record, passVars
<1>2. WorkInv'
  BY DEF WorkInv, Items, Record, passVars
<1>3. ClockInv'
  <2>1. /\ \A e \in trips : e.seq < tripSeq /\ e.seq \in Nat
        /\ tripSeq \in Nat /\ clock \in Nat
        /\ \A c \in captures : /\ c.id < clock /\ c.id \in Nat
                               /\ c.upTo <= tripSeq /\ c.upTo \in Nat
    BY RowsIdentified DEF ClockInv, TypeInv, Photos
  <2>2. trips' = trips \cup {row} /\ tripSeq' = tripSeq + 1 /\ clock' = clock + 1
        /\ captures' = captures
    BY DEF Record
  <2> QED
    BY <2>1, <2>2 DEF ClockInv
<1>4. KeyInv'
  BY DEF KeyInv, Record, MoveRows
<1>5. ServedInv'
  <2>1. Identified(Committed(trips)) /\ Identified(Committed(trips)')
    BY <1>1, <1>3, RowsIdentified
       DEF TypeInv, ClockInv, Identified, Committed, MoveRows, ShockRows
  <2> QED
    BY <2>1, EarlierRowsStand DEF Record, MoveRows
<1> QED
  BY <1>1, <1>2, <1>3, <1>4, <1>5

LEMMA NestRow ==
  ASSUME TypeInv, NEW kind \in {"pack", "unpack"}, NEW b \in Bins, NEW c \in Bins,
         Nested(kind, b, c)
  PROVE  /\ nest' \subseteq [seq : Nat, kind : {"pack", "unpack"}, bin : Bins, box : Bins]
         /\ IsFiniteSet(nest')
<1>1. Cardinality(nest) + 1 \in Nat
  BY FS_CardinalityType DEF TypeInv
<1>2. IsFiniteSet(nest')
  BY FS_AddElement DEF TypeInv, Nested
<1> QED
  BY <1>1, <1>2 DEF TypeInv, Nested

LEMMA SitesAnswered ==
  ASSUME TypeInv, NEW b \in Bins, Where(b).status = "at_site"
  PROVE  Where(b).site \in Sites
BY WhereIsLocation DEF Locations, AtSite, InTransit, Unknown

LEMMA OwnerInv == BeliefInv /\ Owner => BeliefInv'
<1> SUFFICES ASSUME BeliefInv, Owner
             PROVE  BeliefInv'
  OBVIOUS
<1> USE DEF BeliefInv
<1>0. tripSeq \in Nat /\ clock \in Nat
  BY DEF TypeInv
<1>7. Dates \cup {clock} \subseteq Nat
  BY <1>0, HarvestAssumption
<1>1. ASSUME NEW b \in Bins, NEW site \in Sites, NEW at \in Nat, Place(b, site, at)
      PROVE  BeliefInv'
  <2>1. Row("place", b, site, None, at) \in MoveRows
    BY <1>0 DEF Row, MoveRows
  <2> QED
    BY <1>1, <2>1, RecordInv DEF Place, Row, TypeInv
<1>2. ASSUME NEW b \in Bins, NEW t \in Trips, NEW at \in Nat, Load(b, t, at)
      PROVE  BeliefInv'
  <2>1. Row("load", b, None, t, at) \in MoveRows
    BY <1>0 DEF Row, MoveRows
  <2> QED
    BY <1>2, <2>1, RecordInv DEF Load, Row, TypeInv
<1>3. ASSUME NEW b \in Bins, NEW kind \in {"confirm", "not_found"}, NEW at \in Nat,
             Verify(b, kind, at)
      PROVE  BeliefInv'
  <2>1. Row(kind, b, Where(b).site, None, at) \in MoveRows
    BY <1>0, <1>3, SitesAnswered DEF Row, MoveRows, Verify
  <2> QED
    BY <1>3, <2>1, RecordInv DEF Verify, Row, TypeInv
<1>4. ASSUME NEW b \in Bins, NEW c \in Bins, Pack(b, c)
      PROVE  BeliefInv'
  <2>1. TypeInv'
    BY <1>4, NestRow DEF Pack, TypeInv, passVars
  <2>2. WorkInv' /\ KeyInv' /\ ServedInv'
    BY <1>4 DEF Pack, passVars, WorkInv, Items, KeyInv, ServedInv, Committed,
                DatedInTime, OwnerRows
  <2>3. ClockInv'
    BY <1>0, <1>4, RowsIdentified DEF Pack, ClockInv, TypeInv, Photos
  <2> QED
    BY <2>1, <2>2, <2>3
<1>5. ASSUME NEW b \in Bins, NEW at \in Nat, Unpack(b, at)
      PROVE  BeliefInv'
  <2> DEFINE c == ParentOf(nest, b)
  <2>1. c \in Bins
    BY <1>5 DEF Unpack, ParentOf
  <2>2. Row("place", b, Where(c).site, None, at) \in MoveRows
    BY <1>0, <1>5, <2>1, SitesAnswered DEF Row, MoveRows, Unpack
  <2>3. Nested("unpack", b, c) /\ Record(Row("place", b, Where(c).site, None, at))
    BY <1>5 DEF Unpack
  <2> HIDE DEF c
  <2>4. /\ nest' \subseteq [seq : Nat, kind : {"pack", "unpack"}, bin : Bins, box : Bins]
        /\ IsFiniteSet(nest')
    BY <2>1, <2>3, NestRow
  <2> QED
    BY <2>2, <2>3, <2>4, RecordInv DEF Row
<1>6. ASSUME NEW b \in Bins, NEW others \in SUBSET Bins, NEW fix \in Fixes,
             Photograph(b, others, fix)
      PROVE  BeliefInv'
  <2> DEFINE c == [id |-> clock, bin |-> b, codes |-> {b} \cup others, fix |-> fix,
                   upTo |-> tripSeq, served |-> [x \in Bins |-> Where(x)], packed |-> Parents]
  <2>1. c \in Photos
    BY <1>0, WhereIsLocation DEF Photos, Parents
  <2>2. captures' = captures \cup {c} /\ clock' = clock + 1
        /\ UNCHANGED <<ledgers, obs, passVars>>
    BY <1>6 DEF Photograph
  <2>3. /\ c.id = clock /\ c.upTo = tripSeq
        /\ c.served = [x \in Bins |-> Where(x)] /\ c.packed = Parents
    OBVIOUS
  <2> HIDE DEF c
  <2>4. TypeInv'
    BY <2>1, <2>2 DEF TypeInv, ledgers, passVars
  <2>5. WorkInv'
    BY <2>2 DEF WorkInv, Items, ledgers, passVars
  <2>6. ClockInv'
    BY <1>0, <2>2, <2>3, RowsIdentified DEF ClockInv, ledgers, TypeInv, Photos
  <2>7. KeyInv'
    BY <2>2 DEF KeyInv, ledgers
  <2>8. Identified(Committed(trips))
    BY RowsIdentified
  <2>9. ASSUME NEW x \in Bins \ c.packed, DatedInTime(x, c)
        PROVE  AsOf(Committed(trips), x, c.id) = c.served[x]
    <3> DEFINE A == {e \in Committed(trips) : e.at <= c.id}
    <3>1. LocationSource(nest, x) = x
      BY <2>3, TopLevelSource DEF Parents
    <3>2. c.served[x] = FoldBinLocation(Committed(trips), x)
      BY <2>3, <3>1 DEF Where, WhereIs
    <3>3. \A e \in Committed(trips) : Locates(e, x) => e.at <= c.id
      <4>1. \A e \in Committed(trips) : Locates(e, x) => e \in OwnerRows
        BY DEF TypeInv, MoveRows, ShockRows, Committed, OwnerRows, Locates, LocationKinds
      <4> QED
        BY <2>3, <2>9, <4>1 DEF DatedInTime, ClockInv, Committed
    <3>4. Identified(A) /\ \A e : Locates(e, x) => (e \in A <=> e \in Committed(trips))
      BY <2>8, <3>3 DEF Identified
    <3> QED
      BY <2>8, <3>2, <3>4, SameFold DEF AsOf
  <2>10. ServedInv'
    BY <2>2, <2>9 DEF ServedInv, ledgers, Committed, DatedInTime, OwnerRows
  <2> QED
    BY <2>4, <2>5, <2>6, <2>7, <2>10
<1> QED
  BY <1>1, <1>2, <1>3, <1>4, <1>5, <1>6, <1>7 DEF Owner

-------------------------------------------------------------------------------
(* A step of a harvester leaves the rows of the owner alone, so that it    *)
(* changes neither where a bin is nor what the rows said at any time.      *)
LEMMA HarvestKeepsFold ==
  ASSUME BeliefInv, TypeInv', ClockInv', UNCHANGED <<nest, captures>>,
         \A e : e.kind # "contradict" => (e \in trips' <=> e \in trips)
  PROVE  ServedInv' /\ \A b \in Bins : Where(b)' = Where(b)
<1>1. \A e, b : Locates(e, b) => (e \in Committed(trips)' <=> e \in Committed(trips))
  BY DEF Locates, LocationKinds, Committed
<1>2. Identified(Committed(trips)) /\ Identified(Committed(trips)')
  BY RowsIdentified
     DEF BeliefInv, TypeInv, ClockInv, Identified, Committed, MoveRows, ShockRows
<1>3. \A b : FoldBinLocation(Committed(trips)', b) = FoldBinLocation(Committed(trips), b)
  BY <1>1, <1>2, SameFold
<1>4. \A b \in Bins : Where(b)' = Where(b)
  BY <1>3 DEF Where, WhereIs
<1>5. ASSUME NEW c \in captures, NEW b
      PROVE  /\ AsOf(Committed(trips)', b, c.id) = AsOf(Committed(trips), b, c.id)
             /\ DatedInTime(b, c)' => DatedInTime(b, c)
  <2> DEFINE A == {e \in Committed(trips)' : e.at <= c.id}
             B == {e \in Committed(trips) : e.at <= c.id}
  <2>1. Identified(A) /\ Identified(B)
    BY <1>2 DEF Identified
  <2>2. \A e : Locates(e, b) => (e \in A <=> e \in B)
    BY <1>1
  <2>3. AsOf(Committed(trips)', b, c.id) = AsOf(Committed(trips), b, c.id)
    BY <2>1, <2>2, SameFold DEF AsOf
  <2>4. \A e \in OwnerRows : Locates(e, b) => e \in OwnerRows'
    BY DEF OwnerRows, Locates, LocationKinds
  <2> QED
    BY <2>3, <2>4 DEF DatedInTime
<1>6. ServedInv'
  BY <1>5 DEF BeliefInv, ServedInv
<1> QED
  BY <1>4, <1>6

(* A step that leaves the ledgers alone.                                   *)
LEMMA LedgersKept ==
  ASSUME BeliefInv, UNCHANGED <<clock, ledgers, captures>>
  PROVE  ClockInv' /\ ServedInv'
BY DEF BeliefInv, ledgers, ClockInv, ServedInv, Committed, DatedInTime, OwnerRows

LEMMA ResolvedSite ==
  ASSUME NEW fix
  PROVE  ResolveSite(fix) \in Sites \cup {None}
BY DEF ResolveSite

LEMMA ItemParts ==
  ASSUME TypeInv, NEW x \in Items
  PROVE  /\ x[1] \in captures /\ x[1].id \in Nat /\ x[2] \in Bins
BY DEF Items, TypeInv, Photos

(* The item at hand is done with.                                          *)
LEMMA AdvanceInv ==
  ASSUME TypeInv, WorkInv, NEW p \in Passes, Advance(p), UNCHANGED captures
  PROVE  /\ WorkInv'
         /\ pc' \in [Passes -> {"idle", "observe", "compare", "shock", "commit"}]
<1>1. \A q \in Passes : pc'[q] \in {"compare", "shock"} => q # p /\ pc'[q] = pc[q]
  BY DEF Advance, TypeInv
<1> QED
  BY <1>1 DEF Advance, WorkInv, TypeInv, Items, NoItem

LEMMA StartPassInv ==
  ASSUME BeliefInv, NEW p \in Passes, StartPass(p)
  PROVE  BeliefInv'
<1> USE DEF BeliefInv
<1>1. \A c \in captures : CodesOf(p, c) \subseteq Bins
  BY DEF CodesOf, TypeInv, Photos
<1>2. Work(p) \in SUBSET Items
  BY <1>1 DEF Work, Items
<1>3. Trusted(Reliability(SourceOf[p])) \in BOOLEAN
  BY DEF Trusted
<1>4. TypeInv'
  BY <1>3 DEF StartPass, TypeInv, ledgers
<1>5. WorkInv'
  BY <1>2 DEF StartPass, WorkInv, Items, TypeInv
<1>6. KeyInv'
  BY DEF StartPass, KeyInv, ledgers
<1> QED
  BY <1>4, <1>5, <1>6, LedgersKept DEF StartPass

LEMMA ObserveInv ==
  ASSUME BeliefInv, NEW p \in Passes, Observe(p)
  PROVE  BeliefInv'
<1> USE DEF BeliefInv
<1>1. PICK x \in todo[p] :
        /\ obs' = IF Taken(obs, EvidenceKey(p, x)) THEN obs
                  ELSE obs \cup {Observation(p, x)}
        /\ item' = [item EXCEPT ![p] = x]
  BY DEF Observe
<1>2. x \in Items /\ x[1] \in captures /\ x[1].id \in Nat /\ x[2] \in Bins
  BY ItemParts DEF WorkInv
<1>3. SourceOf[p] \in Sources /\ Writer(p) \in Passes \cup {None}
  BY HarvestAssumption DEF Writer
<1>4. EvidenceKey(p, x) \in EvidenceKeys
  BY <1>2, <1>3 DEF EvidenceKey, EvidenceKeys
<1>5. Observation(p, x) \in Observations
  BY <1>2, <1>3, <1>4, ResolvedSite DEF Observation, Observations
<1>6. TypeInv'
  BY <1>1, <1>5 DEF Observe, TypeInv, ledgers
<1>7. WorkInv'
  BY <1>1, <1>2 DEF Observe, WorkInv, TypeInv, Items
<1>8. KeyInv'
  <2>1. /\ Observation(p, x).key = <<SourceOf[p], x[1].id, x[2]>>
        /\ Observation(p, x).source = SourceOf[p]
        /\ Observation(p, x).ref = x[1].id /\ Observation(p, x).at = x[1].id
        /\ Observation(p, x).bin = x[2]
        /\ Observation(p, x).key = EvidenceKey(p, x)
    BY DEF Observation, EvidenceKey
  <2>2. CASE Taken(obs, EvidenceKey(p, x))
    BY <1>1, <2>2 DEF KeyInv, Observe, ledgers
  <2>3. CASE ~Taken(obs, EvidenceKey(p, x))
    <3>1. \A o \in obs : o.key # Observation(p, x).key
      BY <2>1, <2>3 DEF Taken
    <3>2. obs' = obs \cup {Observation(p, x)} /\ captures' = captures /\ trips' = trips
      BY <1>1, <2>3 DEF Observe, ledgers
    <3> QED
      BY <1>2, <2>1, <3>1, <3>2 DEF KeyInv
  <2> QED
    BY <2>2, <2>3
<1> QED
  BY <1>6, <1>7, <1>8, LedgersKept DEF Observe

LEMMA UnreadInv ==
  ASSUME BeliefInv, NEW p \in Passes, Unread(p)
  PROVE  BeliefInv'
<1> USE DEF BeliefInv
<1>1. TypeInv'
  BY DEF Unread, TypeInv, ledgers
<1>2. WorkInv'
  BY DEF Unread, WorkInv, TypeInv, Items
<1>3. KeyInv'
  BY DEF Unread, KeyInv, ledgers
<1> QED
  BY <1>1, <1>2, <1>3, LedgersKept DEF Unread

LEMMA CompareInv ==
  ASSUME BeliefInv, NEW p \in Passes, Compare(p)
  PROVE  BeliefInv'
<1> USE DEF BeliefInv
<1>1. KeyInv' /\ ClockInv' /\ ServedInv'
  BY LedgersKept DEF Compare, KeyInv, ledgers
<1>2. WorkInv' /\ pc' \in [Passes -> {"idle", "observe", "compare", "shock", "commit"}]
  <2>1. CASE Disputes(p) /\ trusted[p]
    BY <2>1 DEF Compare, WorkInv, TypeInv, Items
  <2>2. CASE ~(Disputes(p) /\ trusted[p])
    BY <2>2, AdvanceInv DEF Compare
  <2> QED
    BY <2>1, <2>2
<1>3. TypeInv'
  BY <1>2 DEF Compare, TypeInv, ledgers
<1> QED
  BY <1>1, <1>2, <1>3

LEMMA EmitShockInv ==
  ASSUME BeliefInv, NEW p \in Passes, EmitShock(p)
  PROVE  BeliefInv'
<1> USE DEF BeliefInv
<1> DEFINE x == item[p]
           e == ShockRow(p)
           k == EvidenceKey(p, item[p])
<1>1. x \in Items /\ x[1] \in captures /\ x[1].id \in Nat /\ x[2] \in Bins
  BY ItemParts DEF WorkInv, EmitShock
<1>2. SourceOf[p] \in Sources /\ Writer(p) \in Passes \cup {None} /\ tripSeq \in Nat
  BY HarvestAssumption DEF Writer, TypeInv
<1>3. k \in EvidenceKeys /\ k[2] = x[1].id /\ k[3] = x[2]
  BY <1>1, <1>2 DEF EvidenceKey, EvidenceKeys
<1>4. e \in ShockRows
  BY <1>1, <1>2, <1>3 DEF ShockRow, ShockRows
<1>5. /\ e.seq = tripSeq /\ e.key = k /\ e.at = k[2] /\ e.bin = k[3]
      /\ e.kind = "contradict" /\ e.at = x[1].id
  BY <1>3 DEF ShockRow
<1>6. \/ UNCHANGED <<trips, tripSeq>>
      \/ /\ trips' = trips \cup {e} /\ tripSeq' = tripSeq + 1
         /\ \A f \in trips : f.key # k
  BY DEF EmitShock, Taken
<1>7. UNCHANGED <<clock, nest, captures, obs, trusted, passes, crashes>> /\ Advance(p)
  BY DEF EmitShock
<1> HIDE DEF x, e, k
<1>8. WorkInv' /\ pc' \in [Passes -> {"idle", "observe", "compare", "shock", "commit"}]
  BY <1>7, AdvanceInv
<1>9. TypeInv'
  BY <1>2, <1>4, <1>6, <1>7, <1>8 DEF TypeInv
<1>10. ClockInv'
  <2>1. \A c \in captures : c.upTo \in Nat
    BY DEF TypeInv, Photos
  <2> QED
    BY <1>2, <1>5, <1>6, <1>7, <2>1, RowsIdentified DEF ClockInv
<1>11. KeyInv'
  BY <1>5, <1>6, <1>7 DEF KeyInv
<1>12. ServedInv'
  BY <1>5, <1>6, <1>7, <1>9, <1>10, HarvestKeepsFold
<1> QED
  BY <1>8, <1>9, <1>10, <1>11, <1>12

(* A row that one pass has written is a shock, and stays what it is when   *)
(* the pass commits.                                                       *)
Published(r, p) == IF r.by = p THEN [r EXCEPT !.by = None] ELSE r

LEMMA PublishRow ==
  ASSUME NEW p, NEW r \in MoveRows \cup ShockRows
  PROVE  /\ Published(r, p) \in MoveRows \cup ShockRows
         /\ Published(r, p).seq = r.seq /\ Published(r, p).kind = r.kind
         /\ Published(r, p).at = r.at /\ Published(r, p).bin = r.bin
         /\ Published(r, p).key = r.key
BY DEF Published, MoveRows, ShockRows

LEMMA PublishObservation ==
  ASSUME NEW p, NEW o \in Observations
  PROVE  /\ Published(o, p) \in Observations
         /\ Published(o, p).source = o.source /\ Published(o, p).ref = o.ref
         /\ Published(o, p).at = o.at /\ Published(o, p).bin = o.bin
         /\ Published(o, p).key = o.key
BY DEF Published, Observations

LEMMA CommitPassInv ==
  ASSUME BeliefInv, NEW p \in Passes, CommitPass(p)
  PROVE  /\ BeliefInv'
         /\ \A e : e.kind # "contradict" => (e \in trips' <=> e \in trips)
<1> USE DEF BeliefInv
<1>1. /\ trips' = {Published(r, p) : r \in trips} /\ obs' = {Published(o, p) : o \in obs}
      /\ UNCHANGED <<clock, tripSeq, nest, captures, todo, trusted, item, passes, crashes>>
      /\ pc' = [pc EXCEPT ![p] = "idle"]
  BY DEF CommitPass, Publish, Published
<1>2. trips \subseteq MoveRows \cup ShockRows /\ obs \subseteq Observations
  BY DEF TypeInv
<1>3. TypeInv'
  <2>1. trips' \subseteq MoveRows \cup ShockRows /\ obs' \subseteq Observations
    BY <1>1, <1>2, PublishRow, PublishObservation
  <2> QED
    BY <1>1, <2>1 DEF TypeInv
<1>4. WorkInv'
  BY <1>1 DEF WorkInv, TypeInv, Items
<1>5. ClockInv'
  BY <1>1, <1>2, PublishRow DEF ClockInv
<1>6. KeyInv'
  BY <1>1, <1>2, PublishRow, PublishObservation DEF KeyInv
<1>7. \A e : e.kind # "contradict" => (e \in trips' <=> e \in trips)
  <2>1. \A r \in trips : r.kind # "contradict" => Published(r, p) = r
    BY <1>2, HarvestAssumption DEF Published, MoveRows, ShockRows
  <2> QED
    BY <1>1, <1>2, <2>1, PublishRow
<1> QED
  BY <1>1, <1>3, <1>4, <1>5, <1>6, <1>7, HarvestKeepsFold

LEMMA KillPassInv ==
  ASSUME BeliefInv, NEW p \in Passes, KillPass(p)
  PROVE  /\ BeliefInv'
         /\ \A e : e.kind # "contradict" => (e \in trips' <=> e \in trips)
<1> USE DEF BeliefInv
<1>1. TypeInv'
  BY DEF KillPass, TypeInv
<1>2. WorkInv'
  BY DEF KillPass, WorkInv, TypeInv, Items
<1>3. ClockInv' /\ KeyInv'
  BY DEF KillPass, ClockInv, KeyInv
<1>4. \A e : e.kind # "contradict" => (e \in trips' <=> e \in trips)
  BY HarvestAssumption DEF KillPass, TypeInv, MoveRows, ShockRows
<1> QED
  BY <1>1, <1>2, <1>3, <1>4, HarvestKeepsFold DEF KillPass

LEMMA NextInv == BeliefInv /\ [Next]_vars => BeliefInv'
<1> SUFFICES ASSUME BeliefInv, [Next]_vars
             PROVE  BeliefInv'
  OBVIOUS
<1>1. CASE Owner
  BY <1>1, OwnerInv
<1>2. ASSUME NEW p \in Passes, PassStep(p) \/ KillPass(p)
      PROVE  BeliefInv'
  BY <1>2, StartPassInv, ObserveInv, UnreadInv, CompareInv, EmitShockInv,
     CommitPassInv, KillPassInv DEF PassStep
<1>3. CASE UNCHANGED vars
  BY <1>3 DEF vars, ledgers, passVars, BeliefInv, TypeInv, WorkInv, Items, ClockInv,
              KeyInv, ServedInv, Committed, DatedInTime, OwnerRows
<1> QED
  BY <1>1, <1>2, <1>3 DEF Next, Rest

(* Evidence is keyed, and what was served stands: the types of the ledgers *)
(* and passes, the items at hand, identities that are never used twice,    *)
(* the keys of evidence (record_observation, emit_contradictions), and the *)
(* location of each bin at each photo, where the owner's dates agree with  *)
(* the photo; a row may carry any date the owner names.                    *)
THEOREM BeliefInvariance == Spec => []BeliefInv
<1> QED
  BY InitInv, NextInv, PTL DEF Spec

(* A photo counts once per source and bin, as an observation and as a      *)
(* shock, however many passes overlap, are killed and start over           *)
(* (bin_harvest.py, bin_ocr_harvest.py).                                   *)
THEOREM EvidenceOnce == Spec => []EvidenceCountsOnce
<1>1. BeliefInv => EvidenceCountsOnce
  <2> SUFFICES ASSUME BeliefInv
               PROVE  EvidenceCountsOnce
    OBVIOUS
  <2>1. \A o, q \in obs :
          o.source = q.source /\ o.ref = q.ref /\ o.bin = q.bin => o = q
    BY DEF BeliefInv, KeyInv
  <2>2. ASSUME NEW e \in trips, NEW f \in trips,
               e.kind = "contradict", f.kind = "contradict",
               e.key[1] = f.key[1], e.at = f.at, e.bin = f.bin
        PROVE  e = f
    <3>1. e.key \in EvidenceKeys /\ f.key \in EvidenceKeys
      BY <2>2 DEF BeliefInv, TypeInv, MoveRows, ShockRows
    <3>2. e.key[2] = f.key[2] /\ e.key[3] = f.key[3]
      BY <2>2 DEF BeliefInv, KeyInv
    <3>3. e.key = f.key
      BY <2>2, <3>1, <3>2 DEF EvidenceKeys
    <3> QED
      BY <2>2, <3>3 DEF BeliefInv, KeyInv
  <2> QED
    BY <2>1, <2>2 DEF EvidenceCountsOnce
<1> QED
  BY <1>1, BeliefInvariance, PTL

(* A source is judged, whenever reliability is computed, by what bin_where *)
(* answered when the photo was taken, if the bin was not packed then and   *)
(* no row of the owner is dated across the photo (as_of_site,              *)
(* adjudicate_observation): of what is recorded late, the harvesters'      *)
(* shocks never count.                                                     *)
THEOREM VerdictsStand == Spec => []AsOfIsWhatWasServed
<1>1. BeliefInv => AsOfIsWhatWasServed
  <2> SUFFICES ASSUME BeliefInv, NEW o \in Committed(obs), NEW c \in captures,
                      o.ref = c.id, o.bin \notin c.packed,
                      DatedInTime(o.bin, c)
               PROVE  AsOf(Committed(trips), o.bin, o.at) = c.served[o.bin]
    BY DEF AsOfIsWhatWasServed
  <2>1. o.at = c.id /\ o.bin \in Bins
    BY DEF BeliefInv, KeyInv, TypeInv, Observations, Committed
  <2> QED
    BY <2>1 DEF BeliefInv, ServedInv
<1> QED
  BY <1>1, BeliefInvariance, PTL

(* A harvester shakes confidence and relocates no bin: a step that changes *)
(* the ledger and none of the owner's rows changes no answer of bin_where  *)
(* (emit_contradictions).                                                  *)
THEOREM HarvestsNeverRelocate == Spec => HarvestNeverRelocates
<1> DEFINE Stays == trips' # trips /\ OwnerRows' = OwnerRows
                      => \A b \in Bins : Where(b)' = Where(b)
<1>1. BeliefInv /\ [Next]_vars => [Stays]_vars
  <2> SUFFICES ASSUME BeliefInv, [Next]_vars, trips' # trips, OwnerRows' = OwnerRows
               PROVE  \A b \in Bins : Where(b)' = Where(b)
    OBVIOUS
  <2>1. BeliefInv'
    BY NextInv
  <2>2. ~Owner
    <3>1. \A e \in trips : e.seq # tripSeq
      BY RowsIdentified DEF BeliefInv, ClockInv, TypeInv
    <3>2. ASSUME NEW row, row.seq = tripSeq, row.key = <<>>, Record(row)
          PROVE  FALSE
      BY <3>1, <3>2 DEF Record, OwnerRows
    <3>3. \A kind, b, site, t, at : Row(kind, b, site, t, at).seq = tripSeq
                                   /\ Row(kind, b, site, t, at).key = <<>>
      BY DEF Row
    <3>4. \A kind, b, site, t, at : ~Record(Row(kind, b, site, t, at))
      BY <3>2, <3>3
    <3> QED
      BY <3>4 DEF Owner, Place, Load, Verify, Pack, Unpack, Photograph, ledgers
  <2>3. PICK p \in Passes : EmitShock(p) \/ CommitPass(p) \/ KillPass(p)
    BY <2>2 DEF Next, Rest, vars, PassStep, StartPass, Observe, Unread, Compare, ledgers
  <2>4. UNCHANGED <<nest, captures>>
    BY <2>3 DEF EmitShock, CommitPass, KillPass
  <2>5. \A e : e.kind # "contradict" => (e \in trips' <=> e \in trips)
    <3>1. CASE EmitShock(p)
      BY <3>1 DEF EmitShock, ShockRow
    <3> QED
      BY <2>3, <3>1, CommitPassInv, KillPassInv
  <2> QED
    BY <2>1, <2>4, <2>5, HarvestKeepsFold DEF BeliefInv
<1> QED
  BY <1>1, BeliefInvariance, PTL DEF Spec, HarvestNeverRelocates
===============================================================================
