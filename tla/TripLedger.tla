------------------------------ MODULE TripLedger ------------------------------
(***************************************************************************)
(* The move and trip ledger bin_trip_events (bin_inventory.py): the kinds  *)
(* of events, the shape an event must have, and the folds over rows: the   *)
(* current location of a bin, on its own and through its containers, and   *)
(* the checksum of a trip.                                                 *)
(*                                                                         *)
(* A row is an event [kind, bin, site, trip, key] with its identity seq.   *)
(* For an "open" event, site stands for the to_site column; for every      *)
(* other kind it is the site column.                                       *)
(***************************************************************************)
EXTENDS BinNesting

CONSTANTS Sites, Trips,
          Home      \* site the earlier history left each bin at, or None

EventKinds == {"place", "open", "load", "arrive", "close", "confirm",
               "contradict", "fetch", "not_found", "browse"}
LocationKinds == {"place", "load", "arrive", "confirm", "fetch", "browse"}
MoveKinds     == {"place", "load", "arrive"}
SightingKinds == LocationKinds \ MoveKinds
RetrievalKinds == {"fetch", "browse", "not_found"}

(* validate_event: what each kind of event must carry.                     *)
ValidEvent(ev) ==
  /\ ev.kind \in EventKinds
  /\ ev.kind \in {"open", "close"} <=> ev.bin = None
  /\ ev.kind \in {"open", "load", "arrive", "close"} => ev.trip # None
  /\ ev.kind \in {"place", "arrive", "confirm", "fetch", "not_found", "browse"}
       => ev.site # None

AtSite(s)    == [status |-> "at_site", site |-> s, trip |-> None]
InTransit(t) == [status |-> "in_transit", site |-> None, trip |-> t]
Unknown      == [status |-> "unknown", site |-> None, trip |-> None]
Locations    == {AtSite(s) : s \in Sites} \cup {InTransit(t) : t \in Trips}
                  \cup {Unknown}

(* Row e says where bin b is, and is the newest to do so.                  *)
Locates(e, b) == e.bin = b /\ e.kind \in LocationKinds
Decides(ledger, e, b) ==
  Locates(e, b) /\ \A f \in ledger : Locates(f, b) => f.seq <= e.seq

(* What the row that decides says: a load puts the bin on its trip, every  *)
(* other location kind at the site of the row.                             *)
LocationOf(e) == IF e.kind = "load" THEN InTransit(e.trip) ELSE AtSite(e.site)

(* fold_bin_location: of the rows that locate b, the largest seq wins.     *)
FoldBinLocation(ledger, b) ==
  IF \E e \in ledger : Decides(ledger, e, b)
    THEN LocationOf(CHOOSE e \in ledger : Decides(ledger, e, b))
    ELSE IF Home[b] = None THEN Unknown ELSE AtSite(Home[b])

(* effective_bin_location, which bin_where returns: a bin is where its     *)
(* outermost container is.                                                 *)
WhereIs(tripRows, nestRows, b) ==
  FoldBinLocation(tripRows, LocationSource(nestRows, b))

(* load_known_bin_codes: registered before, or named by any move event.    *)
Known(tripRows, b) == Home[b] # None \/ \E e \in tripRows : e.bin = b

-------------------------------------------------------------------------------
(* trip_checksum.  A bin is unaccounted for when the trip has a load of it *)
(* and no arrive of it, whatever else the ledger says about the bin.       *)
OfTrip(ledger, t, kind) == {e \in ledger : e.trip = t /\ e.kind = kind}

Loaded(ledger, t)  == {e.bin : e \in OfTrip(ledger, t, "load")}
Arrived(ledger, t) == {e.bin : e \in OfTrip(ledger, t, "arrive")}
Unaccounted(ledger, t) == Loaded(ledger, t) \ Arrived(ledger, t)

(* The to_site of the trip's first open event.                             *)
FirstOpen(ledger, t, e) ==
  /\ e \in OfTrip(ledger, t, "open")
  /\ \A f \in OfTrip(ledger, t, "open") : e.seq <= f.seq

ToSite(ledger, t) ==
  IF \E e \in ledger : FirstOpen(ledger, t, e)
    THEN (CHOOSE e \in ledger : FirstOpen(ledger, t, e)).site
    ELSE None
===============================================================================
