--------------------------- MODULE MCInventoryLedger ---------------------------
(***************************************************************************)
(* Small instances of InventoryLedger: four bins, two sites, one trip.     *)
(* Each set of requests is what the clients of one behaviour may ask, in   *)
(* any order, by any session, as often as they like.  A run that asks its  *)
(* question of several sets chooses one at the start.                      *)
(***************************************************************************)
EXTENDS InventoryLedger, TLC

CONSTANTS b1, b2, b3, b4, home, cabin, t1, k1, k2, k3, k4, k5, k6

Event(kind, b, site, trip, k) ==
  [op |-> "event", kind |-> kind, bin |-> b, site |-> site, trip |-> trip, key |-> k]
Pack(b, c, k)   == [op |-> "pack", bin |-> b, box |-> c, key |-> k]
Unpack(b, c, k) == [op |-> "unpack", bin |-> b, box |-> c, key |-> k]
Place(b, s, k)  == [op |-> "place_existing", bin |-> b, site |-> s, key |-> k]
ArriveAll(t, s) == [op |-> "arrive_all", trip |-> t, site |-> s]

(* Of the bins, b4 is one that nobody has registered yet.                  *)
NewBin == [b \in {b1, b2, b3, b4} |-> IF b = b4 THEN None ELSE home]

(* Packing against moving: three packs that together would close a cycle,  *)
(* an unpack, a key used for two actions, a move and a sighting.           *)
Nests ==
  {Pack(b1, b2, k1), Pack(b2, b3, k2), Pack(b3, b1, k3), Unpack(b1, b2, k4),
   Unpack(b1, b2, k1), Event("place", b2, cabin, None, k5)}

(* Forms and scans submitted twice, with the same and with other contents, *)
(* for a bin nobody has registered yet, and malformed.                     *)
Replays ==
  {Place(b1, home, k1), Place(b1, cabin, k1), Pack(b1, b2, k2),
   Unpack(b1, b2, k2), Pack(b1, b1, k3), Place(b4, home, k3),
   Event("confirm", b4, home, None, k4), Event("fetch", b1, cabin, None, k4),
   Event("place", b1, None, None, k5)}

(* Moves, sightings and nesting at once.                                   *)
Mixed ==
  {Pack(b1, b2, k1), Unpack(b1, b2, k2), Pack(b2, b1, k3),
   Event("confirm", b1, cabin, None, k4), Event("load", b2, None, t1, k5),
   Event("open", None, cabin, t1, k6), ArriveAll(t1, None)}

(* The same, with the placement form of the bin page.                      *)
BusyDay == Mixed \cup {Place(b2, cabin, k4)}

(* A page rendered before a move submits its retrieval after it.           *)
StalePage == {Place(b1, cabin, k1), Event("fetch", b1, home, None, k2),
              Event("not_found", b1, home, None, k3)}

(* A bin loaded, arrived, and loaded again for the way back.               *)
Shuttle == {Event("load", b1, None, t1, k1), Event("load", b1, None, t1, k2),
            Event("arrive", b1, cabin, t1, k3)}

(* A double submission of a placement, and a pack between its statements.  *)
DoubleTap == {Event("place", b1, home, None, k1), Pack(b1, b2, k2)}

(* Sessions do the same things and start alike.                             *)
AlikeSessions == Permutations(Sessions)
================================================================================
