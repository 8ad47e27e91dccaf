--------------------------- MODULE MCLocationBelief ---------------------------
EXTENDS LocationBelief

CONSTANTS b1, b2, garage, cabin, t1, gps, gpsAgain, ocr

TwoSources == [p \in Passes |-> IF p = ocr THEN "peripheral_ocr" ELSE "photo_gps"]
Priors == [s \in Sources |-> IF s = "photo_gps" THEN [hits |-> 4, misses |-> 1]
                                                ELSE [hits |-> 3, misses |-> 2]]
Unplaced == [b \in Bins |-> None]

(* The bins start at the garage: a fix away from there, and one on the     *)
(* edge of both.                                                           *)
AwayOrEdge == {[inside |-> {cabin}, loose |-> FALSE],
               [inside |-> Sites, loose |-> FALSE]}

(* Two bins placed at the garage, the first then packed into the second or  *)
(* not; two more instants follow.                                           *)
PlacedRow(b, n) ==
  [seq |-> n, kind |-> "place", bin |-> b, site |-> garage, trip |-> None,
   at |-> n, key |-> <<>>, by |-> None]

MCInit ==
  /\ clock = 3 /\ captures = {} /\ obs = {}
  /\ trips = {PlacedRow(b1, 1), PlacedRow(b2, 2)} /\ tripSeq = 3
  /\ nest \in {{}, {[seq |-> 1, kind |-> "pack", bin |-> b1, box |-> b2]}}
  /\ pc = [p \in Passes |-> "idle"]
  /\ todo = [p \in Passes |-> {}]
  /\ trusted = [p \in Passes |-> FALSE]
  /\ item = [p \in Passes |-> NoItem]
  /\ passes = 0 /\ crashes = 0

MCSpec == MCInit /\ [][Next]_vars

(* The two processes that harvest GPS fixes are interchangeable.            *)
Symmetry == Permutations({gps, gpsAgain})
===============================================================================
