----------------------------- MODULE PassportFold -----------------------------
(***************************************************************************)
(* The passport of one bin (bin_passport.py), folded from its captures: a  *)
(* registration, a profile saved on the management page (a snapshot, which *)
(* owns the fields it names, empty ones too) or a photo.                   *)
(*                                                                         *)
(* A capture carries its observed_at as `at`; no two are observed at the   *)
(* same instant.  A text is the set of items it names, {} when it is       *)
(* empty.                                                                  *)
(***************************************************************************)
EXTENDS Integers, FiniteSets, SequencesExt

CONSTANT None

Newest(rows) == CHOOSE r \in rows : \A q \in rows : q.at <= r.at

BinCaptures(rows) == {r \in rows : r.kind \in {"registration", "profile", "photo"}}
Snapshots(rows)   == {r \in rows : r.kind = "profile"}

(* _latest_profile_string: the last that says it, or that cleared it.      *)
Theme(rows) ==
  LET says == {r \in BinCaptures(rows) : r.theme # None \/ r.kind = "profile"} IN
  IF says = {} THEN None ELSE Newest(says).theme

(* Until a profile is saved, home is where the bin was registered last.    *)
HomeSite(rows) ==
  LET registered == {r \in rows : r.kind = "registration"} IN
  CASE Snapshots(rows) # {} -> Newest(Snapshots(rows)).site
    [] Snapshots(rows) = {} /\ registered # {} -> Newest(registered).site
    [] OTHER -> None

(* _sibling_contents: the texts since the last profile, each where it was  *)
(* said first; the last of them is the current one.                        *)
SiblingContents(rows) ==
  LET since == {r \in BinCaptures(rows) : \A p \in Snapshots(rows) : p.at <= r.at} IN
  {r \in since : /\ r.text # {}
                 /\ \A q \in since : q.text = r.text => r.at <= q.at}

Contents(rows) ==
  IF SiblingContents(rows) = {} THEN {} ELSE Newest(SiblingContents(rows)).text

Passport(rows) ==
  [theme |-> Theme(rows), site |-> HomeSite(rows), text |-> Contents(rows)]

Pictures(rows) == {r \in BinCaptures(rows) : r.photo # None}

(* _load_photo_hashes: the digests in the order they were observed first:  *)
(* the one at i is no earlier than i of them.                              *)
PhotoHashes(rows) ==
  LET firsts == {r \in Pictures(rows) :
                   \A q \in Pictures(rows) : q.photo = r.photo => r.at <= q.at}
      Place(r) == Cardinality({q \in firsts : q.at <= r.at})
  IN  [i \in 1..Cardinality(firsts) |-> (CHOOSE r \in firsts : Place(r) = i).photo]
===============================================================================
