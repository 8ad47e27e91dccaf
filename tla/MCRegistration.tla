---------------------------- MODULE MCRegistration ----------------------------
(***************************************************************************)
(* Small instances of Registration: two sites, two sessions.  Each set of  *)
(* requests is what the clients of one behaviour submit.                   *)
(***************************************************************************)
EXTENDS Registration, TLC

CONSTANTS garage, storage, a1, a2, d1, d2

Register(c, site, print) ==
  [op |-> "register", code |-> c, site |-> site, print |-> print]
Quick(a, site, d) == [op |-> "quick", action |-> a, site |-> site, details |-> d]

G(n) == <<garage, n>>
S(n) == <<storage, n>>

NoCodes == {}
AtGarage == {G(1)}
AtStorage == {S(1)}
OnFile == AtGarage \cup AtStorage

(* Two quick labels for one site, one of them also with other details.     *)
QuickLabels == {Quick(a1, garage, d1), Quick(a2, garage, d1), Quick(a1, garage, d2)}

(* The registration page: for a contained bin on file and for a new one,   *)
(* with and without a label, at either site.                               *)
Pages == {Register(S(1), storage, TRUE), Register(G(2), garage, TRUE),
          Register(G(2), storage, FALSE)}

(* A quick label while a page registers the code that comes next.          *)
Contest == {Quick(a1, garage, d1), Register(G(2), garage, TRUE)}

(* Both, and a contained bin whose registration is refused halfway.         *)
Queue == Contest \cup {Register(S(1), storage, TRUE)}

AllKinds == QuickLabels \cup Pages \cup Contest

(* One page submitted again and again.                                     *)
OnePage == {Register(G(1), garage, TRUE)}

(* Sessions do the same things and start alike.                             *)
AlikeSessions == Permutations(Sessions)
===============================================================================
