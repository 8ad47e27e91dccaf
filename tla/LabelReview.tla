------------------------------ MODULE LabelReview -----------------------------
(***************************************************************************)
(* What a bin's label says and who may change it: the management page      *)
(* (bin_photo_web/manage.py over bin_manage.py), the nightly pass that     *)
(* proposes contents from the photos and the queue of its proposals        *)
(* (bin_label_drift.py).  All of it is one append-only table of captures,  *)
(* folded when it is read.                                                 *)
(*                                                                         *)
(* One bin: nothing here relates two.  A handler's reads are a step where  *)
(* what was read may be stale when it is used; its insert and the commit   *)
(* are one, and the unique index on keys refuses a second row of a form.   *)
(* A form may be submitted again, each time with an instant of receipt of  *)
(* its own.                                                                *)
(***************************************************************************)
EXTENDS PassportFold

CONSTANTS Items,       \* things a photo may show
          Photos,      \* digests
          Profiles,    \* the theme, home site and contents the owner may save
          Requests,    \* handlers of the web service
          Horizon,     \* how long a dismissal holds: 90 days
          MaxClock,    \* bound: instants
          MaxForms,    \* bound: forms filled in
          MaxCrashes   \* bound: stops of the service

(* What is assumed of the constants, and checked of every instance.          *)
ReviewAssumption ==
  /\ None \notin Photos \cup Items
  /\ \A p \in Profiles : p.text \subseteq Items
  /\ {Horizon, MaxClock, MaxForms, MaxCrashes} \subseteq Nat

VARIABLES clock,
          captures,   \* the bin's rows of capture_evidence
          forms,      \* the forms the owner filled in, each with its action id
          req,        \* what each handler is doing
          pass,       \* what the nightly pass is doing
          printed,    \* the attempts to print, per action id
          crashes

vars == <<clock, captures, forms, req, pass, printed, crashes>>

Idle == [pc |-> "idle"]

HasKey(rows, key) == \E r \in rows : r.key = key

(* A row with the fields another kind of row would have left empty.        *)
Capture(kind, key, at) ==
  [kind |-> kind, key |-> key, at |-> at, theme |-> None, site |-> None,
   text |-> {}, photo |-> None, answers |-> None, items |-> {},
   photos |-> <<>>, was |-> None]

(* A registration that names no contents is read by its own text, here the *)
(* item None.                                                              *)
Registration(photo, at) ==
  [Capture("registration", <<"register", at>>, at) EXCEPT !.text = {None}, !.photo = photo]

Init ==
  /\ clock = 1 /\ forms = {} /\ crashes = 0 /\ pass = Idle
  /\ captures \in {{Registration(h, 0)} : h \in Photos}
  /\ req = [r \in Requests |-> Idle]
  /\ printed = [a \in 1..MaxForms |-> 0]

-------------------------------------------------------------------------------
(* The queue.                                                              *)
Of(rows, kind) == {r \in rows : r.kind = kind}

(* Slip: a dismissal holds for the proposal that was dismissed.             *)
DismissedWithProposal(rows, p, now) ==
  UNION {d.items : d \in {x \in Of(rows, "dismissal") : now - x.at < Horizon /\ x.answers = p.key}}

(* The items dismissed on these very photos, not too long ago.             *)
DismissedItems(rows, p, now) ==
  UNION {d.items : d \in {x \in Of(rows, "dismissal") :
                            /\ now - x.at \in 0..(Horizon - 1)
                            /\ x.photos = p.photos}}

(* fold_label_drift_queue for the one bin: the newest proposal, unless a   *)
(* profile was saved after it or fewer than two of its items are left.     *)
Queue(rows, now) ==
  LET proposals == Of(rows, "proposal")
      p         == Newest(proposals)
      left      == p.items \ DismissedItems(rows, p, now)
  IN  IF \/ proposals = {}
         \/ \E s \in Snapshots(rows) : s.at > p.at
         \/ Cardinality(left) < 2
        THEN {}
        ELSE {[key |-> p.key, items |-> left, photos |-> p.photos, was |-> p.was]}

-------------------------------------------------------------------------------
(* The owner fills in a form: a profile, an answer to the suggestion the   *)
(* page shows, a photo, a label.                                           *)
FillIn(form) ==
  /\ Cardinality(forms) < MaxForms
  /\ forms' = forms \cup {[action |-> Cardinality(forms) + 1, kind |-> form.kind,
                           about |-> form.about, text |-> form.text]}
  /\ UNCHANGED <<clock, captures, req, pass, printed, crashes>>

FillInProfile == \E p \in Profiles : FillIn([kind |-> "profile", about |-> p, text |-> p.text])
FillInPhoto   == \E h \in Photos : FillIn([kind |-> "photo", about |-> h, text |-> {}])
FillInPrint   == FillIn([kind |-> "print", about |-> None, text |-> {}])
FillInAnswer  ==
  \E e \in Queue(captures, clock) :
    \/ FillIn([kind |-> "review", about |-> e.key, text |-> e.was.text \cup e.items])
    \/ FillIn([kind |-> "dismissal", about |-> e.key, text |-> {}])

Submit(r, f) ==
  /\ req[r] = Idle /\ clock < MaxClock
  /\ req' = [req EXCEPT ![r] = [pc |-> "check", form |-> f, at |-> clock, saw |-> None]]
  /\ clock' = clock + 1
  /\ UNCHANGED <<captures, forms, pass, printed, crashes>>

(* f"binprofile:{code}:{action}" and the like; a contents review is saved  *)
(* under the key of a profile.                                             *)
KeyOf(f) == <<IF f.kind = "review" THEN "profile" ELSE f.kind, f.action>>

Answer(r) == req' = [req EXCEPT ![r] = Idle]

AppendRow(r, row) ==
  /\ captures' = captures \cup {row}
  /\ Answer(r)

(* A profile form: append_profile's capture, unless the action is recorded *)
(* already.                                                                *)
ProfileRow(r, theme, site) ==
  [Capture("profile", KeyOf(req[r].form), req[r].at) EXCEPT
     !.theme = theme, !.site = site, !.text = req[r].form.text]

SaveProfile(r) ==
  /\ req[r].pc = "check" /\ req[r].form.kind = "profile"
  /\ IF HasKey(captures, KeyOf(req[r].form))
       THEN Answer(r) /\ UNCHANGED captures
       ELSE AppendRow(r, ProfileRow(r, req[r].form.about.theme, req[r].form.about.site))
  /\ UNCHANGED <<clock, forms, pass, printed, crashes>>

(* A review or a dismissal: a replay is answered, an answer to anything    *)
(* but the pending proposal is refused; then what the answer is to rest on *)
(* is read: the passport, or the entry.                                    *)
Pending(r) == {e \in Queue(captures, req[r].at) : e.key = req[r].form.about}

CheckAnswer(r) ==
  /\ req[r].pc = "check" /\ req[r].form.kind \in {"review", "dismissal"}
  /\ IF HasKey(captures, KeyOf(req[r].form)) \/ Pending(r) = {}
       THEN Answer(r)
       ELSE \E e \in Pending(r) :
              req' = [req EXCEPT ![r].pc = "append",
                                 ![r].saw = IF req[r].form.kind = "review"
                                              THEN Passport(captures) ELSE e]
  /\ UNCHANGED <<clock, captures, forms, pass, printed, crashes>>

(* update_bin_profile with the theme and home site of the passport.        *)
SaveReview(r) ==
  /\ req[r].pc = "append" /\ req[r].form.kind = "review"
  /\ IF HasKey(captures, KeyOf(req[r].form))
       THEN Answer(r) /\ UNCHANGED captures
       ELSE AppendRow(r, [ProfileRow(r, req[r].saw.theme, req[r].saw.site) EXCEPT
                          !.answers = req[r].form.about])
  /\ UNCHANGED <<clock, forms, pass, printed, crashes>>

(* dismiss_label_drift_proposal                                            *)
SaveDismissal(r) ==
  /\ req[r].pc = "append" /\ req[r].form.kind = "dismissal"
  /\ IF HasKey(captures, KeyOf(req[r].form))
       THEN Answer(r) /\ UNCHANGED captures
       ELSE AppendRow(r, [Capture("dismissal", KeyOf(req[r].form), req[r].at) EXCEPT
                          !.answers = req[r].form.about,
                          !.items = req[r].saw.items, !.photos = req[r].saw.photos])
  /\ UNCHANGED <<clock, forms, pass, printed, crashes>>

(* append_bin_photo; PhotoVault has the ciphertext and the transaction.    *)
AddPhoto(r) ==
  /\ req[r].pc = "check" /\ req[r].form.kind = "photo"
  /\ IF HasKey(captures, KeyOf(req[r].form))
       THEN Answer(r) /\ UNCHANGED captures
       ELSE AppendRow(r, [Capture("photo", KeyOf(req[r].form), req[r].at) EXCEPT
                          !.photo = req[r].form.about])
  /\ UNCHANGED <<clock, forms, pass, printed, crashes>>

(* Slip: the replay is noticed and the label printed again.                 *)
ReserveAgain(r) ==
  /\ captures' = captures \cup {[Capture("print", KeyOf(req[r].form), req[r].at)
                                   EXCEPT !.was = Passport(captures)]}
  /\ req' = [req EXCEPT ![r].pc = "attempt"]

(* reserve_label_print_intent: the durable intent of one attempt.          *)
Reserve(r) ==
  IF HasKey(captures, KeyOf(req[r].form))
    THEN Answer(r) /\ UNCHANGED captures
    ELSE /\ captures' = captures \cup {[Capture("print", KeyOf(req[r].form), req[r].at)
                                          EXCEPT !.was = Passport(captures)]}
         /\ req' = [req EXCEPT ![r].pc = "attempt"]

ReservePrint(r) ==
  /\ req[r].pc = "check" /\ req[r].form.kind = "print"
  /\ Reserve(r)
  /\ UNCHANGED <<clock, forms, pass, printed, crashes>>

(* _attempt_print: sent, failed or unknown, it is not tried again.         *)
AttemptPrint(r) ==
  /\ req[r].pc = "attempt"
  /\ printed' = [printed EXCEPT ![req[r].form.action] = @ + 1]
  /\ Answer(r)
  /\ UNCHANGED <<clock, captures, forms, pass, crashes>>

(* The service stops: what its handlers had read is gone.                  *)
StopService ==
  /\ crashes < MaxCrashes /\ crashes' = crashes + 1
  /\ req' = [r \in Requests |-> Idle]
  /\ UNCHANGED <<clock, captures, forms, pass, printed>>

(* The bin is registered again: another day, another place.                *)
RegisterAgain ==
  /\ clock < MaxClock /\ clock' = clock + 1
  /\ captures' = captures \cup {Registration(None, clock)}
  /\ UNCHANGED <<forms, req, pass, printed, crashes>>

-------------------------------------------------------------------------------
(* The nightly pass; its unit is never started twice at once.  It loads    *)
(* the photos, then the passport, and asks the model only about inputs it  *)
(* has recorded nothing for.                                               *)
StartPass ==
  /\ pass = Idle /\ clock < MaxClock
  /\ pass' = [pc |-> "load", at |-> clock, photos |-> PhotoHashes(captures)]
  /\ clock' = clock + 1
  /\ UNCHANGED <<captures, forms, req, printed, crashes>>

(* _proposal_idempotency_key: the photos in any order, and the passport    *)
(* without its home site.                                                  *)
InputKey(photos, passport) ==
  <<"proposal", ToSet(photos), passport.theme, passport.text>>

LoadPassport ==
  /\ pass.pc = "load"
  /\ pass' = IF pass.photos = <<>> \/ HasKey(captures, InputKey(pass.photos, Passport(captures)))
               THEN Idle
               ELSE [pc |-> "ask", at |-> pass.at, photos |-> pass.photos,
                     passport |-> Passport(captures)]
  /\ UNCHANGED <<clock, captures, forms, req, printed, crashes>>

(* The model names items; those the contents do not name are new.          *)
RecordProposal ==
  /\ pass.pc = "ask"
  /\ \E reading \in SUBSET Items :
       captures' = captures \cup
         {[Capture("proposal", InputKey(pass.photos, pass.passport), pass.at) EXCEPT
             !.items = reading \ pass.passport.text,
             !.photos = pass.photos, !.was = pass.passport]}
  /\ pass' = Idle
  /\ UNCHANGED <<clock, forms, req, printed, crashes>>

(* A photo does not open, a model fails, or the process is killed.         *)
GiveUp ==
  /\ pass.pc = "ask"
  /\ pass' = Idle
  /\ UNCHANGED <<clock, captures, forms, req, printed, crashes>>

Tick ==
  /\ clock < MaxClock /\ clock' = clock + 1
  /\ UNCHANGED <<captures, forms, req, pass, printed, crashes>>

Rest == clock = MaxClock /\ UNCHANGED vars

-------------------------------------------------------------------------------
Handle(r) ==
  SaveProfile(r) \/ CheckAnswer(r) \/ SaveReview(r) \/ SaveDismissal(r)
    \/ AddPhoto(r) \/ ReservePrint(r) \/ AttemptPrint(r)

Next ==
  \/ FillInProfile \/ FillInPhoto \/ FillInPrint \/ FillInAnswer
  \/ \E r \in Requests, f \in forms : Submit(r, f)
  \/ \E r \in Requests : Handle(r)
  \/ StopService
  \/ RegisterAgain
  \/ StartPass \/ LoadPassport \/ RecordProposal \/ GiveUp
  \/ Tick
  \/ Rest

Spec == Init /\ [][Next]_vars

-------------------------------------------------------------------------------
(* What a print form has come to: the handlers about to print for one form *)
(* are one at most; it has reserved, and nothing was printed before.       *)
About(r, a) == req[r].pc = "attempt" /\ req[r].form.action = a

PrintInv ==
  /\ IsFiniteSet(forms)
  /\ \A f \in forms : f.action \in 1..MaxForms
  /\ printed \in [1..MaxForms -> {0, 1}]
  /\ DOMAIN req = Requests
  /\ \A r \in Requests :
       \/ req[r] = Idle
       \/ /\ req[r].form \in forms
          /\ req[r].pc = "attempt" => req[r].form.kind = "print"
  /\ \A a \in 1..MaxForms :
       /\ printed[a] = 1 => HasKey(captures, <<"print", a>>)
       /\ \A r \in Requests :
            About(r, a) => /\ HasKey(captures, <<"print", a>>)
                           /\ printed[a] = 0
                           /\ \A q \in Requests : About(q, a) => q = r

(* No photo of the bin was filed twice, not even in another session.       *)
FiledOnce == \A r, q \in captures : r.photo # None /\ q.photo = r.photo => q = r

(* An item the owner dismissed is not suggested again while the photos are *)
(* those it was dismissed on and the dismissal is fresh, whatever the      *)
(* passes find and however the label changes in between (manage.py:1037,   *)
(* "It will stay demoted unless new photo evidence arrives").  A photo     *)
(* filed again is new evidence, and one whose earlier filing is committed  *)
(* late changes the order of the photos, and may change it back.           *)
DismissedStaysDown ==
  FiledOnce =>
    \A d \in Of(captures, "dismissal"), e \in Queue(captures, clock) :
      clock - d.at < Horizon /\ d.photos = PhotoHashes(captures)
        => d.items \cap e.items = {}

(* Its inductive invariant.  Photos come and none goes, so what a later    *)
(* pass loaded has every photo an earlier one loaded; and a list of photos *)
(* that names all there are is, while each was filed once, the list there  *)
(* is.  What the owner dismissed on was loaded by a pass.                  *)
Digests(rows) == {r.photo : r \in Pictures(rows)}
Proposals == Of(captures, "proposal")

RowsInv ==
  /\ clock \in Nat /\ IsFiniteSet(captures)
  /\ \A r \in captures : r.at \in Nat /\ r.at < clock
  /\ \A r, q \in Pictures(captures) : r.at = q.at => r = q

HandlersInv ==
  /\ DOMAIN req = Requests
  /\ \A r \in Requests :
       req[r] # Idle =>
         /\ req[r].at \in Nat /\ req[r].at < clock
         /\ \A q \in Requests : req[q] # Idle /\ req[q].at = req[r].at => q = r
         /\ req[r].form.kind = "photo" => \A x \in Pictures(captures) : x.at # req[r].at
         /\ req[r].pc = "append" /\ req[r].form.kind = "dismissal" =>
              \E p \in Proposals : req[r].saw.photos = p.photos

Loaded(photos) ==
  /\ ToSet(photos) \subseteq Digests(captures)
  /\ FiledOnce /\ ToSet(photos) = Digests(captures) => photos = PhotoHashes(captures)

PassInv ==
  /\ \A p \in Proposals :
       /\ Loaded(p.photos)
       /\ \A q \in Proposals : p.at <= q.at => ToSet(p.photos) \subseteq ToSet(q.photos)
  /\ pass # Idle =>
       /\ pass.at \in Nat /\ pass.at < clock /\ Loaded(pass.photos)
       /\ \A p \in Proposals : p.at < pass.at /\ ToSet(p.photos) \subseteq ToSet(pass.photos)
  /\ \A d \in Of(captures, "dismissal") : \E p \in Proposals : d.photos = p.photos

DownInv == RowsInv /\ HandlersInv /\ PassInv

(* Whatever is submitted again, raced or cut off, a print form makes one   *)
(* attempt, and only after its intent is on record.                        *)
OneAttemptPerForm ==
  \A a \in DOMAIN printed :
    /\ printed[a] <= 1
    /\ printed[a] = 1 => HasKey(captures, <<"print", a>>)
===============================================================================
