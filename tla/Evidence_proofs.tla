--------------------------- MODULE Evidence_proofs ----------------------------
(***************************************************************************)
(* Proofs about the owner's signals (OwnerSignals), and about the transfer *)
(* of the evidence (EvidenceTransfer) and the review of a label            *)
(* (LabelReview), which share no state with them nor with each other.      *)
(***************************************************************************)
EXTENDS EvidenceParts, ReviewedLabels, FiniteSetTheorems, TLAPS

-------------------------------------------------------------------------------
(* The print forms of the management page.                                 *)

(* The instances have finite sets of their own.                            *)
LEMMA SameFiniteSets ==
  /\ \A S : L!IsFiniteSet(S) <=> IsFiniteSet(S)
  /\ \A S : L!Cardinality(S) = Cardinality(S)
BY DEF L!IsFiniteSet, IsFiniteSet, L!Cardinality, Cardinality

LEMMA SignalsFiniteSets ==
  /\ \A S : Sig!IsFiniteSet(S) <=> IsFiniteSet(S)
  /\ \A S : Sig!Cardinality(S) = Cardinality(S)
BY DEF Sig!IsFiniteSet, IsFiniteSet, Sig!Cardinality, Cardinality

LEMMA InitPrintInv ==
  ASSUME L!ReviewAssumption, L!Init
  PROVE  L!PrintInv
<1>1. \A r \in Handlers : handling[r] = L!Idle /\ handling[r].pc # "attempt"
  BY DEF L!Init, L!Idle
<1>2. \A r \in Handlers, a \in 1..MaxForms : ~L!About(r, a)
  BY <1>1 DEF L!About
<1>3. L!IsFiniteSet(forms)
  BY FS_EmptySet, SameFiniteSets DEF L!Init
<1>4. /\ printed = [a \in 1..MaxForms |-> 0] /\ forms = {}
      /\ DOMAIN handling = Handlers
  BY DEF L!Init
<1>5. \A a \in 1..MaxForms : printed[a] = 0
  BY <1>4
<1> QED BY <1>1, <1>2, <1>3, <1>4, <1>5 DEF L!PrintInv

(* A step that lets captures grow, prints nothing and brings no handler    *)
(* nearer to a printer keeps it.                                           *)
LEMMA QuietStepsKeepPrintInv ==
  ASSUME L!PrintInv, filed \subseteq filed', forms' = forms, printed' = printed,
         DOMAIN handling' = Handlers,
         \A r \in Handlers :
           \/ handling'[r] = handling[r]
           \/ handling'[r] = L!Idle
           \/ handling'[r].form \in forms /\ handling'[r].pc # "attempt"
  PROVE  L!PrintInv'
<1>1. \A r \in Handlers, a \in 1..MaxForms : L!About(r, a)' => L!About(r, a)
  BY DEF L!About, L!Idle
<1>2. \A k : L!HasKey(filed, k) => L!HasKey(filed, k)'
  BY DEF L!HasKey
<1>3. \A r \in Handlers :
        \/ handling'[r] = L!Idle
        \/ handling'[r].form \in forms /\ (handling'[r].pc = "attempt" => handling'[r].form.kind = "print")
  BY DEF L!PrintInv
<1>4. \A a \in 1..MaxForms :
        /\ printed[a] = 1 => L!HasKey(filed, <<"print", a>>)'
        /\ \A r \in Handlers :
             L!About(r, a)' => /\ L!HasKey(filed, <<"print", a>>)'
                               /\ printed[a] = 0
                               /\ \A q \in Handlers : L!About(q, a)' => q = r
  BY <1>1, <1>2 DEF L!PrintInv
<1> QED BY <1>3, <1>4 DEF L!PrintInv

(* What the invariant says of one action id.                               *)
LEMMA OfOneForm ==
  ASSUME L!PrintInv, NEW a \in 1..MaxForms
  PROVE  /\ printed[a] \in {0, 1}
         /\ printed[a] = 1 => L!HasKey(filed, <<"print", a>>)
         /\ \A r \in Handlers :
              L!About(r, a) => /\ L!HasKey(filed, <<"print", a>>)
                               /\ printed[a] = 0
                               /\ \A q \in Handlers : L!About(q, a) => q = r
BY DEF L!PrintInv

LEMMA FillInKeepsPrintInv ==
  ASSUME L!ReviewAssumption, L!PrintInv, NEW form, L!FillIn(form)
  PROVE  L!PrintInv'
<1>1. IsFiniteSet(forms) /\ Cardinality(forms) \in Nat /\ Cardinality(forms) < MaxForms
  BY FS_CardinalityType, SameFiniteSets DEF L!PrintInv, L!FillIn
<1>2. Cardinality(forms) + 1 \in 1..MaxForms
  BY <1>1 DEF L!ReviewAssumption
<1> DEFINE f == [action |-> Cardinality(forms) + 1, kind |-> form.kind,
                 about |-> form.about, text |-> form.text]
<1>3. forms' = forms \cup {f} /\ f.action = Cardinality(forms) + 1
  BY SameFiniteSets DEF L!FillIn
<1> HIDE DEF f
<1>4. IsFiniteSet(forms') /\ \A g \in forms' : g.action \in 1..MaxForms
  BY <1>1, <1>2, <1>3, FS_AddElement DEF L!PrintInv
<1>5. \A r, a : L!About(r, a)' <=> L!About(r, a)
  BY DEF L!About, L!FillIn
<1>6. \A k : L!HasKey(filed, k)' <=> L!HasKey(filed, k)
  BY DEF L!FillIn
<1> QED BY <1>3, <1>4, <1>5, <1>6, SameFiniteSets DEF L!PrintInv, L!FillIn

LEMMA SubmitKeepsPrintInv ==
  ASSUME L!PrintInv, NEW r \in Handlers, NEW f \in forms, L!Submit(r, f)
  PROVE  L!PrintInv'
<1>1. handling' = [handling EXCEPT ![r] = [pc |-> "check", form |-> f, at |-> instant,
                                 saw |-> Nothing]]
  BY DEF L!Submit
<1>2. \A q \in Handlers : \/ handling'[q] = handling[q]
                          \/ handling'[q].form \in forms /\ handling'[q].pc # "attempt"
  BY <1>1 DEF L!PrintInv
<1> QED BY <1>1, <1>2, QuietStepsKeepPrintInv DEF L!PrintInv, L!Submit

(* The rows of Reserve: the label is reserved once, under the form's key.  *)
LEMMA ReserveKeepsPrintInv ==
  ASSUME L!PrintInv, NEW r \in Handlers, L!ReservePrint(r)
  PROVE  L!PrintInv'
<1>0. PICK a : a = handling[r].form.action
  OBVIOUS
<1> DEFINE key == <<"print", a>>
<1>1. /\ handling[r].pc = "check" /\ handling[r].form.kind = "print" /\ L!KeyOf(handling[r].form) = key
      /\ L!Reserve(r) /\ printed' = printed /\ forms' = forms
  BY <1>0 DEF L!ReservePrint, L!KeyOf
<1>2. handling[r] # L!Idle /\ handling[r].form \in forms /\ a \in 1..MaxForms
  BY <1>0, <1>1 DEF L!PrintInv, L!Idle
<1>3. CASE L!HasKey(filed, key)
  BY <1>1, <1>3, QuietStepsKeepPrintInv DEF L!Reserve, L!Answer, L!PrintInv
<1>4. CASE ~L!HasKey(filed, key)
  <2> DEFINE row == [L!Capture("print", key, handling[r].at) EXCEPT !.was = L!Passport(filed)]
  <2>0. row.key = key
    BY DEF L!Capture
  <2>1. handling' = [handling EXCEPT ![r].pc = "attempt"] /\ filed' = filed \cup {row}
    BY <1>1, <1>4 DEF L!Reserve
  <2> HIDE DEF row
  <2>9. filed \subseteq filed' /\ L!HasKey(filed, key)'
    BY <2>0, <2>1 DEF L!HasKey
  <2>2. /\ handling'[r].pc = "attempt" /\ handling'[r].form = handling[r].form
        /\ \A q \in Handlers \ {r} : handling'[q] = handling[q]
        /\ DOMAIN handling' = Handlers
    BY <1>1, <1>2, <2>1 DEF L!PrintInv
  <2>3. \A q \in Handlers, b \in 1..MaxForms :
          L!About(q, b)' <=> L!About(q, b) \/ (q = r /\ b = a)
    BY <1>0, <1>1, <2>2 DEF L!About
  <2>4. \A q \in Handlers : ~L!About(q, a)
    BY <1>2, <1>4, OfOneForm
  <2>5. printed[a] = 0
    BY <1>2, <1>4, OfOneForm
  <2>6. \A k : L!HasKey(filed, k) => L!HasKey(filed, k)'
    BY <2>9 DEF L!HasKey
  <2>7. \A b \in 1..MaxForms :
          /\ printed[b] = 1 => L!HasKey(filed, <<"print", b>>)'
          /\ \A q \in Handlers :
               L!About(q, b)' => /\ L!HasKey(filed, <<"print", b>>)'
                                 /\ printed[b] = 0
                                 /\ \A p \in Handlers : L!About(p, b)' => p = q
    <3> SUFFICES ASSUME NEW b \in 1..MaxForms
                 PROVE  /\ printed[b] = 1 => L!HasKey(filed, <<"print", b>>)'
                        /\ \A q \in Handlers :
                             L!About(q, b)' =>
                               /\ L!HasKey(filed, <<"print", b>>)'
                               /\ printed[b] = 0
                               /\ \A p \in Handlers : L!About(p, b)' => p = q
      OBVIOUS
    <3>1. CASE b = a
      BY <2>3, <2>4, <2>5, <2>9, <3>1
    <3>2. CASE b # a
      <4>1. \A q \in Handlers : L!About(q, b)' <=> L!About(q, b)
        BY <2>3, <3>2 DEF L!About
      <4>2. L!HasKey(filed, <<"print", b>>) => L!HasKey(filed, <<"print", b>>)'
        BY <2>6 DEF L!HasKey
      <4>3. \A q \in Handlers :
              L!About(q, b) => /\ L!HasKey(filed, <<"print", b>>)
                               /\ printed[b] = 0
                               /\ \A p \in Handlers : L!About(p, b) => p = q
        BY OfOneForm
      <4>4. printed[b] = 1 => L!HasKey(filed, <<"print", b>>)
        BY OfOneForm
      <4>5. \A q \in Handlers : L!About(q, b)' => \A p \in Handlers : L!About(p, b)' => p = q
        BY <4>1, <4>3 DEF L!About
      <4> QED BY <4>1, <4>2, <4>3, <4>4, <4>5 DEF L!About
    <3> QED BY <3>1, <3>2
  <2> QED BY <1>1, <1>2, <2>2, <2>7 DEF L!PrintInv
<1> QED BY <1>3, <1>4

LEMMA AttemptKeepsPrintInv ==
  ASSUME L!PrintInv, NEW r \in Handlers, L!AttemptPrint(r)
  PROVE  L!PrintInv'
<1>0. PICK a : a = handling[r].form.action
  OBVIOUS
<1>1. /\ handling[r].pc = "attempt" /\ handling' = [handling EXCEPT ![r] = L!Idle]
      /\ printed' = [printed EXCEPT ![a] = @ + 1]
      /\ forms' = forms /\ filed' = filed
  BY <1>0 DEF L!AttemptPrint, L!Answer
<1>2. handling[r] # L!Idle /\ a \in 1..MaxForms /\ L!About(r, a)
  BY <1>0, <1>1 DEF L!PrintInv, L!Idle, L!About
<1>3. printed[a] = 0 /\ L!HasKey(filed, <<"print", a>>)
  BY <1>2 DEF L!PrintInv
<1>4. /\ printed' \in [1..MaxForms -> {0, 1}] /\ printed'[a] = 1
      /\ \A b \in 1..MaxForms : b # a => printed'[b] = printed[b]
  BY <1>1, <1>2, <1>3 DEF L!PrintInv
<1>5. /\ handling'[r] = L!Idle /\ DOMAIN handling' = Handlers
      /\ \A q \in Handlers \ {r} : handling'[q] = handling[q]
  BY <1>1 DEF L!PrintInv
<1>6. \A q \in Handlers, b \in 1..MaxForms : L!About(q, b)' => L!About(q, b) /\ q # r
  BY <1>5 DEF L!About, L!Idle
<1>7. \A q \in Handlers : ~L!About(q, a)'
  <2>1. \A q \in Handlers : L!About(q, a) => q = r
    BY <1>2, OfOneForm
  <2> QED BY <1>2, <1>6, <2>1 DEF L!About
<1>8. \A k : L!HasKey(filed, k) <=> L!HasKey(filed, k)'
  BY <1>1 DEF L!HasKey
<1>9. \A b \in 1..MaxForms :
        /\ printed'[b] = 1 => L!HasKey(filed, <<"print", b>>)'
        /\ \A q \in Handlers :
             L!About(q, b)' => /\ L!HasKey(filed, <<"print", b>>)'
                               /\ printed'[b] = 0
                               /\ \A p \in Handlers : L!About(p, b)' => p = q
  <2> SUFFICES ASSUME NEW b \in 1..MaxForms
               PROVE  /\ printed'[b] = 1 => L!HasKey(filed, <<"print", b>>)'
                      /\ \A q \in Handlers :
                           L!About(q, b)' =>
                             /\ L!HasKey(filed, <<"print", b>>)'
                             /\ printed'[b] = 0
                             /\ \A p \in Handlers : L!About(p, b)' => p = q
    OBVIOUS
  <2>1. CASE b = a
    BY <1>3, <1>7, <1>8, <2>1
  <2>2. CASE b # a
    <3>1. \A q \in Handlers : L!About(q, b)' => L!About(q, b)
      BY <1>6 DEF L!About
    <3>2. L!HasKey(filed, <<"print", b>>) => L!HasKey(filed, <<"print", b>>)'
      BY <1>8 DEF L!HasKey
    <3>3. \A q \in Handlers :
            L!About(q, b) => /\ L!HasKey(filed, <<"print", b>>)
                             /\ printed[b] = 0
                             /\ \A p \in Handlers : L!About(p, b) => p = q
      BY OfOneForm
    <3>4. printed[b] = 1 => L!HasKey(filed, <<"print", b>>)
      BY OfOneForm
    <3>5. printed'[b] = printed[b]
      BY <1>4, <2>2
    <3>6. \A q \in Handlers : L!About(q, b)' => \A p \in Handlers : L!About(p, b)' => p = q
      BY <3>1, <3>3 DEF L!About
    <3> QED BY <3>1, <3>2, <3>3, <3>4, <3>5, <3>6 DEF L!About
  <2> QED BY <2>1, <2>2
<1> QED BY <1>1, <1>4, <1>5, <1>9 DEF L!PrintInv

(* What every other step of the page, of the service and of the pass does. *)
LEMMA HandlersKeepPrintInv ==
  ASSUME L!PrintInv, NEW r \in Handlers, L!Handle(r)
  PROVE  L!PrintInv'
<1>1. CASE L!SaveProfile(r) \/ L!SaveReview(r) \/ L!SaveDismissal(r) \/ L!AddPhoto(r)
  <2>1. /\ handling' = [handling EXCEPT ![r] = L!Idle] /\ filed \subseteq filed'
        /\ forms' = forms /\ printed' = printed
    BY <1>1 DEF L!SaveProfile, L!SaveReview, L!SaveDismissal, L!AddPhoto, L!AppendRow,
                L!Answer
  <2> QED BY <2>1, QuietStepsKeepPrintInv DEF L!PrintInv
<1>2. CASE L!CheckAnswer(r)
  <2>1. CASE handling' = [handling EXCEPT ![r] = L!Idle]
    BY <1>2, <2>1, QuietStepsKeepPrintInv DEF L!CheckAnswer, L!PrintInv
  <2>2. CASE handling' # [handling EXCEPT ![r] = L!Idle]
    <3>1. PICK saw : handling' = [handling EXCEPT ![r].pc = "append", ![r].saw = saw]
      BY <1>2, <2>2 DEF L!CheckAnswer, L!Answer
    <3>2. handling[r] # L!Idle /\ handling[r].form \in forms
      BY <1>2 DEF L!CheckAnswer, L!PrintInv, L!Idle
    <3>3. /\ handling'[r].pc = "append" /\ handling'[r].form = handling[r].form
          /\ \A q \in Handlers \ {r} : handling'[q] = handling[q]
          /\ DOMAIN handling' = Handlers
      BY <3>1, <3>2 DEF L!PrintInv
    <3>4. \A q \in Handlers : \/ handling'[q] = handling[q]
                              \/ handling'[q].form \in forms /\ handling'[q].pc # "attempt"
      BY <3>2, <3>3
    <3> QED BY <1>2, <3>3, <3>4, QuietStepsKeepPrintInv DEF L!CheckAnswer
  <2> QED BY <2>1, <2>2
<1> QED BY <1>1, <1>2, ReserveKeepsPrintInv, AttemptKeepsPrintInv DEF L!Handle

LEMMA StepKeepsPrintInv ==
  ASSUME L!ReviewAssumption, L!PrintInv, [L!Next]_(L!vars)
  PROVE  L!PrintInv'
<1>1. CASE L!FillInProfile \/ L!FillInPhoto \/ L!FillInPrint \/ L!FillInAnswer
  BY <1>1, FillInKeepsPrintInv
     DEF L!FillInProfile, L!FillInPhoto, L!FillInPrint, L!FillInAnswer
<1>2. CASE \E r \in Handlers, f \in forms : L!Submit(r, f)
  BY <1>2, SubmitKeepsPrintInv
<1>3. CASE \E r \in Handlers : L!Handle(r)
  BY <1>3, HandlersKeepPrintInv
<1>4. CASE L!StopService
  <2>1. /\ \A r \in Handlers : handling'[r] = L!Idle
        /\ DOMAIN handling' = Handlers /\ filed' = filed /\ forms' = forms
        /\ printed' = printed
    BY <1>4 DEF L!StopService
  <2> QED BY <2>1, QuietStepsKeepPrintInv
<1>5. CASE L!RegisterAgain \/ L!StartPass \/ L!LoadPassport \/ L!RecordProposal
             \/ L!GiveUp \/ L!Tick \/ UNCHANGED L!vars
  <2>1. handling' = handling /\ filed \subseteq filed' /\ forms' = forms /\ printed' = printed
    BY <1>5 DEF L!RegisterAgain, L!StartPass, L!LoadPassport, L!RecordProposal, L!GiveUp,
                L!Tick, L!vars
  <2> QED BY <2>1, QuietStepsKeepPrintInv DEF L!PrintInv
<1> QED BY <1>1, <1>2, <1>3, <1>4, <1>5 DEF L!Next, L!Rest

(* The page prints a label (manage.py, _attempt_print): whatever the owner *)
(* submits again, races or cuts off, and whenever the service stops, a     *)
(* print form makes one attempt at most, and after its intent is on record.*)
THEOREM OneAttempt == L!Spec => []OneAttemptPerForm
<1>1. L!PrintInv => L!OneAttemptPerForm
  <2> SUFFICES ASSUME L!PrintInv, NEW a \in DOMAIN printed
               PROVE  printed[a] <= 1 /\ (printed[a] = 1 => L!HasKey(filed, <<"print", a>>))
    BY DEF L!OneAttemptPerForm
  <2>1. a \in 1..MaxForms
    BY DEF L!PrintInv
  <2> QED BY <2>1, OfOneForm
<1>2. L!Init => L!PrintInv
  BY InitPrintInv, ReviewIsGiven
<1>3. L!PrintInv /\ [L!Next]_(L!vars) => L!PrintInv'
  BY StepKeepsPrintInv, ReviewIsGiven
<1> QED BY <1>1, <1>2, <1>3, PTL DEF L!Spec, OneAttemptPerForm

-------------------------------------------------------------------------------
(* Rows in time.                                                           *)

(* Any numbers have a smallest one.                                        *)
LEMMA SmallestNumber ==
  ASSUME NEW S \in SUBSET Nat, S # {}
  PROVE  \E x \in S : \A y \in S : x <= y
<1> DEFINE R == {p \in Nat \X Nat : p[1] < p[2]}
<1>1. IsWellFoundedOn(R, Nat)
  BY NatLessThanWellFounded DEF OpToRel
<1>2. \A x, y \in Nat : x < y => <<x, y>> \in R
  OBVIOUS
<1> HIDE DEF R
<1>3. PICK x \in S : \A y \in S : ~ (<<y, x>> \in R)
  BY <1>1, WFMin
<1>4. ASSUME NEW y \in S PROVE x <= y
  <2>1. x \in Nat /\ y \in Nat /\ ~(y < x)
    BY <1>2, <1>3
  <2> QED BY <2>1
<1> QED BY <1>4

LEMMA OldestExists ==
  ASSUME NEW R, R # {}, \A r \in R : r.at \in Nat
  PROVE  \E r \in R : \A q \in R : r.at <= q.at
<1> DEFINE S == {r.at : r \in R}
<1>1. S \in SUBSET Nat /\ S # {}
  OBVIOUS
<1>2. PICK x \in S : \A y \in S : x <= y
  BY <1>1, SmallestNumber
<1> QED BY <1>2

LEMMA NewestExists ==
  ASSUME NEW R, R # {}, NEW n \in Nat, \A r \in R : r.at \in Nat /\ r.at < n
  PROVE  L!Newest(R) \in R /\ \A q \in R : q.at <= L!Newest(R).at
<1> DEFINE S == {n - r.at : r \in R}
<1>1. S \in SUBSET Nat /\ S # {}
  OBVIOUS
<1>2. PICK x \in S : \A y \in S : x <= y
  BY <1>1, SmallestNumber
<1>3. PICK r \in R : x = n - r.at
  BY <1>2
<1>4. \A q \in R : n - r.at <= n - q.at
  BY <1>2, <1>3
<1>5. \A q \in R : q.at <= r.at
  BY <1>4
<1> QED BY <1>5 DEF L!Newest

(* Numbering finitely many rows by how many are no later: every number up  *)
(* to their count is the place of one row, and of no other.                *)
LEMMA PlacesAreNumbers ==
  ASSUME NEW F, IsFiniteSet(F), \A r \in F : r.at \in Nat,
         \A r, q \in F : r.at = q.at => r = q
  PROVE  LET Place(r) == Cardinality({q \in F : q.at <= r.at})
         IN  /\ \A r \in F : Place(r) \in 1..Cardinality(F)
             /\ \A r, q \in F : Place(r) = Place(q) => r = q
             /\ \A i \in 1..Cardinality(F) : \E r \in F : Place(r) = i
<1> DEFINE Upto(r) == {q \in F : q.at <= r.at}
           Place(r) == Cardinality(Upto(r))
           n == Cardinality(F)
<1>1. n \in Nat
  BY FS_CardinalityType
<1>2. \A r \in F : /\ IsFiniteSet(Upto(r)) /\ r \in Upto(r)
                   /\ Place(r) \in Nat /\ Place(r) <= n
  BY FS_Subset, FS_CardinalityType
<1>3. \A r \in F : Place(r) \in 1..n
  <2> TAKE r \in F
  <2>1. Place(r) # 0
    BY <1>2, FS_EmptySet
  <2>2. Place(r) \in Nat /\ Place(r) <= n
    BY <1>2
  <2> HIDE DEF Place, n
  <2> QED BY <1>1, <2>1, <2>2
<1>4. ASSUME NEW r \in F, NEW q \in F, r.at < q.at
      PROVE  Place(r) # Place(q)
  <2>1. Upto(r) \in SUBSET Upto(q)
    BY <1>4
  <2>2. q \in Upto(q) /\ q \notin Upto(r)
    BY <1>4
  <2> QED BY <1>2, <2>1, <2>2, FS_Subset
<1>5. \A r, q \in F : Place(r) = Place(q) => r = q
  <2> SUFFICES ASSUME NEW r \in F, NEW q \in F, r # q PROVE Place(r) # Place(q)
    OBVIOUS
  <2>1. r.at < q.at \/ q.at < r.at
    OBVIOUS
  <2> QED BY <1>4, <2>1
<1> DEFINE f == [r \in F |-> Place(r)]
<1>6. f \in [F -> 1..n] /\ \A r \in F : f[r] = Place(r)
  BY <1>3
<1> HIDE DEF Place, n
<1>7. f \in Injection(F, 1..n)
  BY <1>5, <1>6 DEF Injection, IsInjective
<1>8. IsFiniteSet(1..n) /\ Cardinality(1..n) = n
  BY <1>1, FS_Interval
<1>9. f \in Surjection(F, 1..n)
  BY <1>7, <1>8, FS_Injection DEF n
<1>10. \A i \in 1..n : \E r \in F : Place(r) = i
  BY <1>6, <1>9 DEF Surjection
<1> QED BY <1>3, <1>5, <1>10 DEF Place, n

-------------------------------------------------------------------------------
(* The photos of a bin.                                                    *)

(* Photos are listed by nothing but the rows that have one.                *)
LEMMA PicturesDecideHashes ==
  ASSUME NEW R, NEW S, L!Pictures(R) = L!Pictures(S)
  PROVE  L!PhotoHashes(R) = L!PhotoHashes(S) /\ L!Digests(R) = L!Digests(S)
BY DEF L!PhotoHashes, L!Digests

(* The list of the photos names every photo, and nothing else.             *)
LEMMA HashesNameAll ==
  ASSUME NEW ledger, IsFiniteSet(ledger), \A r \in ledger : r.at \in Nat,
         \A r, q \in L!Pictures(ledger) : r.at = q.at => r = q
  PROVE  L!ToSet(L!PhotoHashes(ledger)) = L!Digests(ledger)
<1> DEFINE P == L!Pictures(ledger)
           F == {r \in P : \A q \in P : q.photo = r.photo => r.at <= q.at}
           Place(r) == L!Cardinality({q \in F : q.at <= r.at})
           n == L!Cardinality(F)
           at(i) == CHOOSE r \in F : Place(r) = i
<1>1. L!PhotoHashes(ledger) = [i \in 1..n |-> at(i).photo]
  BY DEF L!PhotoHashes
<1>2. P \subseteq ledger /\ IsFiniteSet(F)
  BY FS_Subset DEF L!Pictures, L!BinCaptures
<1>3. /\ \A r \in F : Place(r) \in 1..n
      /\ \A r, q \in F : Place(r) = Place(q) => r = q
      /\ \A i \in 1..n : \E r \in F : Place(r) = i
  <2>1. \A r \in F : r.at \in Nat
    BY <1>2
  <2>2. \A r, q \in F : r.at = q.at => r = q
    OBVIOUS
  <2> HIDE DEF F
  <2> DEFINE Upto(r) == {q \in F : q.at <= r.at}
  <2>3. /\ \A r \in F : Cardinality(Upto(r)) \in 1..Cardinality(F)
        /\ \A r, q \in F : Cardinality(Upto(r)) = Cardinality(Upto(q)) => r = q
        /\ \A i \in 1..Cardinality(F) : \E r \in F : Cardinality(Upto(r)) = i
    BY <1>2, <2>1, <2>2, PlacesAreNumbers
  <2>4. n = Cardinality(F) /\ \A r : Place(r) = Cardinality(Upto(r))
    BY SameFiniteSets
  <2> HIDE DEF Place, n, Upto
  <2> QED BY <2>3, <2>4
<1> HIDE DEF Place, n
<1>4. \A i \in 1..n : at(i) \in F /\ Place(at(i)) = i
  BY <1>3
<1> HIDE DEF at
<1>5. L!ToSet(L!PhotoHashes(ledger)) = {at(i).photo : i \in 1..n}
  BY <1>1 DEF L!ToSet
<1>6. \A i \in 1..n : at(i).photo \in L!Digests(ledger)
  BY <1>4 DEF L!Digests
<1>7. ASSUME NEW x \in P PROVE \E i \in 1..n : at(i).photo = x.photo
  <2> DEFINE R == {q \in P : q.photo = x.photo}
  <2>1. R # {} /\ \A q \in R : q.at \in Nat
    BY <1>2
  <2> HIDE DEF R
  <2>2. PICK r \in R : \A q \in R : r.at <= q.at
    BY <2>1, OldestExists
  <2>3. r \in F /\ r.photo = x.photo
    BY <2>2 DEF R
  <2> HIDE DEF F
  <2> QED BY <1>3, <1>4, <2>3
<1>8. L!Digests(ledger) \subseteq {at(i).photo : i \in 1..n}
  BY <1>7 DEF L!Digests
<1> QED BY <1>5, <1>6, <1>8

(* A row is added: what a pass has loaded is still what there was then.    *)
LEMMA LoadedStays ==
  ASSUME L!RowsInv, NEW photos, L!Loaded(photos), NEW row, filed' = filed \cup {row},
         row \in L!Pictures({row}) => \A x \in L!Pictures(filed) : x.at # row.at
  PROVE  L!Loaded(photos)'
<1>1. L!Pictures(filed') = L!Pictures(filed) \cup L!Pictures({row})
  BY DEF L!Pictures, L!BinCaptures
<1>2. L!FiledOnce' => L!FiledOnce
  BY DEF L!FiledOnce
<1>3. CASE row \notin L!Pictures({row})
  <2>1. L!Pictures(filed') = L!Pictures(filed)
    BY <1>1, <1>3 DEF L!Pictures, L!BinCaptures
  <2>2. /\ L!PhotoHashes(filed') = L!PhotoHashes(filed)
        /\ L!Digests(filed') = L!Digests(filed)
    BY <2>1, PicturesDecideHashes
  <2> QED BY <1>2, <2>2 DEF L!Loaded
<1>4. CASE row \in L!Pictures({row})
  <2>1. L!Digests(filed') = L!Digests(filed) \cup {row.photo}
    BY <1>1, <1>4 DEF L!Digests, L!Pictures, L!BinCaptures
  <2>2. ASSUME L!FiledOnce', row.photo \in L!Digests(filed) PROVE FALSE
    <3>1. PICK y \in L!Pictures(filed) : y.photo = row.photo
      BY <2>2 DEF L!Digests
    <3>2. y # row /\ y \in filed' /\ row \in filed' /\ row.photo # Nothing
      BY <1>4, <3>1 DEF L!Pictures, L!BinCaptures
    <3> QED BY <2>2, <3>1, <3>2 DEF L!FiledOnce
  <2> QED BY <2>1, <2>2 DEF L!Loaded
<1> QED BY <1>3, <1>4

LEMMA InitDown ==
  ASSUME L!ReviewAssumption, L!Init
  PROVE  L!DownInv
<1>1. PICK h \in Shots : filed = {L!Registration(h, 0)}
  BY DEF L!Init
<1> DEFINE row == L!Registration(h, 0)
<1>2. row.kind = "registration" /\ row.at = 0
  BY DEF L!Registration, L!Capture
<1> HIDE DEF row
<1>3. L!RowsInv
  <2>1. filed = {row} /\ instant = 1
    BY <1>1 DEF L!Init, row
  <2>2. L!IsFiniteSet(filed)
    BY <2>1, FS_Singleton, SameFiniteSets
  <2>3. L!Pictures(filed) \subseteq {row}
    BY <2>1 DEF L!Pictures, L!BinCaptures
  <2> QED BY <1>2, <2>1, <2>2, <2>3 DEF L!RowsInv
<1>4. \A r \in Handlers : handling[r] = L!Idle
  BY DEF L!Init
<1>5. L!HandlersInv
  BY <1>4 DEF L!Init, L!HandlersInv
<1>6. L!Proposals = {} /\ L!Of(filed, "dismissal") = {}
  BY <1>1, <1>2 DEF L!Proposals, L!Of, row
<1>7. L!PassInv
  BY <1>6 DEF L!Init, L!PassInv
<1> QED BY <1>3, <1>5, <1>7 DEF L!DownInv

(* What a row must be like to be added.                                    *)
LEMMA RowKeepsRows ==
  ASSUME L!RowsInv, NEW row, filed' = filed \cup {row},
         instant' \in Nat, instant <= instant', row.at \in Nat, row.at < instant',
         row \in L!Pictures({row}) => \A x \in L!Pictures(filed) : x.at # row.at
  PROVE  L!RowsInv'
<1>1. L!Pictures(filed') \subseteq L!Pictures(filed) \cup L!Pictures({row})
  BY DEF L!Pictures, L!BinCaptures
<1>2. L!Pictures({row}) \subseteq {row}
  BY DEF L!Pictures, L!BinCaptures
<1>3. IsFiniteSet(filed')
  BY FS_AddElement, SameFiniteSets DEF L!RowsInv
<1>4. \A r \in filed' : r.at \in Nat /\ r.at < instant'
  BY DEF L!RowsInv
<1>5. \A r, q \in L!Pictures(filed') : r.at = q.at => r = q
  BY <1>1, <1>2 DEF L!RowsInv
<1> QED BY <1>3, <1>4, <1>5, SameFiniteSets DEF L!RowsInv

LEMMA RowKeepsPass ==
  ASSUME L!RowsInv, L!PassInv, NEW row, filed' = filed \cup {row},
         pass' = pass, instant \in Nat, instant' \in Nat, instant <= instant',
         row \in L!Pictures({row}) => \A x \in L!Pictures(filed) : x.at # row.at,
         row.kind # "proposal",
         row.kind = "dismissal" => \E p \in L!Proposals : row.photos = p.photos
  PROVE  L!PassInv'
<1>1. L!Proposals' = L!Proposals
  BY DEF L!Proposals, L!Of
<1>2. \A p \in L!Proposals : L!Loaded(p.photos)'
  BY LoadedStays DEF L!PassInv
<1>3. pass # L!Idle => L!Loaded(pass.photos)'
  <2>1. PICK photos : photos = pass.photos
    OBVIOUS
  <2>2. pass # L!Idle => L!Loaded(photos)'
    BY <2>1, LoadedStays DEF L!PassInv
  <2> QED BY <2>1, <2>2
<1>4. \A d \in L!Of(filed', "dismissal") : \E p \in L!Proposals : d.photos = p.photos
  BY DEF L!Of, L!PassInv
<1>5. \A p \in L!Proposals' :
        L!Loaded(p.photos)' /\ \A q \in L!Proposals' :
                                 p.at <= q.at => L!ToSet(p.photos) \subseteq L!ToSet(q.photos)
  BY <1>1, <1>2 DEF L!PassInv, L!Loaded
<1>6. pass' # L!Idle =>
        /\ pass'.at \in Nat /\ pass'.at < instant' /\ L!Loaded(pass.photos)'
        /\ \A p \in L!Proposals' :
             p.at < pass'.at /\ L!ToSet(p.photos) \subseteq L!ToSet(pass'.photos)
  BY <1>1, <1>3 DEF L!PassInv
<1> QED BY <1>1, <1>4, <1>5, <1>6 DEF L!PassInv, L!Loaded

(* Handlers that go on, or are done.                                       *)
LEMMA HandlersGoOn ==
  ASSUME L!HandlersInv, instant \in Nat, instant' \in Nat, instant <= instant',
         L!Proposals \subseteq L!Proposals', DOMAIN handling' = Handlers,
         \A q \in Handlers : handling'[q] # L!Idle =>
           /\ handling[q] # L!Idle /\ handling'[q].at = handling[q].at /\ handling'[q].form = handling[q].form
           /\ handling'[q].pc = "append" /\ handling[q].form.kind = "dismissal" =>
                handling'[q] = handling[q] \/ \E p \in L!Proposals : handling'[q].saw.photos = p.photos
           /\ handling[q].form.kind = "photo" =>
                \A x \in L!Pictures(filed') :
                  x \in L!Pictures(filed) \/ x.at # handling[q].at
  PROVE  L!HandlersInv'
<1> SUFFICES ASSUME NEW r \in Handlers, handling'[r] # L!Idle
             PROVE  /\ handling'[r].at \in Nat /\ handling'[r].at < instant'
                    /\ \A q \in Handlers : handling'[q] # L!Idle /\ handling'[q].at = handling'[r].at => q = r
                    /\ handling'[r].form.kind = "photo" =>
                         \A x \in L!Pictures(filed') : x.at # handling'[r].at
                    /\ handling'[r].pc = "append" /\ handling'[r].form.kind = "dismissal" =>
                         \E p \in L!Proposals' : handling'[r].saw.photos = p.photos
  BY DEF L!HandlersInv, L!Idle
<1>1. handling[r] # L!Idle /\ handling'[r].at = handling[r].at /\ handling'[r].form = handling[r].form
  OBVIOUS
<1>2. handling'[r].at \in Nat /\ handling'[r].at < instant'
  BY <1>1 DEF L!HandlersInv
<1>3. \A q \in Handlers : handling'[q] # L!Idle /\ handling'[q].at = handling'[r].at => q = r
  BY <1>1 DEF L!HandlersInv
<1>4. handling'[r].form.kind = "photo" => \A x \in L!Pictures(filed') : x.at # handling'[r].at
  BY <1>1 DEF L!HandlersInv
<1>5. handling'[r].pc = "append" /\ handling'[r].form.kind = "dismissal" =>
        \E p \in L!Proposals' : handling'[r].saw.photos = p.photos
  BY <1>1 DEF L!HandlersInv
<1> QED BY <1>2, <1>3, <1>4, <1>5

(* A handler adds its row, and is done or goes on to print.                *)
LEMMA AppendKeepsDown ==
  ASSUME L!DownInv, NEW r \in Handlers, handling[r] # L!Idle, NEW row,
         filed' = filed \cup {row}, instant' = instant, pass' = pass,
         row.at = handling[r].at, row.kind # "proposal",
         row.kind = "dismissal" => \E p \in L!Proposals : row.photos = p.photos,
         row.photo # Nothing => handling[r].form.kind = "photo" /\ handling'[r] = L!Idle,
         DOMAIN handling' = Handlers, \A q \in Handlers \ {r} : handling'[q] = handling[q],
         \/ handling'[r] = L!Idle
         \/ /\ handling'[r].at = handling[r].at /\ handling'[r].form = handling[r].form
            /\ handling[r].form.kind # "dismissal"
  PROVE  L!DownInv'
<1>1. instant \in Nat /\ row.at \in Nat /\ row.at < instant
  BY DEF L!DownInv, L!RowsInv, L!HandlersInv
<1>2. row \in L!Pictures({row}) => row.photo # Nothing
  BY DEF L!Pictures
<1>3. row \in L!Pictures({row}) => \A x \in L!Pictures(filed) : x.at # row.at
  BY <1>2 DEF L!DownInv, L!HandlersInv
<1>4. L!RowsInv'
  BY <1>1, <1>3, RowKeepsRows DEF L!DownInv
<1>5. L!PassInv'
  BY <1>1, <1>3, RowKeepsPass DEF L!DownInv
<1>6. L!Proposals' = L!Proposals
  BY DEF L!Proposals, L!Of
<1>7. \A x \in L!Pictures(filed') :
        x \in L!Pictures(filed) \/ (x = row /\ row.photo # Nothing)
  BY DEF L!Pictures, L!BinCaptures
<1>8. \A q \in Handlers : handling'[q] # L!Idle =>
        /\ handling[q] # L!Idle /\ handling'[q].at = handling[q].at /\ handling'[q].form = handling[q].form
        /\ handling'[q].pc = "append" /\ handling[q].form.kind = "dismissal" =>
             handling'[q] = handling[q] \/ \E p \in L!Proposals : handling'[q].saw.photos = p.photos
        /\ handling[q].form.kind = "photo" =>
             \A x \in L!Pictures(filed') : x \in L!Pictures(filed) \/ x.at # handling[q].at
  <2> TAKE q \in Handlers
  <2>1. CASE q = r
    BY <1>7, <2>1
  <2>2. CASE q # r
    <3>1. handling'[q] = handling[q] /\ (handling[q] # L!Idle => handling[q].at # row.at)
      BY <2>2 DEF L!DownInv, L!HandlersInv
    <3> QED BY <1>7, <3>1
  <2> QED BY <2>1, <2>2
<1>9. L!HandlersInv'
  <2>1. L!HandlersInv /\ instant' \in Nat /\ instant <= instant' /\ L!Proposals \subseteq L!Proposals'
    BY <1>1, <1>6 DEF L!DownInv
  <2> QED BY <1>1, <1>8, <2>1, HandlersGoOn
<1> QED BY <1>4, <1>5, <1>9 DEF L!DownInv

(* Steps of the page that add no row.                                      *)
LEMMA QuietKeepsDown ==
  ASSUME L!DownInv, filed' = filed, pass' = pass, instant' \in Nat, instant <= instant',
         DOMAIN handling' = Handlers,
         \A q \in Handlers : handling'[q] # L!Idle =>
           /\ handling[q] # L!Idle /\ handling'[q].at = handling[q].at /\ handling'[q].form = handling[q].form
           /\ handling'[q].pc = "append" /\ handling[q].form.kind = "dismissal" =>
                handling'[q] = handling[q] \/ \E p \in L!Proposals : handling'[q].saw.photos = p.photos
  PROVE  L!DownInv'
<1>1. instant \in Nat
  BY DEF L!DownInv, L!RowsInv
<1>2. L!RowsInv'
  BY <1>1 DEF L!DownInv, L!RowsInv
<1>3. L!Proposals' = L!Proposals
  BY DEF L!Proposals, L!Of
<1>4. L!HandlersInv'
  BY <1>1, <1>3, HandlersGoOn DEF L!DownInv
<1>5. \A photos : L!Loaded(photos) => L!Loaded(photos)'
  BY DEF L!Loaded, L!FiledOnce
<1>6. L!Of(filed, "dismissal")' = L!Of(filed, "dismissal")
  BY DEF L!Of
<1>7. L!PassInv'
  BY <1>1, <1>3, <1>5, <1>6 DEF L!DownInv, L!PassInv
<1> QED BY <1>2, <1>4, <1>7 DEF L!DownInv

LEMMA SubmitKeepsDown ==
  ASSUME L!DownInv, NEW r \in Handlers, NEW f \in forms, L!Submit(r, f)
  PROVE  L!DownInv'
<1> DEFINE call == [pc |-> "check", form |-> f, at |-> instant, saw |-> Nothing]
<1>1. /\ handling[r] = L!Idle /\ handling' = [handling EXCEPT ![r] = call] /\ instant' = instant + 1
      /\ UNCHANGED <<filed, forms, pass>>
  BY DEF L!Submit
<1>2. instant \in Nat /\ \A x \in filed : x.at < instant
  BY DEF L!DownInv, L!RowsInv
<1>3. call.at = instant /\ call.form = f /\ call.pc = "check"
  OBVIOUS
<1> HIDE DEF call
<1>4. /\ DOMAIN handling' = Handlers /\ handling'[r] = call
      /\ \A q \in Handlers \ {r} : handling'[q] = handling[q]
  BY <1>1 DEF L!DownInv, L!HandlersInv
<1>5. L!RowsInv'
  BY <1>1, <1>2 DEF L!DownInv, L!RowsInv
<1>6. L!Proposals' = L!Proposals /\ L!Pictures(filed) \subseteq filed
  BY <1>1 DEF L!Proposals, L!Of, L!Pictures, L!BinCaptures
<1>7. L!PassInv'
  BY <1>1, <1>2, <1>6 DEF L!DownInv, L!PassInv, L!Loaded, L!FiledOnce, L!Of
<1>8. \A q \in Handlers \ {r} : handling[q] # L!Idle => handling[q].at < instant /\ handling[q].at \in Nat
  BY DEF L!DownInv, L!HandlersInv
<1>9. L!HandlersInv'
  <2> SUFFICES ASSUME NEW p \in Handlers, handling'[p] # L!Idle
               PROVE  /\ handling'[p].at \in Nat /\ handling'[p].at < instant'
                      /\ \A q \in Handlers :
                           handling'[q] # L!Idle /\ handling'[q].at = handling'[p].at => q = p
                      /\ handling'[p].form.kind = "photo" =>
                           \A x \in L!Pictures(filed) : x.at # handling'[p].at
                      /\ handling'[p].pc = "append" /\ handling'[p].form.kind = "dismissal" =>
                           \E x \in L!Proposals : handling'[p].saw.photos = x.photos
    BY <1>1, <1>4, <1>6 DEF L!HandlersInv, L!Idle
  <2>1. CASE p = r
    BY <1>1, <1>2, <1>3, <1>4, <1>6, <1>8, <2>1
  <2>2. CASE p # r
    <3>1. handling'[p] = handling[p] /\ handling[p] # L!Idle
      BY <1>4, <2>2
    <3>2. \A q \in Handlers : handling'[q] # L!Idle /\ handling'[q].at = handling'[p].at => q = p
      BY <1>2, <1>3, <1>4, <1>8, <2>2, <3>1 DEF L!DownInv, L!HandlersInv
    <3> QED BY <1>1, <1>2, <1>8, <2>2, <3>1, <3>2 DEF L!DownInv, L!HandlersInv
  <2> QED BY <2>1, <2>2
<1> QED BY <1>5, <1>7, <1>9 DEF L!DownInv

(* The newest proposal is what the queue shows.                            *)
LEMMA QueueShowsNewest ==
  ASSUME L!DownInv, NEW now, NEW e \in L!Queue(filed, now)
  PROVE  \E p \in L!Proposals :
           /\ e.photos = p.photos
           /\ e.items = p.items \ L!DismissedItems(filed, p, now)
           /\ \A q \in L!Proposals : q.at <= p.at
<1>1. L!Proposals # {} /\ L!Proposals = L!Of(filed, "proposal")
  BY DEF L!Queue, L!Proposals
<1>2. instant \in Nat /\ \A q \in L!Proposals : q.at \in Nat /\ q.at < instant
  BY DEF L!DownInv, L!RowsInv, L!Proposals, L!Of
<1> DEFINE p == L!Newest(L!Proposals)
<1>3. p \in L!Proposals /\ \A q \in L!Proposals : q.at <= p.at
  BY <1>1, <1>2, NewestExists
<1>4. e = [key |-> p.key, items |-> p.items \ L!DismissedItems(filed, p, now),
           photos |-> p.photos, was |-> p.was]
  BY <1>1 DEF L!Queue
<1> QED BY <1>3, <1>4

LEMMA AnswersKeepDown ==
  ASSUME L!DownInv, NEW r \in Handlers,
         L!SaveProfile(r) \/ L!SaveReview(r) \/ L!SaveDismissal(r) \/ L!AddPhoto(r)
  PROVE  L!DownInv'
<1>1. handling[r] # L!Idle
  BY DEF L!SaveProfile, L!SaveReview, L!SaveDismissal, L!AddPhoto, L!Idle
<1>2. /\ UNCHANGED <<instant, pass>> /\ handling' = [handling EXCEPT ![r] = L!Idle]
      /\ instant \in Nat /\ DOMAIN handling = Handlers
  BY DEF L!SaveProfile, L!SaveReview, L!SaveDismissal, L!AddPhoto, L!AppendRow, L!Answer,
         L!DownInv, L!RowsInv, L!HandlersInv
<1>3. /\ DOMAIN handling' = Handlers /\ handling'[r] = L!Idle
      /\ \A q \in Handlers \ {r} : handling'[q] = handling[q]
  BY <1>2
<1>4. CASE filed' = filed
  BY <1>2, <1>3, <1>4, QuietKeepsDown
<1>5. CASE filed' # filed
  <2>1. PICK row : /\ filed' = filed \cup {row} /\ row.at = handling[r].at
                   /\ row.kind \in {"profile", "photo", "dismissal"}
                   /\ row.photo # Nothing => handling[r].form.kind = "photo"
                   /\ row.kind = "dismissal" =>
                        /\ handling[r].pc = "append" /\ handling[r].form.kind = "dismissal"
                        /\ row.photos = handling[r].saw.photos
    <3>1. CASE L!SaveProfile(r)
      <4> DEFINE row == L!ProfileRow(r, handling[r].form.about.theme, handling[r].form.about.site)
      <4>1. row.at = handling[r].at /\ row.kind = "profile" /\ row.photo = Nothing
        BY DEF L!ProfileRow, L!Capture
      <4>2. filed' = filed \cup {row}
        BY <1>5, <3>1 DEF L!SaveProfile, L!AppendRow
      <4> QED BY <4>1, <4>2
    <3>2. CASE L!SaveReview(r)
      <4> DEFINE row == [L!ProfileRow(r, handling[r].saw.theme, handling[r].saw.site) EXCEPT
                           !.answers = handling[r].form.about]
      <4>1. row.at = handling[r].at /\ row.kind = "profile" /\ row.photo = Nothing
        BY DEF L!ProfileRow, L!Capture
      <4>2. filed' = filed \cup {row}
        BY <1>5, <3>2 DEF L!SaveReview, L!AppendRow
      <4> QED BY <4>1, <4>2
    <3>3. CASE L!SaveDismissal(r)
      <4> DEFINE row == [L!Capture("dismissal", L!KeyOf(handling[r].form), handling[r].at) EXCEPT
                           !.answers = handling[r].form.about,
                           !.items = handling[r].saw.items, !.photos = handling[r].saw.photos]
      <4>1. /\ row.at = handling[r].at /\ row.kind = "dismissal" /\ row.photo = Nothing
            /\ row.photos = handling[r].saw.photos
        BY DEF L!Capture
      <4>2. /\ filed' = filed \cup {row}
            /\ handling[r].pc = "append" /\ handling[r].form.kind = "dismissal"
        BY <1>5, <3>3 DEF L!SaveDismissal, L!AppendRow
      <4> QED BY <4>1, <4>2
    <3>4. CASE L!AddPhoto(r)
      <4> DEFINE row == [L!Capture("photo", L!KeyOf(handling[r].form), handling[r].at) EXCEPT
                           !.photo = handling[r].form.about]
      <4>1. row.at = handling[r].at /\ row.kind = "photo"
        BY DEF L!Capture
      <4>2. filed' = filed \cup {row} /\ handling[r].form.kind = "photo"
        BY <1>5, <3>4 DEF L!AddPhoto, L!AppendRow
      <4> QED BY <4>1, <4>2
    <3> QED BY <3>1, <3>2, <3>3, <3>4
  <2>2. row.kind = "dismissal" => \E p \in L!Proposals : row.photos = p.photos
    BY <1>1, <2>1 DEF L!DownInv, L!HandlersInv
  <2> QED BY <1>1, <1>2, <1>3, <2>1, <2>2, AppendKeepsDown
<1> QED BY <1>4, <1>5

LEMMA CheckKeepsDown ==
  ASSUME L!DownInv, NEW r \in Handlers, L!CheckAnswer(r)
  PROVE  L!DownInv'
<1>1. /\ handling[r] # L!Idle /\ handling[r].form.kind \in {"review", "dismissal"}
      /\ UNCHANGED <<instant, filed, pass>> /\ instant \in Nat /\ DOMAIN handling = Handlers
  BY DEF L!CheckAnswer, L!Idle, L!DownInv, L!RowsInv, L!HandlersInv
<1>2. CASE handling' = [handling EXCEPT ![r] = L!Idle]
  <2>1. /\ DOMAIN handling' = Handlers /\ handling'[r] = L!Idle
        /\ \A q \in Handlers \ {r} : handling'[q] = handling[q]
    BY <1>1, <1>2
  <2> QED BY <1>1, <2>1, QuietKeepsDown
<1>3. CASE handling' # [handling EXCEPT ![r] = L!Idle]
  <2>1. PICK e \in L!Queue(filed, handling[r].at) :
          handling' = [handling EXCEPT ![r].pc = "append",
                             ![r].saw = IF handling[r].form.kind = "review"
                                          THEN L!Passport(filed) ELSE e]
    BY <1>3 DEF L!CheckAnswer, L!Answer, L!Pending
  <2>2. \E p \in L!Proposals : e.photos = p.photos
    BY QueueShowsNewest
  <2>3. /\ DOMAIN handling' = Handlers
        /\ handling'[r].at = handling[r].at /\ handling'[r].form = handling[r].form
        /\ handling[r].form.kind = "dismissal" => handling'[r].saw = e
        /\ \A q \in Handlers \ {r} : handling'[q] = handling[q]
    BY <1>1, <2>1
  <2> QED BY <1>1, <2>2, <2>3, QuietKeepsDown
<1> QED BY <1>2, <1>3

LEMMA PrintsKeepDown ==
  ASSUME L!DownInv, NEW r \in Handlers, L!ReservePrint(r) \/ L!AttemptPrint(r)
  PROVE  L!DownInv'
<1>1. /\ handling[r] # L!Idle /\ UNCHANGED <<instant, pass>> /\ instant \in Nat
      /\ DOMAIN handling = Handlers
  BY DEF L!ReservePrint, L!AttemptPrint, L!Idle, L!DownInv, L!RowsInv, L!HandlersInv
<1>2. CASE filed' = filed /\ handling' = [handling EXCEPT ![r] = L!Idle]
  <2>1. /\ DOMAIN handling' = Handlers /\ handling'[r] = L!Idle
        /\ \A q \in Handlers \ {r} : handling'[q] = handling[q]
    BY <1>1, <1>2
  <2> QED BY <1>1, <1>2, <2>1, QuietKeepsDown
<1>3. CASE ~(filed' = filed /\ handling' = [handling EXCEPT ![r] = L!Idle])
  <2> DEFINE row == [L!Capture("print", L!KeyOf(handling[r].form), handling[r].at) EXCEPT
                       !.was = L!Passport(filed)]
  <2>1. /\ filed' = filed \cup {row} /\ handling' = [handling EXCEPT ![r].pc = "attempt"]
        /\ handling[r].form.kind = "print"
    BY <1>3 DEF L!ReservePrint, L!Reserve, L!AttemptPrint, L!Answer
  <2>2. row.at = handling[r].at /\ row.kind = "print" /\ row.photo = Nothing
    BY DEF L!Capture
  <2> HIDE DEF row
  <2>3. /\ DOMAIN handling' = Handlers
        /\ handling'[r].at = handling[r].at /\ handling'[r].form = handling[r].form
        /\ \A q \in Handlers \ {r} : handling'[q] = handling[q]
    BY <1>1, <2>1
  <2> QED BY <1>1, <2>1, <2>2, <2>3, AppendKeepsDown
<1> QED BY <1>2, <1>3

LEMMA RegisterKeepsDown ==
  ASSUME L!DownInv, L!RegisterAgain
  PROVE  L!DownInv'
<1> DEFINE row == L!Registration(Nothing, instant)
<1>1. /\ filed' = filed \cup {row} /\ instant' = instant + 1 /\ instant \in Nat
      /\ UNCHANGED <<handling, pass>>
  BY DEF L!RegisterAgain, L!DownInv, L!RowsInv
<1>2. row.at = instant /\ row.kind = "registration" /\ row.photo = Nothing
  BY DEF L!Registration, L!Capture
<1> HIDE DEF row
<1>3. row \notin L!Pictures({row}) /\ L!Pictures(filed') = L!Pictures(filed)
  BY <1>1, <1>2 DEF L!Pictures, L!BinCaptures
<1>4. L!RowsInv'
  BY <1>1, <1>2, <1>3, RowKeepsRows DEF L!DownInv
<1>5. L!PassInv'
  BY <1>1, <1>2, <1>3, RowKeepsPass DEF L!DownInv
<1>6. L!Proposals' = L!Proposals
  BY <1>1, <1>2 DEF L!Proposals, L!Of
<1>7. L!HandlersInv'
  BY <1>1, <1>3, <1>6 DEF L!DownInv, L!HandlersInv
<1> QED BY <1>4, <1>5, <1>7 DEF L!DownInv

LEMMA StartKeepsDown ==
  ASSUME L!DownInv, L!StartPass
  PROVE  L!DownInv'
<1> DEFINE photos == L!PhotoHashes(filed)
<1>1. /\ pass' = [pc |-> "load", at |-> instant, photos |-> photos]
      /\ instant' = instant + 1 /\ instant \in Nat
      /\ UNCHANGED <<filed, handling>>
  BY DEF L!StartPass, L!DownInv, L!RowsInv
<1>2. pass'.at = instant /\ pass'.photos = photos
  BY <1>1
<1>3. L!ToSet(photos) = L!Digests(filed)
  BY HashesNameAll, SameFiniteSets DEF L!DownInv, L!RowsInv
<1>4. /\ L!Proposals' = L!Proposals /\ L!FiledOnce' = L!FiledOnce
      /\ L!Of(filed', "dismissal") = L!Of(filed, "dismissal")
  BY <1>1 DEF L!Proposals, L!Of, L!FiledOnce
<1>5. \A p \in L!Proposals : L!ToSet(p.photos) \subseteq L!Digests(filed) /\ p.at < instant
  BY DEF L!DownInv, L!PassInv, L!Loaded, L!RowsInv, L!Proposals, L!Of
<1>6. pass' # L!Idle =>
        /\ pass'.at \in Nat /\ pass'.at < instant' /\ L!Loaded(pass.photos)'
        /\ \A p \in L!Proposals' :
             p.at < pass'.at /\ L!ToSet(p.photos) \subseteq L!ToSet(pass'.photos)
  <2> HIDE DEF photos
  <2> QED BY <1>1, <1>2, <1>3, <1>4, <1>5 DEF L!Loaded, photos
<1>7. L!PassInv'
  <2>1. \A p \in L!Proposals' :
          /\ L!Loaded(p.photos)'
          /\ \A q \in L!Proposals' : p.at <= q.at => L!ToSet(p.photos) \subseteq L!ToSet(q.photos)
    BY <1>1, <1>4 DEF L!DownInv, L!PassInv, L!Loaded
  <2>2. \A d \in L!Of(filed, "dismissal")' : \E p \in L!Proposals' : d.photos = p.photos
    BY <1>1, <1>4 DEF L!DownInv, L!PassInv, L!Of
  <2> QED BY <1>6, <2>1, <2>2 DEF L!PassInv, L!Loaded, L!Of
<1>8. L!RowsInv' /\ L!HandlersInv'
  BY <1>1, <1>4 DEF L!DownInv, L!RowsInv, L!HandlersInv
<1> QED BY <1>7, <1>8 DEF L!DownInv

(* The pass goes on with what it loaded, or is over.                       *)
LEMMA PassGoesOn ==
  ASSUME L!DownInv, L!LoadPassport \/ L!GiveUp
  PROVE  L!DownInv'
<1>1. /\ pass # L!Idle /\ UNCHANGED <<instant, filed, handling>>
      /\ pass' = L!Idle \/ (pass'.at = pass.at /\ pass'.photos = pass.photos)
  BY DEF L!LoadPassport, L!GiveUp, L!Idle
<1>2. L!RowsInv' /\ L!HandlersInv'
  BY <1>1 DEF L!DownInv, L!RowsInv, L!HandlersInv, L!Proposals, L!Of
<1>3. L!PassInv'
  BY <1>1 DEF L!DownInv, L!PassInv, L!Loaded, L!FiledOnce, L!Proposals, L!Of, L!Idle
<1> QED BY <1>2, <1>3 DEF L!DownInv

LEMMA ProposalKeepsDown ==
  ASSUME L!DownInv, L!RecordProposal
  PROVE  L!DownInv'
<1>1. PICK row : /\ filed' = filed \cup {row}
                 /\ row.at = pass.at /\ row.kind = "proposal" /\ row.photo = Nothing
                 /\ row.photos = pass.photos
  <2>1. PICK reading \in SUBSET Items :
          filed' = filed \cup
            {[L!Capture("proposal", L!InputKey(pass.photos, pass.passport), pass.at) EXCEPT
                !.items = reading \ pass.passport.text,
                !.photos = pass.photos, !.was = pass.passport]}
    BY DEF L!RecordProposal
  <2> DEFINE row == [L!Capture("proposal", L!InputKey(pass.photos, pass.passport), pass.at)
                       EXCEPT !.items = reading \ pass.passport.text,
                              !.photos = pass.photos, !.was = pass.passport]
  <2>2. /\ row.at = pass.at /\ row.kind = "proposal" /\ row.photo = Nothing
        /\ row.photos = pass.photos
    BY DEF L!Capture
  <2> QED BY <2>1, <2>2
<1>2. /\ row.at = pass.at /\ row.kind = "proposal" /\ row.photo = Nothing
      /\ row.photos = pass.photos
  BY <1>1
<1>3. /\ filed' = filed \cup {row} /\ pass' = L!Idle /\ pass # L!Idle
      /\ UNCHANGED <<instant, handling>> /\ instant \in Nat
  BY <1>1 DEF L!RecordProposal, L!Idle, L!DownInv, L!RowsInv
<1>4. /\ pass.at \in Nat /\ pass.at < instant /\ L!Loaded(pass.photos)
      /\ \A p \in L!Proposals : p.at < pass.at /\ L!ToSet(p.photos) \subseteq L!ToSet(pass.photos)
  BY <1>3 DEF L!DownInv, L!PassInv
<1>5. row \notin L!Pictures({row}) /\ L!Pictures(filed') = L!Pictures(filed)
  BY <1>2, <1>3 DEF L!Pictures, L!BinCaptures
<1>6. L!RowsInv'
  BY <1>2, <1>3, <1>4, <1>5, RowKeepsRows DEF L!DownInv
<1>7. L!Proposals' = L!Proposals \cup {row}
  BY <1>2, <1>3 DEF L!Proposals, L!Of
<1>8. L!HandlersInv'
  BY <1>3, <1>5, <1>7 DEF L!DownInv, L!HandlersInv
<1>9. \A p \in L!Proposals \cup {row} : L!Loaded(p.photos)'
  <2>1. \A p \in L!Proposals : L!Loaded(p.photos)'
    BY <1>3, <1>5, LoadedStays DEF L!DownInv, L!PassInv
  <2>2. L!Loaded(row.photos)
    BY <1>2, <1>4
  <2>3. L!Loaded(row.photos)'
    BY <1>3, <1>5, <2>2, LoadedStays DEF L!DownInv
  <2> QED BY <2>1, <2>3 DEF L!Loaded
<1>10. \A p, q \in L!Proposals \cup {row} :
         p.at <= q.at => L!ToSet(p.photos) \subseteq L!ToSet(q.photos)
  <2>1. \A p \in L!Proposals : p.at \in Nat
    BY DEF L!DownInv, L!RowsInv, L!Proposals, L!Of
  <2> QED BY <1>2, <1>4, <2>1 DEF L!DownInv, L!PassInv
<1>11. \A d \in L!Of(filed', "dismissal") : \E p \in L!Proposals : d.photos = p.photos
  BY <1>2, <1>3 DEF L!DownInv, L!PassInv, L!Of
<1>12. L!PassInv'
  BY <1>3, <1>7, <1>9, <1>10, <1>11 DEF L!PassInv, L!Loaded, L!Of
<1> QED BY <1>6, <1>8, <1>12 DEF L!DownInv

LEMMA StepKeepsDown ==
  ASSUME L!DownInv, [L!Next]_(L!vars)
  PROVE  L!DownInv'
<1>1. CASE L!FillInProfile \/ L!FillInPhoto \/ L!FillInPrint \/ L!FillInAnswer \/ L!Tick
             \/ UNCHANGED L!vars
  <2>1. /\ UNCHANGED <<filed, handling, pass>>
        /\ instant' = instant \/ instant' = instant + 1
        /\ instant \in Nat /\ DOMAIN handling = Handlers
    BY <1>1 DEF L!FillInProfile, L!FillInPhoto, L!FillInPrint, L!FillInAnswer, L!FillIn,
                L!Tick, L!vars, L!DownInv, L!RowsInv, L!HandlersInv
  <2> QED BY <2>1, QuietKeepsDown
<1>2. CASE \E r \in Handlers, f \in forms : L!Submit(r, f)
  BY <1>2, SubmitKeepsDown
<1>3. CASE \E r \in Handlers : L!Handle(r)
  BY <1>3, AnswersKeepDown, CheckKeepsDown, PrintsKeepDown DEF L!Handle
<1>4. CASE L!StopService
  <2>1. /\ UNCHANGED <<filed, pass, instant>> /\ instant \in Nat /\ DOMAIN handling' = Handlers
        /\ \A q \in Handlers : handling'[q] = L!Idle
    BY <1>4 DEF L!StopService, L!DownInv, L!RowsInv
  <2> QED BY <2>1, QuietKeepsDown
<1>5. CASE L!RegisterAgain \/ L!StartPass \/ L!LoadPassport \/ L!RecordProposal \/ L!GiveUp
  BY <1>5, RegisterKeepsDown, StartKeepsDown, PassGoesOn, ProposalKeepsDown
<1> QED BY <1>1, <1>2, <1>3, <1>4, <1>5 DEF L!Next, L!Rest

(* A later list that names all photos is the list there is; so the newest  *)
(* proposal is on the photos the dismissal was on, and loses its items.    *)
LEMMA DownStaysDown ==
  ASSUME L!ReviewAssumption, L!DownInv
  PROVE  L!DismissedStaysDown
<1> SUFFICES ASSUME L!FiledOnce, NEW d \in L!Of(filed, "dismissal"),
                    NEW e \in L!Queue(filed, instant),
                    instant - d.at < Horizon, d.photos = L!PhotoHashes(filed)
             PROVE  d.items \cap e.items = {}
  BY DEF L!DismissedStaysDown
<1>1. PICK p \in L!Proposals : /\ e.items = p.items \ L!DismissedItems(filed, p, instant)
                               /\ \A q \in L!Proposals : q.at <= p.at
  BY QueueShowsNewest
<1>2. PICK q \in L!Proposals : d.photos = q.photos
  BY DEF L!DownInv, L!PassInv
<1>3. L!ToSet(q.photos) = L!Digests(filed)
  BY <1>2, HashesNameAll, SameFiniteSets DEF L!DownInv, L!RowsInv
<1>4. L!ToSet(p.photos) = L!Digests(filed)
  <2>1. L!ToSet(q.photos) \subseteq L!ToSet(p.photos)
    BY <1>1 DEF L!DownInv, L!PassInv
  <2>2. L!ToSet(p.photos) \subseteq L!Digests(filed)
    BY DEF L!DownInv, L!PassInv, L!Loaded
  <2> QED BY <1>3, <2>1, <2>2
<1>5. p.photos = d.photos
  BY <1>4 DEF L!DownInv, L!PassInv, L!Loaded
<1>6. instant - d.at \in 0..(Horizon - 1)
  BY DEF L!DownInv, L!RowsInv, L!Of, L!ReviewAssumption
<1>7. d.items \subseteq L!DismissedItems(filed, p, instant)
  BY <1>5, <1>6 DEF L!DismissedItems
<1> QED BY <1>1, <1>7

(* The review of the contents a pass proposes (bin_label_drift.py): what   *)
(* the owner dismissed is not suggested again on the same photos, however  *)
(* many handlers and passes there are, whatever they find, and whatever is *)
(* saved in between.                                                       *)
THEOREM DismissedIsDown == L!Spec => []DismissedStaysDown
<1>1. L!Init => L!DownInv
  BY InitDown, ReviewIsGiven
<1>2. L!DownInv /\ [L!Next]_(L!vars) => L!DownInv'
  BY StepKeepsDown, ReviewIsGiven
<1>3. L!DownInv => L!DismissedStaysDown
  BY DownStaysDown, ReviewIsGiven
<1> QED BY <1>1, <1>2, <1>3, PTL DEF L!Spec, DismissedStaysDown

-------------------------------------------------------------------------------
(* The transfer.  One lemma per part of the invariant and group of actions *)
(* that can disturb it.                                                    *)

LEMMA InitWholeInv == T!Init => T!WholeInv
<1> SUFFICES ASSUME T!Init PROVE T!WholeInv
  OBVIOUS
<1>1. T!EngramInv
  BY DEF T!Init, T!EngramInv, T!Empty, T!Tables
<1>2. T!FileInv
  BY DEF T!Init, T!FileInv, T!Unread, T!Tables
<1>3. T!StagedInv
  BY DEF T!Init, T!StagedInv
<1>4. \A x \in T!Databases : db[x] = T!Empty
  BY DEF T!Init
<1>5. "blobs" \in T!Tables /\ "captures" \in T!Tables
  BY DEF T!Tables
<1>6. T!DbInv
  BY <1>4, <1>5 DEF T!Init, T!DbInv, T!Empty
<1> QED BY <1>1, <1>2, <1>3, <1>6 DEF T!Init, T!WholeInv, T!LiveInv

(* What is known of a file of which every table has been read.             *)
LEMMA FileOfExported ==
  ASSUME T!FileInv, T!Exported
  PROVE  T!Whole(file) /\ (frozen => T!Complete(file))
BY DEF T!FileInv, T!Exported, T!Complete, T!Tables

(* Engram's tables grow, and a snapshot stays whole.                       *)
LEMMA WholeStays ==
  ASSUME NEW s, T!Whole(s), engram["blobs"] \subseteq engram'["blobs"]
  PROVE  /\ DOMAIN s = T!Tables
         /\ s["captures"] \subseteq T!Digests(s["blobs"])
         /\ T!Digests(s["blobs"]) \subseteq engram'["blobs"]
BY DEF T!Whole

LEMMA RecordKeepsWhole ==
  ASSUME T!WholeInv, T!EngramRecords
  PROVE  T!WholeInv'
<1>1. /\ ~frozen /\ ~gate
      /\ UNCHANGED <<frozen, file, staging, staged, outputs, latest, tObjects, tEnvelopes,
                     db, gate, halts>>
  BY DEF T!EngramRecords, T!WholeInv, T!DbInv
<1>2. /\ DOMAIN engram' = T!Tables
      /\ engram["blobs"] \subseteq engram'["blobs"]
      /\ engram["captures"] \subseteq engram'["captures"]
      /\ engram'["captures"] = engram'["blobs"] /\ engram'["blobs"] \subseteq Photos
  <2>1. CASE \E d \in Photos : engram' = [engram EXCEPT !["captures"] = @ \cup {d},
                                                        !["blobs"] = @ \cup {d}]
    BY <2>1 DEF T!WholeInv, T!EngramInv, T!Tables
  <2>2. CASE \E q \in Requests : engram' = [engram EXCEPT !["requests"] = @ \cup {q}]
    BY <2>2 DEF T!WholeInv, T!EngramInv, T!Tables
  <2>3. CASE \E q \in engram["requests"] :
               engram' = [engram EXCEPT !["decisions"] = @ \cup {q}]
    BY <2>3 DEF T!WholeInv, T!EngramInv, T!Tables
  <2> QED BY <2>1, <2>2, <2>3 DEF T!EngramRecords
<1>3. T!EngramInv'
  BY <1>2 DEF T!EngramInv
<1>4. T!FileInv'
  BY <1>1, <1>2 DEF T!WholeInv, T!FileInv, T!Exported, T!Whole, T!Digests
<1>5. T!StagedInv'
  BY <1>1, <1>2 DEF T!WholeInv, T!StagedInv, T!Exported, T!Whole, T!Digests, T!Decrypts
<1>6. T!DbInv' /\ T!LiveInv'
  BY <1>1 DEF T!WholeInv, T!DbInv, T!LiveInv, T!Digests, T!Decrypts
<1> QED BY <1>3, <1>4, <1>5, <1>6 DEF T!WholeInv

(* Frozen, with the files of every rehearsal removed.                      *)
LEMMA FreezeKeepsWhole ==
  ASSUME T!WholeInv, T!Freeze
  PROVE  T!WholeInv'
<1>1. /\ file = T!Unread /\ outputs = {}
      /\ UNCHANGED <<engram, file, staging, staged, outputs, latest, tObjects, tEnvelopes,
                     db, gate, halts>>
      /\ \A t \in T!Tables : file[t] = None
  BY DEF T!Freeze, T!Unread
<1>2. T!EngramInv' /\ T!FileInv'
  BY <1>1 DEF T!WholeInv, T!EngramInv, T!FileInv, T!Whole, T!Digests, T!Tables
<1>3. T!StagedInv'
  BY <1>1 DEF T!WholeInv, T!StagedInv, T!Exported, T!Whole, T!Digests, T!Decrypts
<1>4. T!DbInv' /\ T!LiveInv'
  BY <1>1 DEF T!WholeInv, T!DbInv, T!LiveInv, T!Digests, T!Decrypts, T!Freeze
<1> QED BY <1>2, <1>3, <1>4 DEF T!WholeInv

(* Engram's rows of photos are of those photos.                            *)
LEMMA DigestsOfRows ==
  ASSUME NEW A
  PROVE  T!Digests({T!EngramRow(d) : d \in A}) = A
<1>1. ASSUME NEW d \in A
      PROVE  d \in T!Digests({T!EngramRow(x) : x \in A})
  <2>1. T!EngramRow(d) \in {T!EngramRow(x) : x \in A}
    OBVIOUS
  <2>2. T!EngramRow(d).digest = d
    BY DEF T!EngramRow
  <2> QED BY <2>1, <2>2 DEF T!Digests
<1>2. ASSUME NEW d \in T!Digests({T!EngramRow(x) : x \in A})
      PROVE  d \in A
  BY <1>2 DEF T!Digests, T!EngramRow
<1> QED BY <1>1, <1>2

(* The captures are read first, the photos last: each of them by then has  *)
(* its photo in Engram.                                                    *)
LEMMA ExportKeepsWhole ==
  ASSUME T!WholeInv, NEW i \in DOMAIN T!TableOrder, T!ExportTable(i)
  PROVE  T!WholeInv'
<1> DEFINE t == T!TableOrder[i]
<1>1. /\ t \in T!Tables /\ file[t] = None
      /\ file' = [file EXCEPT ![t] =
                     IF t = "blobs"
                       THEN {T!EngramRow(d) : d \in engram[t] \cap engram["captures"]}
                       ELSE engram[t]]
      /\ UNCHANGED <<engram, frozen, staging, staged, outputs, latest, tObjects, tEnvelopes,
                     db, gate, halts>>
  BY DEF T!ExportTable, T!TableOrder, T!Tables
<1>2. t = "blobs" => \A u \in T!Tables \ {"blobs"} : file[u] # None
  <2> SUFFICES ASSUME t = "blobs" PROVE \A u \in T!Tables \ {"blobs"} : file[u] # None
    OBVIOUS
  <2>1. i = 4
    BY DEF T!TableOrder
  <2>2. 1 \in 1..(i - 1) /\ 2 \in 1..(i - 1) /\ 3 \in 1..(i - 1)
    BY <2>1
  <2>3. \A j \in 1..(i - 1) : file[T!TableOrder[j]] # None
    BY DEF T!ExportTable
  <2>4. /\ T!TableOrder[1] = "captures" /\ T!TableOrder[2] = "requests"
        /\ T!TableOrder[3] = "decisions"
    BY DEF T!TableOrder
  <2> HIDE DEF t
  <2>5. file["captures"] # None /\ file["requests"] # None /\ file["decisions"] # None
    BY <2>2, <2>3, <2>4
  <2> QED BY <2>5 DEF T!Tables
<1>3. t # "blobs" => file["blobs"] = None
  BY <1>1 DEF T!WholeInv, T!FileInv, T!Exported
<1> HIDE DEF t
<1>4. ~T!Exported
  BY <1>1 DEF T!Exported
<1>5. ~staging /\ staged = {}
  BY <1>4 DEF T!WholeInv, T!StagedInv
<1>6. T!FileInv'
  <2>1. "blobs" \in T!Tables /\ "captures" \in T!Tables /\ "decisions" \in T!Tables
    BY DEF T!Tables
  <2>2. CASE t = "blobs"
    <3>1. /\ DOMAIN file' = T!Tables
          /\ \A u \in T!Tables \ {"blobs"} : file'[u] = file[u]
          /\ file'["blobs"] = {T!EngramRow(d) : d \in engram["blobs"]}
      <4>1. engram["blobs"] \cap engram["captures"] = engram["blobs"]
        BY DEF T!WholeInv, T!EngramInv
      <4> QED BY <1>1, <2>1, <2>2, <4>1 DEF T!WholeInv, T!FileInv
    <3>2. T!Digests(file'["blobs"]) = engram["blobs"]
      BY <3>1, DigestsOfRows
    <3>3. T!Whole(file)'
      <4>1. file'["captures"] \subseteq engram["blobs"]
        BY <1>2, <2>1, <2>2, <3>1 DEF T!WholeInv, T!FileInv, T!EngramInv
      <4>2. /\ file'["captures"] \subseteq T!Digests(file'["blobs"])
            /\ T!Digests(file'["blobs"]) \subseteq engram'["blobs"]
        BY <1>1, <3>2, <4>1
      <4> QED BY <3>1, <4>2 DEF T!Whole, T!Digests
    <3>4. file'["blobs"] # None => T!Exported'
      <4>1. ASSUME file'["blobs"] # None, NEW u \in T!Tables
            PROVE  file'[u] # None
        <5>1. u # "blobs" => file'[u] = file[u] /\ file[u] # None
          BY <1>2, <2>2, <3>1
        <5> QED BY <4>1, <5>1
      <4> QED BY <4>1 DEF T!Exported, T!Tables
    <3> QED BY <1>1, <2>1, <2>2, <3>1, <3>3, <3>4 DEF T!WholeInv, T!FileInv
  <2>3. CASE t # "blobs"
    <3>1. /\ DOMAIN file' = T!Tables /\ file'[t] = engram[t]
          /\ \A u \in T!Tables \ {t} : file'[u] = file[u]
      BY <1>1, <2>3 DEF T!WholeInv, T!FileInv
    <3> QED BY <1>1, <1>3, <2>1, <2>3, <3>1 DEF T!WholeInv, T!FileInv
  <2> QED BY <2>2, <2>3
<1>7. T!EngramInv' /\ T!StagedInv'
  BY <1>1, <1>5 DEF T!WholeInv, T!EngramInv, T!StagedInv, T!Whole, T!Complete, T!Digests, T!Decrypts
<1>8. T!DbInv' /\ T!LiveInv'
  BY <1>1 DEF T!WholeInv, T!DbInv, T!LiveInv, T!Digests, T!Decrypts
<1> QED BY <1>6, <1>7, <1>8 DEF T!WholeInv

(* Starting and giving up a staging, and what is done with the files.      *)
LEMMA FilesKeepWhole ==
  ASSUME T!WholeInv,
         T!StartStaging \/ T!StopStaging \/ T!RemoveExport \/ T!RemoveOutputs
  PROVE  T!WholeInv'
<1>1. /\ UNCHANGED <<engram, frozen, latest, tObjects, db, gate>>
      /\ outputs' \subseteq outputs /\ staged' \subseteq staged
      /\ \/ file' = file /\ (staging' => T!Exported)
         \/ file' = T!Unread /\ ~staging /\ ~staging'
      /\ ~staging' => staged' = {}
      /\ (staging' /\ ~Rehearse) => ~gate
  BY DEF T!StartStaging, T!StopStaging, T!RemoveExport, T!RemoveOutputs, T!WholeInv,
         T!StagedInv, T!LiveInv
<1>2. T!EngramInv' /\ T!DbInv' /\ T!LiveInv'
  BY <1>1 DEF T!WholeInv, T!EngramInv, T!DbInv, T!LiveInv, T!Digests, T!Decrypts
<1>3. T!FileInv'
  <2>1. CASE file' = file
    BY <1>1, <2>1 DEF T!WholeInv, T!FileInv, T!Exported, T!Whole, T!Digests
  <2>2. CASE file' = T!Unread
    BY <1>1, <2>2 DEF T!FileInv, T!Unread, T!Tables
  <2> QED BY <1>1, <2>1, <2>2
<1>4. T!StagedInv'
  BY <1>1 DEF T!WholeInv, T!StagedInv, T!Exported, T!Whole, T!Complete, T!Digests, T!Decrypts
<1> QED BY <1>2, <1>3, <1>4 DEF T!WholeInv

(* A put replaces objects: none of a photo staged before in this staging,  *)
(* none of the live database unless it is rehearsed on.                    *)
LEMMA StageBlobKeepsWhole ==
  ASSUME T!WholeInv, NEW d \in Photos, T!StageBlob(d)
  PROVE  T!WholeInv'
<1> DEFINE row == [digest |-> d, envelope |-> tEnvelopes + 1]
<1>1. /\ staging /\ d \in T!Digests(file["blobs"]) /\ d \notin T!Digests(staged)
      /\ tObjects' = [tObjects EXCEPT ![d] = tEnvelopes + 1]
      /\ staged' = staged \cup {row} /\ latest' = None
      /\ UNCHANGED <<engram, frozen, file, staging, outputs, db, gate, halts>>
  BY DEF T!StageBlob
<1>2. row.digest = d /\ row.envelope = tEnvelopes + 1
  OBVIOUS
<1> HIDE DEF row
<1>3. /\ tObjects'[d] = tEnvelopes + 1 /\ DOMAIN tObjects' = Photos
      /\ \A r \in staged : tObjects'[r.digest] = tObjects[r.digest]
  BY <1>1 DEF T!WholeInv, T!StagedInv, T!Digests
<1>4. T!Digests(staged') \subseteq T!Digests(file["blobs"])
  BY <1>1, <1>2 DEF T!WholeInv, T!StagedInv, T!Digests
<1>5. T!StagedInv'
  BY <1>1, <1>2, <1>3, <1>4
     DEF T!WholeInv, T!StagedInv, T!Exported, T!Whole, T!Complete, T!Digests
<1>6. T!EngramInv' /\ T!FileInv' /\ T!DbInv'
  BY <1>1 DEF T!WholeInv, T!EngramInv, T!FileInv, T!Exported, T!DbInv, T!Whole, T!Digests
<1>7. T!LiveInv'
  BY <1>1 DEF T!WholeInv, T!LiveInv
<1> QED BY <1>5, <1>6, <1>7 DEF T!WholeInv

(* What is written opens: everything it names was put by this staging.     *)
LEMMA WriteStagedKeepsWhole ==
  ASSUME T!WholeInv, T!WriteStaged
  PROVE  T!WholeInv'
<1> DEFINE s == T!StagedTables
<1>1. /\ staging /\ T!Digests(file["blobs"]) \subseteq T!Digests(staged)
      /\ outputs' = outputs \cup {s} /\ latest' = s
      /\ ~staging' /\ staged' = {}
      /\ UNCHANGED <<engram, frozen, file, tObjects, tEnvelopes, db, gate, halts>>
  BY DEF T!WriteStaged
<1>2. T!Whole(file) /\ (frozen => T!Complete(file))
  BY <1>1, FileOfExported DEF T!WholeInv, T!StagedInv
<1>3. /\ DOMAIN s = T!Tables /\ s["blobs"] = staged
      /\ s["captures"] = file["captures"] /\ s["decisions"] = file["decisions"]
  BY <1>2 DEF T!StagedTables, T!Whole, T!Tables
<1> HIDE DEF s
<1>4. T!Digests(staged) \subseteq T!Digests(file["blobs"])
  BY DEF T!WholeInv, T!StagedInv, T!Digests
<1>5. T!Whole(s) /\ (frozen => T!Complete(s)) /\ T!Decrypts(s)
  BY <1>1, <1>2, <1>3, <1>4 DEF T!Whole, T!Complete, T!Decrypts, T!WholeInv, T!StagedInv
<1>6. T!StagedInv'
  BY <1>1, <1>5 DEF T!WholeInv, T!StagedInv, T!Whole, T!Complete, T!Digests, T!Decrypts
<1>7. T!EngramInv' /\ T!FileInv' /\ T!DbInv'
  BY <1>1 DEF T!WholeInv, T!EngramInv, T!FileInv, T!Exported, T!DbInv, T!Whole, T!Digests
<1>8. T!LiveInv'
  BY <1>1 DEF T!WholeInv, T!LiveInv, T!Decrypts, T!Digests
<1> QED BY <1>6, <1>7, <1>8 DEF T!WholeInv

(* What is imported is a whole snapshot, or nothing is.                    *)
LEMMA ImportKeepsWhole ==
  ASSUME T!WholeInv, T!ImportDisposable \/ T!ImportAuthority
  PROVE  T!WholeInv'
<1>1. PICK x \in T!Databases, s \in outputs \cup {file} :
        /\ T!Import(x, s)
        /\ s \in outputs \/ T!Exported
        /\ x = "authority" => s \in outputs /\ frozen
  BY DEF T!ImportDisposable, T!ImportAuthority, T!Databases
<1>2. /\ T!Inserted(db[x], s) = s
      /\ db' = [db EXCEPT ![x] = s]
      /\ UNCHANGED <<engram, frozen, file, staging, staged, outputs, latest, tObjects,
                     tEnvelopes, gate, halts>>
  BY <1>1 DEF T!Import, T!Accepted
<1>3. T!Whole(s)
  BY <1>1, FileOfExported DEF T!WholeInv, T!StagedInv
<1>4. /\ DOMAIN db' = T!Databases /\ db'[x] = s
      /\ \A y \in T!Databases \ {x} : db'[y] = db[y]
  BY <1>2 DEF T!WholeInv, T!DbInv
<1>5. T!EngramInv' /\ T!FileInv' /\ T!StagedInv'
  BY <1>2 DEF T!WholeInv, T!EngramInv, T!FileInv, T!StagedInv, T!Exported, T!Whole,
              T!Complete, T!Digests, T!Decrypts
<1>6. x = "authority" => T!Complete(s)
  BY <1>1 DEF T!WholeInv, T!StagedInv
<1>7. T!DbInv'
  <2>1. \A y \in T!Databases :
          DOMAIN db'[y] = T!Tables /\ db'[y]["captures"] \subseteq T!Digests(db'[y]["blobs"])
    BY <1>3, <1>4 DEF T!WholeInv, T!DbInv, T!Whole
  <2>2. ASSUME gate
        PROVE  /\ engram["captures"] \subseteq db'["authority"]["captures"]
               /\ engram["decisions"] \subseteq db'["authority"]["decisions"]
    BY <1>4, <1>6, <2>2 DEF T!WholeInv, T!DbInv, T!Complete, T!Databases
  <2> QED BY <1>2, <1>4, <2>1, <2>2 DEF T!WholeInv, T!DbInv, T!Digests
<1>8. T!LiveInv'
  <2>1. CASE Rehearse
    BY <2>1 DEF T!LiveInv
  <2>2. CASE ~Rehearse /\ x # "authority"
    BY <1>2, <1>4, <2>2 DEF T!WholeInv, T!LiveInv, T!Decrypts, T!Digests, T!Databases
  <2>3. CASE ~Rehearse /\ x = "authority" /\ gate
    <3>1. \A r \in s["blobs"] : r.digest \in T!Digests(db[x]["blobs"]) => r \in db[x]["blobs"]
      <4>1. s["blobs"] = db[x]["blobs"] \cup
                         {r \in s["blobs"] : r.digest \notin T!Digests(db[x]["blobs"])}
        BY <1>2 DEF T!Inserted, T!Tables
      <4> QED BY <4>1
    <3>2. T!Digests(s["blobs"]) \subseteq T!Digests(db[x]["blobs"])
      BY <1>3, <2>3 DEF T!WholeInv, T!DbInv, T!EngramInv, T!Whole
    <3>3. s["blobs"] \subseteq db[x]["blobs"]
      BY <3>1, <3>2 DEF T!Digests
    <3> QED BY <1>2, <1>4, <2>3, <3>3 DEF T!WholeInv, T!LiveInv, T!Decrypts, T!Digests
  <2>4. CASE ~Rehearse /\ x = "authority" /\ ~gate
    BY <1>2, <2>4 DEF T!WholeInv, T!LiveInv
  <2> QED BY <2>1, <2>2, <2>3, <2>4
<1> QED BY <1>5, <1>7, <1>8 DEF T!WholeInv

LEMMA OpenGateKeepsWhole ==
  ASSUME T!WholeInv, T!OpenGate
  PROVE  T!WholeInv'
<1>1. /\ frozen /\ ~staging /\ db["authority"] \in outputs /\ T!Decrypts(db["authority"])
      /\ UNCHANGED <<engram, frozen, file, staging, staged, outputs, latest, tObjects,
                     tEnvelopes, db, halts>>
  BY DEF T!OpenGate
<1>2. T!Whole(db["authority"]) /\ T!Complete(db["authority"])
  BY <1>1 DEF T!WholeInv, T!StagedInv
<1>3. T!EngramInv' /\ T!FileInv' /\ T!StagedInv'
  BY <1>1 DEF T!WholeInv, T!EngramInv, T!FileInv, T!StagedInv, T!Exported, T!Whole,
              T!Complete, T!Digests, T!Decrypts
<1>4. T!DbInv'
  BY <1>1, <1>2 DEF T!WholeInv, T!DbInv, T!Complete, T!Digests
<1>5. T!LiveInv'
  BY <1>1, <1>2 DEF T!WholeInv, T!LiveInv, T!EngramInv, T!Whole, T!Decrypts, T!Digests
<1> QED BY <1>3, <1>4, <1>5 DEF T!WholeInv

LEMMA DropKeepsWhole ==
  ASSUME T!WholeInv, T!DropDisposable
  PROVE  T!WholeInv'
<1>1. /\ db' = [db EXCEPT !["disposable"] = T!Empty]
      /\ UNCHANGED <<engram, frozen, file, staging, staged, outputs, latest, tObjects,
                     tEnvelopes, gate, halts>>
  BY DEF T!DropDisposable
<1>2. T!EngramInv' /\ T!FileInv' /\ T!StagedInv'
  BY <1>1 DEF T!WholeInv, T!EngramInv, T!FileInv, T!StagedInv, T!Exported, T!Whole,
              T!Complete, T!Digests, T!Decrypts
<1>3. DOMAIN T!Empty = T!Tables /\ T!Empty["captures"] = {}
  BY DEF T!Empty, T!Tables
<1>4. /\ DOMAIN db' = T!Databases /\ db'["disposable"] = T!Empty
      /\ \A x \in T!Databases \ {"disposable"} : db'[x] = db[x]
      /\ db'["authority"] = db["authority"]
  BY <1>1 DEF T!WholeInv, T!DbInv, T!Databases
<1>5. T!DbInv'
  BY <1>1, <1>3, <1>4 DEF T!WholeInv, T!DbInv, T!Digests
<1>6. T!LiveInv'
  BY <1>1, <1>4 DEF T!WholeInv, T!LiveInv, T!Decrypts, T!Digests
<1> QED BY <1>2, <1>5, <1>6 DEF T!WholeInv

(* A photo is added here only if no row names it, and after the cutover a  *)
(* row names everything that a snapshot does: none loses its object.       *)
LEMMA AddHereKeepsWhole ==
  ASSUME T!WholeInv, NEW d \in Photos, T!AddHere(d)
  PROVE  T!WholeInv'
<1> DEFINE row == [digest |-> d, envelope |-> tEnvelopes + 1]
<1>1. /\ gate /\ d \notin T!Digests(db["authority"]["blobs"])
      /\ tObjects' = [tObjects EXCEPT ![d] = tEnvelopes + 1]
      /\ db' = [db EXCEPT !["authority"]["captures"] = @ \cup {d},
                          !["authority"]["blobs"] = @ \cup {row}]
      /\ UNCHANGED <<engram, frozen, file, staging, staged, outputs, latest, gate, halts>>
  BY DEF T!AddHere
<1>2. row.digest = d /\ row.envelope = tEnvelopes + 1
  OBVIOUS
<1> HIDE DEF row
<1>3. "disposable" \in T!Databases /\ "authority" \in T!Databases
      /\ "blobs" \in T!Tables /\ "captures" \in T!Tables /\ "decisions" \in T!Tables
  BY DEF T!Tables, T!Databases
<1>4. /\ DOMAIN db' = T!Databases
      /\ \A x \in T!Databases \ {"authority"} : db'[x] = db[x]
      /\ DOMAIN db'["authority"] = T!Tables
      /\ db'["authority"]["captures"] = db["authority"]["captures"] \cup {d}
      /\ db'["authority"]["blobs"] = db["authority"]["blobs"] \cup {row}
      /\ db'["authority"]["decisions"] = db["authority"]["decisions"]
  BY <1>1, <1>3 DEF T!WholeInv, T!DbInv
<1>5. d \notin engram["blobs"]
  BY <1>1, <1>3 DEF T!WholeInv, T!DbInv, T!EngramInv
<1>6. /\ tObjects'[d] = tEnvelopes + 1 /\ DOMAIN tObjects' = Photos
      /\ \A e \in Photos \ {d} : tObjects'[e] = tObjects[e]
  BY <1>1 DEF T!WholeInv, T!StagedInv
<1>7. T!EngramInv' /\ T!FileInv'
  BY <1>1 DEF T!WholeInv, T!EngramInv, T!FileInv, T!Exported, T!Whole, T!Digests
<1>8. engram["blobs"] \subseteq Photos
  BY DEF T!WholeInv, T!EngramInv
<1>9. \A r \in staged : r.envelope = tObjects'[r.digest]
  <2>1. staged # {} => T!Exported
    BY DEF T!WholeInv, T!StagedInv
  <2>2. staged # {} => T!Digests(staged) \subseteq engram["blobs"]
    BY <2>1, FileOfExported DEF T!WholeInv, T!StagedInv, T!Whole
  <2>3. \A r \in staged : r.digest \in engram["blobs"]
    BY <2>2 DEF T!Digests
  <2> QED BY <1>5, <1>6, <1>8, <2>3 DEF T!WholeInv, T!StagedInv
<1>10. latest # None => T!Decrypts(latest)'
  <2> SUFFICES ASSUME latest # None PROVE T!Decrypts(latest)'
    OBVIOUS
  <2>1. T!Digests(latest["blobs"]) \subseteq engram["blobs"] /\ T!Decrypts(latest)
    BY DEF T!WholeInv, T!StagedInv, T!Whole
  <2>2. \A r \in latest["blobs"] : r.digest \in engram["blobs"]
    BY <2>1 DEF T!Digests
  <2> QED BY <1>1, <1>5, <1>6, <1>8, <2>1, <2>2 DEF T!Decrypts
<1>11. T!StagedInv'
  BY <1>1, <1>6, <1>9, <1>10
     DEF T!WholeInv, T!StagedInv, T!Exported, T!Whole, T!Complete, T!Digests
<1>12. T!DbInv'
  <2>1. db'["authority"]["captures"] \subseteq T!Digests(db'["authority"]["blobs"])
    BY <1>2, <1>3, <1>4 DEF T!WholeInv, T!DbInv, T!Digests
  <2> QED BY <1>1, <1>4, <2>1 DEF T!WholeInv, T!DbInv, T!Digests
<1>13. T!LiveInv'
  <2>1. CASE Rehearse
    BY <2>1 DEF T!LiveInv
  <2>2. CASE ~Rehearse
    <3>1. /\ \A r \in db["authority"]["blobs"] :
               r.digest \in Photos \ {d} /\ r.envelope = tObjects[r.digest]
      BY <1>1, <2>2 DEF T!WholeInv, T!LiveInv, T!Decrypts, T!Digests
    <3>2. \A r \in db'["authority"]["blobs"] :
            r.digest \in Photos /\ r.envelope = tObjects'[r.digest]
      BY <1>2, <1>4, <1>6, <3>1
    <3>3. T!Decrypts(db["authority"])' /\ T!Digests(db["authority"]["blobs"])' \subseteq Photos
      BY <3>2 DEF T!Decrypts, T!Digests
    <3> QED BY <1>1, <2>2, <3>3 DEF T!WholeInv, T!LiveInv
  <2> QED BY <2>1, <2>2
<1> QED BY <1>7, <1>11, <1>12, <1>13 DEF T!WholeInv

LEMMA StepKeepsWhole ==
  ASSUME T!WholeInv, [T!Next]_(T!vars)
  PROVE  T!WholeInv'
<1>1. CASE UNCHANGED T!vars
  <2>1. T!EngramInv' /\ T!FileInv' /\ T!StagedInv'
    BY <1>1 DEF T!vars, T!WholeInv, T!EngramInv, T!FileInv, T!StagedInv, T!Exported,
                T!Whole, T!Complete, T!Digests, T!Decrypts
  <2>2. T!DbInv' /\ T!LiveInv'
    BY <1>1 DEF T!vars, T!WholeInv, T!DbInv, T!LiveInv, T!Digests, T!Decrypts
  <2> QED BY <2>1, <2>2 DEF T!WholeInv
<1>2. CASE T!EngramRecords \/ T!Freeze
  BY <1>2, RecordKeepsWhole, FreezeKeepsWhole
<1>3. CASE \E i \in DOMAIN T!TableOrder : T!ExportTable(i)
  BY <1>3, ExportKeepsWhole
<1>4. CASE T!StartStaging \/ T!StopStaging \/ T!RemoveExport \/ T!RemoveOutputs
  BY <1>4, FilesKeepWhole
<1>5. CASE \E d \in Photos : T!StageBlob(d) \/ T!AddHere(d)
  BY <1>5, StageBlobKeepsWhole, AddHereKeepsWhole
<1>6. CASE T!ImportDisposable \/ T!ImportAuthority
  BY <1>6, ImportKeepsWhole
<1>7. CASE T!WriteStaged \/ T!OpenGate \/ T!DropDisposable
  BY <1>7, WriteStagedKeepsWhole, OpenGateKeepsWhole, DropKeepsWhole
<1> QED BY <1>1, <1>2, <1>3, <1>4, <1>5, <1>6, <1>7 DEF T!Next, T!Rest

LEMMA WholeIsWhole == T!WholeInv => T!ImportedIsWhole /\ (~Rehearse => T!RehearsalKeepsPhotos)
<1> SUFFICES ASSUME T!WholeInv
             PROVE  T!ImportedIsWhole /\ (~Rehearse => T!RehearsalKeepsPhotos)
  OBVIOUS
<1>1. ASSUME NEW x \in T!Databases, latest # None, db[x] = latest, NEW d \in db[x]["captures"]
      PROVE  T!OpensIn(db[x], d)
  <2>1. latest # None => T!Decrypts(latest)
    BY DEF T!WholeInv, T!StagedInv
  <2>2. DOMAIN db[x] = T!Tables /\ d \in T!Digests(db[x]["blobs"])
    BY <1>1 DEF T!WholeInv, T!DbInv
  <2> QED BY <1>1, <2>1, <2>2 DEF T!OpensIn, T!Decrypts, T!Digests
<1>2. T!ImportedIsWhole
  BY <1>1 DEF T!WholeInv, T!DbInv, T!ImportedIsWhole
<1>3. ASSUME ~Rehearse, gate, NEW d \in db["authority"]["captures"]
      PROVE  T!OpensIn(db["authority"], d)
  <2>1. "authority" \in T!Databases
    BY DEF T!Databases
  <2>2. d \in T!Digests(db["authority"]["blobs"]) /\ T!Decrypts(db["authority"])
    BY <1>3, <2>1 DEF T!WholeInv, T!DbInv, T!LiveInv
  <2> QED BY <2>2 DEF T!OpensIn, T!Decrypts, T!Digests
<1> QED BY <1>2, <1>3 DEF T!RehearsalKeepsPhotos

(* The transfer (transfer.py), however often it is rehearsed, and though   *)
(* Engram records while it is exported and stagings stop half way: every   *)
(* database has the row of each photo that its captures link, whatever     *)
(* was imported; the photos of one that holds what was staged last open;   *)
(* and when the gate opens nothing that Engram recorded is missing.        *)
THEOREM TransferIsWhole == T!Spec => []ImportedIsWhole
<1>1. T!WholeInv /\ [T!Next]_(T!vars) => T!WholeInv'
  BY StepKeepsWhole
<1> QED BY <1>1, InitWholeInv, WholeIsWhole, PTL DEF T!Spec, ImportedIsWhole

(* What goes wrong in the run that rehearses is the rehearsal: without one *)
(* after the cutover the photos of the live database always open.          *)
THEOREM LivePhotosOpen ==
  ASSUME ~Rehearse
  PROVE  T!Spec => []RehearsalKeepsPhotos
<1>1. T!WholeInv /\ [T!Next]_(T!vars) => T!WholeInv'
  BY StepKeepsWhole
<1> QED BY <1>1, InitWholeInv, WholeIsWhole, PTL DEF T!Spec, RehearsalKeepsPhotos

-------------------------------------------------------------------------------
(* The owner's signals.                                                    *)

LEMMA InitSignals ==
  ASSUME Sig!Init
  PROVE  Sig!SignalsInv
<1>1. Sig!SentInv /\ Sig!OwnerInv
  BY DEF Sig!Init, Sig!SentInv, Sig!OwnerInv, Sig!Newest, Sig!Sent
<1>2. Sig!PresenceInv /\ Sig!OrderInv
  BY FS_EmptySet, SignalsFiniteSets DEF Sig!Init, Sig!PresenceInv, Sig!OrderInv
<1>3. Sig!AskedInv
  BY DEF Sig!Init, Sig!AskedInv
<1> QED BY <1>1, <1>2, <1>3 DEF Sig!SignalsInv

(* Two events never share an id.                                           *)
LEMMA IdsAreEvents ==
  ASSUME Sig!SentInv, NEW m \in sent, NEW n \in sent, m.id = n.id
  PROVE  m = n
<1>1. \A a, b, c, d, f : /\ <<"key", a>> # <<b, c, d>>
                         /\ <<"key", a>> = <<"key", f>> => a = f
  OBVIOUS
<1>2. \A a, b, c, d, f, g : <<a, b, c>> = <<d, f, g>> => c = g
  OBVIOUS
<1>3. /\ m.id = <<"key", m.at>> \/ m.id = <<m.kind, m.about, m.at>>
      /\ n.id = <<"key", n.at>> \/ n.id = <<n.kind, n.about, n.at>>
  BY DEF Sig!SentInv
<1>4. m.at = n.at
  BY <1>1, <1>2, <1>3
<1> QED BY <1>4 DEF Sig!SentInv

(* Sending: the event is the newest; the owner, or the order it is about,  *)
(* is as it says.                                                          *)
LEMMA SendKeepsSignals ==
  ASSUME Sig!SignalsInv, NEW kind, NEW about, NEW site, Sig!Send(kind, about, site),
         kind \notin Sig!PresenceKinds => owner' = owner,
         kind \in Sig!PresenceKinds =>
           \/ kind = "depart" /\ owner' = None
           \/ kind # "depart" /\ owner' = site /\ site \in Sites,
         \/ about \notin Orders /\ asked' = asked
         \/ /\ about \in Orders /\ kind \in Sig!OrderKinds
            /\ asked' = [asked EXCEPT ![about] = kind]
  PROVE  Sig!SignalsInv'
<1> DEFINE e == [id |-> Sig!ExternalId(kind, about), kind |-> kind, about |-> about,
                 site |-> site, at |-> sClock]
<1>1. sent' = sent \cup {e} /\ sClock' = sClock + 1 /\ presence' = presence
      /\ orders' = orders
  BY DEF Sig!Send
<1>2. /\ e.kind = kind /\ e.about = about /\ e.site = site /\ e.at = sClock
      /\ e.id = Sig!ExternalId(kind, about)
  OBVIOUS
<1>3. e.id = <<"key", e.at>> \/ e.id = <<e.kind, e.about, e.at>>
  BY <1>2 DEF Sig!ExternalId
<1> HIDE DEF e
<1>4. Sig!SentInv'
  BY <1>1, <1>2, <1>3 DEF Sig!SignalsInv, Sig!SentInv
<1>5. \A m \in sent : m.at < sClock /\ m.at \in Nat /\ sClock \in Nat
  BY DEF Sig!SignalsInv, Sig!SentInv
<1>6. Sig!OwnerInv'
  <2>1. CASE kind \notin Sig!PresenceKinds
    <3>1. Sig!Sent(Sig!PresenceKinds)' = Sig!Sent(Sig!PresenceKinds)
      BY <1>1, <1>2, <2>1 DEF Sig!Sent, Sig!PresenceKinds
    <3>2. owner' = owner
      BY <2>1
    <3> QED BY <1>1, <3>1, <3>2 DEF Sig!SignalsInv, Sig!OwnerInv, Sig!Newest, Sig!Sent
  <2>2. CASE kind \in Sig!PresenceKinds
    <3>1. Sig!Sent(Sig!PresenceKinds)' = Sig!Sent(Sig!PresenceKinds) \cup {e}
      BY <1>1, <1>2, <2>2 DEF Sig!Sent, Sig!PresenceKinds
    <3>2. \A n \in Sig!Sent(Sig!PresenceKinds)' : n.at <= e.at /\ (n.at = e.at => n = e)
      <4>1. \A n \in Sig!Sent(Sig!PresenceKinds) : n \in sent
        BY DEF Sig!Sent
      <4>2. \A n \in Sig!Sent(Sig!PresenceKinds) : n.at < e.at /\ n.at \in Nat /\ e.at \in Nat
        BY <1>2, <1>5, <4>1
      <4>3. e.at \in Nat
        BY <1>2 DEF Sig!SignalsInv, Sig!SentInv
      <4> SUFFICES ASSUME NEW n \in Sig!Sent(Sig!PresenceKinds) \cup {e}
                   PROVE  n.at <= e.at /\ (n.at = e.at => n = e)
        BY <3>1
      <4>4. CASE n = e
        BY <4>3, <4>4
      <4>5. CASE n \in Sig!Sent(Sig!PresenceKinds)
        BY <4>2, <4>5
      <4> QED BY <4>4, <4>5
    <3>3. \A m : Sig!Newest(m)' <=> m = e
      BY <1>2, <1>5, <3>1, <3>2 DEF Sig!Newest, Sig!Sent
    <3>4. \/ e.kind = "depart" /\ owner' = None
          \/ e.kind # "depart" /\ owner' = e.site /\ e.site \in Sites
      BY <1>2, <2>2
    <3> QED BY <1>1, <3>1, <3>3, <3>4 DEF Sig!OwnerInv, Sig!Newest
  <2> QED BY <2>1, <2>2
<1>7. Sig!PresenceInv'
  <2>1. \A m \in Sig!Sent(Sig!PresenceKinds) : m \in Sig!Sent(Sig!PresenceKinds)'
    BY <1>1 DEF Sig!Sent
  <2> QED BY <1>1, <2>1 DEF Sig!SignalsInv, Sig!PresenceInv
<1>8. Sig!OrderInv'
  BY <1>1 DEF Sig!SignalsInv, Sig!OrderInv
<1>9. Sig!AskedInv'
  <2>1. CASE about \notin Orders /\ asked' = asked
    <3>1. \A o \in Orders, m \in sent' : m.about = o => m \in sent
      BY <1>1, <1>2, <2>1
    <3> QED BY <1>1, <2>1, <3>1 DEF Sig!SignalsInv, Sig!AskedInv
  <2>2. CASE /\ about \in Orders /\ kind \in Sig!OrderKinds
             /\ asked' = [asked EXCEPT ![about] = kind]
    <3>1. asked' \in [Orders -> Sig!OrderKinds \cup {"none"}]
      BY <2>2 DEF Sig!SignalsInv, Sig!AskedInv
    <3>2. asked'[about] = kind /\ kind # "none"
      BY <2>2 DEF Sig!SignalsInv, Sig!AskedInv, Sig!OrderKinds
    <3>3. \A n \in sent' : n.at <= e.at
      <4>1. e.at \in Nat
        BY <1>2 DEF Sig!SignalsInv, Sig!SentInv
      <4> QED BY <1>1, <1>2, <1>5, <4>1
    <3>4. ASSUME NEW o \in Orders
          PROVE  IF asked'[o] = "none" THEN \A m \in sent' : m.about # o
                 ELSE \E m \in sent' : /\ m.about = o /\ m.kind = asked'[o]
                                       /\ \A n \in sent' : n.about = o => n.at <= m.at
      <4>1. CASE o = about
        BY <1>1, <1>2, <3>2, <3>3, <4>1
      <4>2. CASE o # about
        <5>1. asked'[o] = asked[o]
          BY <2>2, <4>2 DEF Sig!SignalsInv, Sig!AskedInv
        <5>2. \A m \in sent' : m.about = o => m \in sent
          BY <1>1, <1>2, <4>2
        <5> QED BY <1>1, <5>1, <5>2 DEF Sig!SignalsInv, Sig!AskedInv
      <4> QED BY <4>1, <4>2
    <3> QED BY <3>1, <3>4 DEF Sig!AskedInv, Sig!OrderKinds
  <2> QED BY <2>1, <2>2
<1> QED BY <1>4, <1>6, <1>7, <1>8, <1>9 DEF Sig!SignalsInv

(* A presence event arrives.                                               *)
LEMMA RecordKeepsSignals ==
  ASSUME Sig!SignalsInv, NEW m \in sent, Sig!RecordPresenceEvent(m)
  PROVE  Sig!SignalsInv'
<1>1. /\ m \in Sig!Sent(Sig!PresenceKinds) /\ presence' = Sig!AppendOnce(presence, m)
      /\ UNCHANGED <<sClock, owner, asked, sent, orders>>
  BY DEF Sig!RecordPresenceEvent, Sig!Sent
<1>2. Sig!SentInv' /\ Sig!OwnerInv' /\ Sig!AskedInv' /\ Sig!OrderInv'
  BY <1>1 DEF Sig!SignalsInv, Sig!SentInv, Sig!OwnerInv, Sig!Newest, Sig!Sent,
              Sig!AskedInv, Sig!OrderInv, Sig!vars
<1>3. CASE Sig!Recorded(presence, m)
  <2>1. presence' = presence
    BY <1>1, <1>3 DEF Sig!AppendOnce
  <2>2. Sig!Sent(Sig!PresenceKinds)' = Sig!Sent(Sig!PresenceKinds)
    BY <1>1 DEF Sig!Sent
  <2> QED BY <1>2, <2>1, <2>2 DEF Sig!SignalsInv, Sig!PresenceInv
<1>4. CASE ~Sig!Recorded(presence, m)
  <2> DEFINE row == Sig!RowOf(presence, m)
  <2>1. presence' = presence \cup {row}
    BY <1>1, <1>4 DEF Sig!AppendOnce
  <2>2. /\ row.seq \in Nat /\ row.id = m.id /\ row.kind = m.kind
        /\ row.site = m.site /\ row.at = m.at
    BY FS_CardinalityType, SignalsFiniteSets DEF Sig!RowOf, Sig!SignalsInv, Sig!PresenceInv
  <2> HIDE DEF row
  <2>3. Sig!IsFiniteSet(presence')
    <3>1. IsFiniteSet(presence)
      BY SignalsFiniteSets DEF Sig!SignalsInv, Sig!PresenceInv
    <3>2. IsFiniteSet(presence')
      BY <2>1, <3>1, FS_AddElement
    <3> QED BY <3>2, SignalsFiniteSets
  <2>4. \A e \in presence : e.id # row.id
    BY <1>4, <2>2 DEF Sig!Recorded
  <2>5. \A e \in presence' :
          /\ e.seq \in Nat
          /\ \E n \in Sig!Sent(Sig!PresenceKinds) :
               e.id = n.id /\ e.kind = n.kind /\ e.site = n.site /\ e.at = n.at
          /\ \A f \in presence' : f.id = e.id => f = e
    BY <1>1, <2>1, <2>2, <2>4 DEF Sig!SignalsInv, Sig!PresenceInv
  <2> QED BY <1>1, <1>2, <2>3, <2>5 DEF Sig!SignalsInv, Sig!PresenceInv, Sig!Sent
<1> QED BY <1>2, <1>3, <1>4 DEF Sig!SignalsInv

(* An order event arrives.                                                 *)
LEMMA RecordOrderKeepsSignals ==
  ASSUME Sig!SignalsInv, NEW m \in sent, Sig!RecordOrderEvent(m)
  PROVE  Sig!SignalsInv'
<1>1. orders' = Sig!AppendOnce(orders, m) /\ UNCHANGED <<sClock, owner, asked, sent, presence>>
  BY DEF Sig!RecordOrderEvent
<1>2. Sig!SentInv' /\ Sig!OwnerInv' /\ Sig!AskedInv' /\ Sig!PresenceInv'
  BY <1>1 DEF Sig!SignalsInv, Sig!SentInv, Sig!OwnerInv, Sig!Newest, Sig!Sent,
              Sig!AskedInv, Sig!PresenceInv
<1>3. CASE Sig!Recorded(orders, m)
  <2>1. orders' = orders
    BY <1>1, <1>3 DEF Sig!AppendOnce
  <2> QED BY <1>1, <1>2, <2>1 DEF Sig!SignalsInv, Sig!OrderInv
<1>4. CASE ~Sig!Recorded(orders, m)
  <2> DEFINE row == Sig!RowOf(orders, m)
             n   == Cardinality(orders)
  <2>1. orders' = orders \cup {row}
    BY <1>1, <1>4 DEF Sig!AppendOnce
  <2>2. IsFiniteSet(orders) /\ n \in Nat
    BY SignalsFiniteSets, FS_CardinalityType DEF Sig!SignalsInv, Sig!OrderInv
  <2>3. /\ row.seq = n + 1 /\ row.id = m.id /\ row.kind = m.kind
        /\ row.about = m.about /\ row.site = m.site /\ row.at = m.at
    BY SignalsFiniteSets DEF Sig!RowOf
  <2>4. \A e \in orders : /\ e.seq \in 1..n /\ e.id # row.id
                          /\ \A f \in orders : f.id = e.id \/ f.seq = e.seq => f = e
    BY <1>4, <2>3, SignalsFiniteSets
       DEF Sig!SignalsInv, Sig!OrderInv, Sig!Recorded
  <2> HIDE DEF row, n
  <2>5. row \notin orders
    BY <2>4
  <2>6. IsFiniteSet(orders') /\ Cardinality(orders') = n + 1
    BY <2>1, <2>2, <2>5, FS_AddElement DEF n
  <2>7. \A e \in orders' :
          /\ e.seq \in 1..Cardinality(orders')
          /\ \A f \in orders' : f.id = e.id \/ f.seq = e.seq => f = e
    BY <2>1, <2>2, <2>3, <2>4, <2>6
  <2>8. \A e \in orders' : \E k \in sent' :
          e.id = k.id /\ e.kind = k.kind /\ e.about = k.about /\ e.site = k.site /\ e.at = k.at
    BY <1>1, <2>1, <2>3 DEF Sig!SignalsInv, Sig!OrderInv
  <2>9. Sig!OrderInv'
    BY <2>6, <2>7, <2>8, SignalsFiniteSets DEF Sig!OrderInv
  <2> QED BY <1>2, <2>9 DEF Sig!SignalsInv
<1> QED BY <1>3, <1>4

LEMMA StepKeepsSignals ==
  ASSUME Sig!SignalsAssumption, Sig!SignalsInv, [Sig!Next]_(Sig!vars)
  PROVE  Sig!SignalsInv'
<1>1. ASSUME NEW s \in Sites, Sig!Arrive(s) \/ Sig!Dwell(s) \/ Sig!Depart(s)
      PROVE  Sig!SignalsInv'
  <2>1. s \notin Orders
    BY DEF Sig!SignalsAssumption
  <2> QED BY <1>1, <2>1, SendKeepsSignals
             DEF Sig!Arrive, Sig!Dwell, Sig!Depart, Sig!PresenceKinds
<1>2. ASSUME NEW o \in Orders, NEW s \in Sites, Sig!CreateRestingOrder(o, s)
      PROVE  Sig!SignalsInv'
  BY <1>2, SendKeepsSignals DEF Sig!CreateRestingOrder, Sig!PresenceKinds, Sig!OrderKinds
<1>3. ASSUME NEW o \in Orders, Sig!ClearRestingOrder(o)
      PROVE  Sig!SignalsInv'
  BY <1>3, SendKeepsSignals DEF Sig!ClearRestingOrder, Sig!PresenceKinds, Sig!OrderKinds
<1>4. ASSUME Sig!Tick \/ UNCHANGED Sig!vars
      PROVE  Sig!SignalsInv'
  <2>1. /\ UNCHANGED <<owner, asked, sent, presence, orders>>
        /\ sClock' = sClock \/ sClock' = sClock + 1
    BY <1>4 DEF Sig!Tick, Sig!vars
  <2>2. Sig!SentInv'
    BY <2>1 DEF Sig!SignalsInv, Sig!SentInv
  <2>3. Sig!AskedInv' /\ Sig!OrderInv'
    BY <2>1 DEF Sig!SignalsInv, Sig!AskedInv, Sig!OrderInv
  <2> QED BY <2>1, <2>2, <2>3 DEF Sig!SignalsInv, Sig!OwnerInv, Sig!Newest, Sig!PresenceInv, Sig!Sent
<1> QED BY <1>1, <1>2, <1>3, <1>4, RecordKeepsSignals, RecordOrderKeepsSignals
        DEF Sig!Next, Sig!Deliver, Sig!Rest

(* When every presence event is a row, the fold is led by the newest.      *)
LEMMA FoldIsLedByNewest ==
  ASSUME Sig!SignalsInv, \A m \in Sig!Sent(Sig!PresenceKinds) : Sig!Recorded(presence, m),
         NEW m \in sent, Sig!Newest(m)
  PROVE  /\ presence # {}
         /\ LET e == CHOOSE x \in presence : Sig!Latest(presence, x)
            IN  e.kind = m.kind /\ e.site = m.site /\ e.at = m.at
<1>1. PICK e \in presence : e.id = m.id
  BY DEF Sig!Newest, Sig!Recorded
<1>2. \A f \in presence : \E n \in Sig!Sent(Sig!PresenceKinds) :
        f.id = n.id /\ f.kind = n.kind /\ f.site = n.site /\ f.at = n.at
  BY DEF Sig!SignalsInv, Sig!PresenceInv
<1>3. Sig!Sent(Sig!PresenceKinds) \subseteq sent
  BY DEF Sig!Sent
<1>4. e.kind = m.kind /\ e.site = m.site /\ e.at = m.at
  BY <1>1, <1>2, <1>3, IdsAreEvents DEF Sig!SignalsInv
<1>5. \A f \in presence : f.at \in Nat /\ e.at \in Nat /\ f.at <= e.at
  BY <1>2, <1>3, <1>4 DEF Sig!Newest, Sig!SignalsInv, Sig!SentInv
<1>6. \A f \in presence : f.at = e.at => f = e
  BY <1>1, <1>2, <1>3, <1>4 DEF Sig!SignalsInv, Sig!SentInv, Sig!PresenceInv
<1>7. \A f \in presence : f.seq \in Nat
  BY DEF Sig!SignalsInv, Sig!PresenceInv
<1>8. Sig!Latest(presence, e)
  BY <1>5, <1>6, <1>7 DEF Sig!Latest
<1>9. \A x \in presence : Sig!Latest(presence, x) => x = e
  BY <1>1, <1>5, <1>6 DEF Sig!Latest
<1>10. (CHOOSE x \in presence : Sig!Latest(presence, x)) = e
  BY <1>1, <1>8, <1>9
<1> QED BY <1>1, <1>4, <1>10

(* The answer of each case, spelled out.                                   *)
LEMMA PresenceIsCurrent ==
  ASSUME Sig!SignalsAssumption, Sig!SignalsInv,
         \A m \in Sig!Sent(Sig!PresenceKinds) : Sig!Recorded(presence, m)
  PROVE  /\ owner # None /\ Sig!Heard =>
              Sig!FoldPresence(presence, sClock) = [status |-> "present", site |-> owner]
         /\ owner # None /\ ~Sig!Heard =>
              Sig!FoldPresence(presence, sClock) = Sig!Nowhere("stale")
         /\ owner = None /\ Sig!Sent(Sig!PresenceKinds) # {} =>
              Sig!FoldPresence(presence, sClock) = Sig!Nowhere("absent")
         /\ Sig!Sent(Sig!PresenceKinds) = {} =>
              owner = None /\ Sig!FoldPresence(presence, sClock) = Sig!Nowhere("unknown")
<1>1. CASE Sig!Sent(Sig!PresenceKinds) = {}
  <2>1. presence = {} /\ owner = None
    BY <1>1 DEF Sig!SignalsInv, Sig!PresenceInv, Sig!OwnerInv
  <2> QED BY <1>1, <2>1 DEF Sig!FoldPresence
<1>2. CASE Sig!Sent(Sig!PresenceKinds) # {}
  <2>1. PICK m \in sent : Sig!Newest(m)
    BY <1>2 DEF Sig!SignalsInv, Sig!OwnerInv
  <2>2. \/ m.kind = "depart" /\ owner = None
        \/ m.kind # "depart" /\ owner = m.site /\ m.site \in Sites
    BY <2>1 DEF Sig!SignalsInv, Sig!OwnerInv
  <2>3. PICK e : e = CHOOSE x \in presence : Sig!Latest(presence, x)
    OBVIOUS
  <2>4. presence # {} /\ e.kind = m.kind /\ e.site = m.site /\ e.at = m.at
    BY <2>1, <2>3, FoldIsLedByNewest
  <2>5. Sig!FoldPresence(presence, sClock) =
          CASE e.kind = "depart"                          -> Sig!Nowhere("absent")
            [] e.kind # "depart" /\ Sig!Recency(e, sClock) = 0 -> Sig!Nowhere("stale")
            [] OTHER -> [status |-> "present", site |-> e.site]
    BY <2>3, <2>4 DEF Sig!FoldPresence
  <2>6. /\ m.at \in Nat /\ sClock \in Nat /\ Window \in Nat
        /\ \A n \in Sig!Sent(Sig!PresenceKinds) : n.at \in Nat /\ n.at <= m.at
        /\ m \in Sig!Sent(Sig!PresenceKinds)
    BY <2>1 DEF Sig!SignalsInv, Sig!SentInv, Sig!Newest, Sig!Sent, Sig!SignalsAssumption
  <2>7. Sig!Heard <=> sClock - m.at < Window
    BY <2>6 DEF Sig!Heard
  <2>8. e.kind # "depart" => (Sig!Recency(e, sClock) = 0 <=> ~Sig!Heard)
    BY <2>4, <2>6, <2>7 DEF Sig!Recency
  <2>9. CASE m.kind = "depart"
    BY <1>2, <2>2, <2>4, <2>5, <2>9
  <2>10. CASE m.kind # "depart"
    <3>1. owner = e.site /\ owner # None /\ e.kind # "depart"
      BY <2>2, <2>4, <2>10 DEF Sig!SignalsAssumption
    <3>2. CASE Sig!Heard
      BY <1>2, <2>5, <2>8, <3>1, <3>2
    <3>3. CASE ~Sig!Heard
      BY <1>2, <2>5, <2>8, <3>1, <3>3
    <3> QED BY <3>2, <3>3
  <2> QED BY <2>9, <2>10
<1> QED BY <1>1, <1>2

LEMMA CurrentOnceArrived ==
  ASSUME Sig!SignalsAssumption, Sig!SignalsInv
  PROVE  Sig!ArrivedMeansCurrent
<1> SUFFICES ASSUME \A m \in Sig!Sent(Sig!PresenceKinds) : Sig!Recorded(presence, m)
             PROVE  /\ Sig!FoldPresence(presence, sClock) =
                         CASE owner # None /\ Sig!Heard -> [status |-> "present", site |-> owner]
                           [] owner # None /\ ~Sig!Heard -> Sig!Nowhere("stale")
                           [] owner = None /\ Sig!Sent(Sig!PresenceKinds) # {} -> Sig!Nowhere("absent")
                           [] OTHER -> Sig!Nowhere("unknown")
                    /\ \A named \in Sites \cup {None} :
                         Sig!SweptSite(presence, named, sClock) \in {None, owner}
  BY DEF Sig!ArrivedMeansCurrent
<1>1. CASE owner # None /\ Sig!Heard
  BY <1>1, PresenceIsCurrent DEF Sig!SweptSite
<1>2. CASE owner # None /\ ~Sig!Heard
  BY <1>2, PresenceIsCurrent DEF Sig!SweptSite, Sig!Nowhere
<1>3. CASE owner = None /\ Sig!Sent(Sig!PresenceKinds) # {}
  BY <1>3, PresenceIsCurrent DEF Sig!SweptSite, Sig!Nowhere
<1>4. CASE owner = None /\ Sig!Sent(Sig!PresenceKinds) = {}
  BY <1>4, PresenceIsCurrent DEF Sig!SweptSite, Sig!Nowhere
<1> QED BY <1>1, <1>2, <1>3, <1>4

(* Presence (bin_presence.py, fold_presence): in whatever order and        *)
(* however often the device's events arrive, once all have, the program    *)
(* has the owner where the owner is, or says it no longer knows; and       *)
(* bin_sweep.py sweeps no other site.                                      *)
THEOREM PresenceConverges == Sig!Spec => []ArrivedMeansCurrent
<1>1. Sig!SignalsInv /\ [Sig!Next]_(Sig!vars) => Sig!SignalsInv'
  BY StepKeepsSignals, SignalsAreGiven
<1>2. Sig!Init => Sig!SignalsInv
  BY InitSignals
<1>3. Sig!SignalsInv => Sig!ArrivedMeansCurrent
  BY CurrentOnceArrived, SignalsAreGiven
<1> QED BY <1>1, <1>2, <1>3, PTL DEF Sig!Spec, ArrivedMeansCurrent

(* When first copies arrived in order, the newest event of an order that   *)
(* has arrived is its last row.                                            *)
LEMMA LastRowIsNewest ==
  ASSUME Sig!SignalsInv, NEW o \in Orders, Sig!ArrivedInOrder(o),
         NEW m \in sent, Sig!NewestArrived(o, m)
  PROVE  \E e \in Sig!OfOrder(orders, o) :
           /\ e.kind = m.kind /\ e.site = m.site
           /\ \A f \in Sig!OfOrder(orders, o) : f.seq <= e.seq /\ (e.seq <= f.seq => f = e)
<1>1. PICK e \in orders : e.id = m.id
  BY DEF Sig!NewestArrived, Sig!Recorded
<1>2. \A f \in orders :
        /\ f.seq \in Int
        /\ \E n \in sent : f.id = n.id /\ f.kind = n.kind /\ f.about = n.about
                           /\ f.site = n.site /\ f.at = n.at
        /\ \A g \in orders : g.id = f.id \/ g.seq = f.seq => g = f
  BY DEF Sig!SignalsInv, Sig!OrderInv
<1>3. e.kind = m.kind /\ e.about = o /\ e.site = m.site /\ e.at = m.at
  BY <1>1, <1>2, IdsAreEvents DEF Sig!SignalsInv, Sig!NewestArrived
<1>4. \A f \in orders : Sig!FirstCopy(orders, f)
  BY <1>2 DEF Sig!FirstCopy
<1>5. ASSUME NEW f \in Sig!OfOrder(orders, o)
      PROVE  f.seq <= e.seq /\ (e.seq <= f.seq => f = e)
  <2>1. f \in orders /\ f.about = o
    BY DEF Sig!OfOrder
  <2>2. PICK n \in sent : f.id = n.id /\ f.about = n.about /\ f.at = n.at
    BY <1>2, <2>1
  <2>3. n.at <= m.at /\ n.at \in Nat /\ m.at \in Nat
    BY <2>1, <2>2 DEF Sig!NewestArrived, Sig!Recorded, Sig!SignalsInv, Sig!SentInv
  <2>4. CASE n.at = m.at
    BY <1>1, <1>2, <2>1, <2>2, <2>4 DEF Sig!SignalsInv, Sig!SentInv
  <2>5. CASE n.at < m.at
    <3>1. f.seq < e.seq
      BY <1>1, <1>3, <1>4, <2>1, <2>2, <2>5 DEF Sig!ArrivedInOrder, Sig!OfOrder
    <3> QED BY <1>1, <1>2, <2>1, <3>1
  <2> QED BY <2>3, <2>4, <2>5
<1> QED BY <1>1, <1>3, <1>5 DEF Sig!OfOrder

LEMMA FoldIsOfLastRow ==
  ASSUME NEW o \in Orders, NEW e \in Sig!OfOrder(orders, o),
         \A f \in Sig!OfOrder(orders, o) : f.seq <= e.seq /\ (e.seq <= f.seq => f = e)
  PROVE  /\ Sig!FoldOrder(orders, o).active <=> e.kind = "create"
         /\ e.kind = "create" => Sig!FoldOrder(orders, o).site = e.site
<1> DEFINE own == Sig!OfOrder(orders, o)
<1>1. Sig!LastOf(own) = e
  BY DEF Sig!LastOf
<1>2. ASSUME e.kind = "create"
      PROVE  Sig!Creates(own) # {} /\ Sig!LastOf(Sig!Creates(own)) = e
  <2>1. e \in Sig!Creates(own) /\ Sig!Creates(own) \subseteq own
    BY <1>2 DEF Sig!Creates
  <2> HIDE DEF own
  <2>2. (CHOOSE x \in Sig!Creates(own) : \A f \in Sig!Creates(own) : f.seq <= x.seq) = e
    BY <2>1 DEF own
  <2> QED BY <2>1, <2>2 DEF Sig!LastOf
<1>3. Sig!FoldOrder(orders, o) =
        [active |-> Sig!LastOf(own).kind = "create",
         site   |-> IF Sig!Creates(own) = {} THEN None ELSE Sig!LastOf(Sig!Creates(own)).site]
  BY DEF Sig!FoldOrder
<1> HIDE DEF own
<1>4. Sig!FoldOrder(orders, o).active = (e.kind = "create")
  BY <1>1, <1>3
<1>5. e.kind = "create" => Sig!FoldOrder(orders, o).site = e.site
  BY <1>2, <1>3
<1> QED BY <1>4, <1>5

LEMMA OrdersFollow ==
  ASSUME Sig!SignalsInv
  PROVE  Sig!OrdersFollowTheOwner
<1> SUFFICES ASSUME NEW o \in Orders, Sig!ArrivedInOrder(o)
             PROVE  /\ \A m \in sent, s \in Sites : Sig!NewestArrived(o, m) =>
                         (o \in Sig!RestingAt(orders, s) <=> m.kind = "create" /\ m.site = s)
                    /\ (\A m \in sent : m.about = o => Sig!Recorded(orders, m)) =>
                         (Sig!FoldOrder(orders, o).active <=> asked[o] = "create")
  BY DEF Sig!OrdersFollowTheOwner
<1>1. ASSUME NEW m \in sent, Sig!NewestArrived(o, m)
      PROVE  /\ Sig!FoldOrder(orders, o).active <=> m.kind = "create"
             /\ m.kind = "create" => Sig!FoldOrder(orders, o).site = m.site
  BY <1>1, LastRowIsNewest, FoldIsOfLastRow
<1>2. \A m \in sent, s \in Sites : Sig!NewestArrived(o, m) =>
        (o \in Sig!RestingAt(orders, s) <=> m.kind = "create" /\ m.site = s)
  BY <1>1 DEF Sig!RestingAt
<1>3. ASSUME \A m \in sent : m.about = o => Sig!Recorded(orders, m)
      PROVE  Sig!FoldOrder(orders, o).active <=> asked[o] = "create"
  <2>1. CASE asked[o] = "none"
    <3>1. Sig!OfOrder(orders, o) = {}
      BY <2>1 DEF Sig!SignalsInv, Sig!AskedInv, Sig!OrderInv, Sig!OfOrder
    <3>2. Sig!FoldOrder(orders, o) = [active |-> FALSE, site |-> None]
      BY <3>1 DEF Sig!FoldOrder
    <3> QED BY <2>1, <3>2
  <2>2. CASE asked[o] # "none"
    <3>1. PICK m \in sent : /\ m.about = o /\ m.kind = asked[o]
                           /\ \A n \in sent : n.about = o => n.at <= m.at
      BY <2>2 DEF Sig!SignalsInv, Sig!AskedInv
    <3>2. Sig!NewestArrived(o, m)
      BY <1>3, <3>1 DEF Sig!NewestArrived
    <3> QED BY <1>1, <3>1, <3>2
  <2> QED BY <2>1, <2>2
<1> QED BY <1>2, <1>3

(* Standing orders (bin_orders.py, fold_orders): the newest event of an    *)
(* order that has arrived counts, whatever second copies come after it,    *)
(* when the first copies came in order; and once all have arrived, the     *)
(* order is active just when the owner last asked for it.                  *)
THEOREM OrdersAreFollowed == Sig!Spec => []OrdersFollowTheOwner
<1>1. Sig!SignalsInv /\ [Sig!Next]_(Sig!vars) => Sig!SignalsInv'
  BY StepKeepsSignals, SignalsAreGiven
<1>2. Sig!Init => Sig!SignalsInv
  BY InitSignals
<1>3. Sig!SignalsInv => Sig!OrdersFollowTheOwner
  BY OrdersFollow
<1> QED BY <1>1, <1>2, <1>3, PTL DEF Sig!Spec, OrdersFollowTheOwner
===============================================================================
