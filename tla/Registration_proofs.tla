------------------------- MODULE Registration_proofs -------------------------
(***************************************************************************)
(* Registration for every set of sites, request ids, sessions and          *)
(* requests: the code _next_code returns is new, and every variable keeps  *)
(* its type.  Then the inductive invariant IInv, and from it that a        *)
(* registration and its placement are one fact, that codes identify quick  *)
(* labels, that a label is printed once and after the commit, and that     *)
(* answers are true.                                                       *)
(***************************************************************************)
EXTENDS Registration, FiniteSetTheorems, WellFoundedInduction, TLAPS

(* A non-empty finite set of numbers has a largest one.                    *)
LEMMA FiniteSetHasMax ==
  ASSUME NEW S, IsFiniteSet(S), S \subseteq Nat, S # {}
  PROVE  Max(S) \in S /\ \A y \in S : Max(S) >= y
<1> DEFINE NoMax == {X \in SUBSET S : X # {} /\ ~ \E x \in X : \A y \in X : x >= y}
<1>1. ASSUME NoMax # {} PROVE FALSE
  <2>1. NoMax \subseteq FiniteSubsetsOf(S)
    BY FS_Subset DEF FiniteSubsetsOf
  <2>2. PICK X \in NoMax : \A Y \in NoMax : <<Y, X>> \notin StrictSubsetOrdering(S)
    <3> HIDE DEF NoMax
    <3> QED
      BY <1>1, <2>1, FS_StrictSubsetOrderingWellFounded, WFMin
  <2>3. PICK x \in X : TRUE
    OBVIOUS
  <2> DEFINE Y == X \ {x}
  <2>4. <<Y, X>> \in StrictSubsetOrdering(S)
    BY <2>3 DEF StrictSubsetOrdering
  <2>5. Y \notin NoMax
    BY <2>2, <2>4
  <2>6. CASE Y = {}
    BY <2>3, <2>6
  <2>7. CASE Y # {}
    <3>1. PICK m \in Y : \A y \in Y : m >= y
      BY <2>5, <2>7
    <3>2. x \in Nat /\ m \in Nat /\ X \subseteq Nat
      OBVIOUS
    <3>3. CASE m >= x
      BY <3>1, <3>2, <3>3
    <3>4. CASE ~(m >= x)
      <4>1. \A y \in X : x >= y
        BY <3>1, <3>2, <3>4
      <4> QED BY <4>1, <2>3
    <3> QED BY <3>3, <3>4
  <2> QED BY <2>6, <2>7
<1>2. \E x \in S : \A y \in S : x >= y
  BY <1>1
<1> QED BY <1>2 DEF Max
(* _next_code returns a code of its prefix that is not among the known.    *)
LEMMA NextCodeIsNew ==
  ASSUME NEW site \in Sites, NEW known \in SUBSET Codes, IsFiniteSet(known)
  PROVE  /\ NextCode(site, known) \in Codes \ known
         /\ NextCode(site, known)[1] = site
<1> DEFINE ofSite  == {k \in known : k[1] = site}
           numbers == {c[2] : c \in ofSite}
           all     == {0} \cup numbers
<1>1. numbers \subseteq Nat /\ all \subseteq Nat /\ all # {}
  BY DEF Codes
<1>2. IsFiniteSet(all)
  <2>1. IsFiniteSet(ofSite)
    BY FS_Subset
  <2> DEFINE second == [c \in ofSite |-> c[2]]
  <2>2. second \in Surjection(ofSite, numbers)
    BY DEF Surjection
  <2>3. IsFiniteSet(numbers)
    <3> HIDE DEF second, ofSite, numbers
    <3> QED BY <2>1, <2>2, FS_Surjection
  <2>4. all = numbers \cup {0}
    OBVIOUS
  <2> HIDE DEF numbers, all
  <2> QED BY <2>3, <2>4, FS_AddElement
<1>3. Max(all) \in Nat /\ \A n \in all : Max(all) >= n
  <2> HIDE DEF all
  <2> QED BY <1>1, <1>2, FiniteSetHasMax
<1>4. 1 + Max(all) \in Nat \ {0} /\ 1 + Max(all) \notin all
  <2> HIDE DEF all
  <2> QED BY <1>3
<1>5. NextCode(site, known) = <<site, 1 + Max(all)>>
  BY DEF NextCode
<1>6. <<site, 1 + Max(all)>> \notin known
  <2>1. ASSUME NEW c \in known, c[1] = site PROVE c[2] \in all
    BY <2>1
  <2> HIDE DEF all
  <2> QED BY <1>4, <2>1
<1> QED BY <1>4, <1>5, <1>6 DEF Codes

-------------------------------------------------------------------------------
(* What a step of session s leaves alone.                                  *)
OthersKeep(s) ==
  \A t \in Sessions \ {s} :
    pc'[t] = pc[t] /\ req'[t] = req[t] /\ code'[t] = code[t] /\ when'[t] = when[t]

LEMMA RequestFacts ==
  /\ NoRequest \notin RequestType
  /\ \A r \in RequestType : r.op \in {"register", "quick"} /\ r.site \in Sites
  /\ \A r \in RequestType : r.op = "register" => r.code \in Codes /\ r.print \in BOOLEAN
  /\ \A r \in RequestType : r.op = "quick" => r.action \in Actions /\ r.details \in Details
  /\ NoRequest.op = "none"
  /\ Requests \subseteq RequestType
BY RegistrationAssumption DEF RequestType, NoRequest

LEMMA CodeFacts ==
  /\ None \notin Sites \cup Actions \cup Details \cup Sessions
  /\ \A c \in Codes : c[1] \in Sites
BY RegistrationAssumption DEF Codes

(* The request of a session that is making a registration, and its key.    *)
LEMMA RegisteringFacts ==
  ASSUME TypeInv, NEW s \in Sessions, pc[s] \in Registering
  PROVE  /\ req[s] \in RequestType /\ req[s].site \in Sites
         /\ code[s] \in Codes /\ KeyIn(s) \in Keys /\ KeyIn(s) # None
         /\ ActionOf(req[s]) \in Actions \cup {None}
         /\ DetailsOf(req[s]) \in Details \cup {None}
<1>1. /\ req[s] \in RequestType /\ req[s].site \in Sites
      /\ code[s] \in Codes /\ when[s] \in Nat
  BY RequestFacts DEF TypeInv, TypeOK, Registers
<1>2. KeyIn(s) \in Keys /\ KeyIn(s) # None
  BY <1>1, RegistrationAssumption DEF KeyIn, KeyOf, Keys
<1>3. /\ ActionOf(req[s]) \in Actions \cup {None}
      /\ DetailsOf(req[s]) \in Details \cup {None}
  BY <1>1, RequestFacts DEF ActionOf, DetailsOf
<1> QED BY <1>1, <1>2, <1>3

LEMMA OthersRegisters ==
  ASSUME TypeInv, NEW s \in Sessions, OthersKeep(s), Registers(s)'
  PROVE  \A t \in Sessions : Registers(t)'
BY DEF TypeInv, OthersKeep, Registers

LEMMA ReturnTypes ==
  ASSUME TypeInv, NEW s \in Sessions, NEW answer \in Resting, Return(s, answer)
  PROVE  /\ pc' \in [Sessions -> Resting \cup InTransaction \cup {"print"}]
         /\ req' \in [Sessions -> RequestType \cup {NoRequest}]
         /\ code' \in [Sessions -> Codes \cup {None}]
         /\ when' \in [Sessions -> Nat]
         /\ pc'[s] = answer /\ req'[s] = NoRequest
         /\ OthersKeep(s)
         /\ \A t \in Sessions : Registers(t)'
<1>1. /\ pc' \in [Sessions -> Resting \cup InTransaction \cup {"print"}]
      /\ req' \in [Sessions -> RequestType \cup {NoRequest}]
      /\ code' \in [Sessions -> Codes \cup {None}]
      /\ when' \in [Sessions -> Nat]
      /\ pc'[s] = answer /\ req'[s] = NoRequest
  BY DEF TypeInv, TypeOK, Return, Goto
<1>2. OthersKeep(s)
  BY DEF TypeInv, TypeOK, Return, Goto, OthersKeep
<1>3. Registers(s)'
  BY <1>1 DEF Registers, Resting, Registering
<1> QED BY <1>1, <1>2, <1>3, OthersRegisters

LEMMA ReleaseType ==
  ASSUME TypeInv, NEW s \in Sessions, ReleaseLocks(s)
  PROVE  lock' \in [Locks -> Sessions \cup {None}]
BY DEF TypeInv, TypeOK, ReleaseLocks

LEMMA TakeType ==
  ASSUME TypeInv, NEW s \in Sessions, NEW l \in Locks, Take(s, l)
  PROVE  lock' \in [Locks -> Sessions \cup {None}]
BY DEF TypeInv, TypeOK, Take

(* A step that only moves on, and perhaps takes a lock.                    *)
LEMMA GotoKeepsTypeInv ==
  ASSUME TypeInv, NEW s \in Sessions, NEW label, Goto(s, label),
         label \in InTransaction,
         UNCHANGED <<tables, day, locals, told, jobs, crashes>>,
         lock' \in [Locks -> Sessions \cup {None}],
         label \in {"claim", "lookup", "prefix", "assign"} => req[s].op = "quick",
         label \in Registering => pc[s] \in Registering
  PROVE  TypeInv' /\ OthersKeep(s) /\ pc'[s] = label
<1>1. TypeOK' /\ OthersKeep(s) /\ pc'[s] = label
  BY DEF TypeInv, TypeOK, Goto, tables, locals, OthersKeep
<1>2. FiniteTables'
  BY DEF TypeInv, FiniteTables, tables
<1>3. Registers(s)'
  BY <1>1 DEF TypeInv, Registers, locals
<1> QED BY <1>1, <1>2, <1>3, OthersRegisters DEF TypeInv

LEMMA EndReadOnlyKeepsTypeInv ==
  ASSUME TypeInv, NEW s \in Sessions, NEW answer \in Resting,
         EndReadOnly(s, answer),
         told' \subseteq [req : RequestType, code : Codes]
  PROVE  TypeInv'
<1>1. TypeOK'
  BY ReturnTypes, ReleaseType DEF TypeInv, TypeOK, EndReadOnly, tables
<1>2. FiniteTables'
  BY DEF TypeInv, FiniteTables, EndReadOnly, tables
<1> QED BY <1>1, <1>2, ReturnTypes DEF TypeInv, EndReadOnly

LEMMA RollbackKeepsTypeInv ==
  ASSUME TypeInv, NEW s \in Sessions, NEW answer \in Resting,
         Rollback(s, answer), UNCHANGED <<day, told, jobs>>, crashes' \in Nat
  PROVE  TypeInv'
<1>1. TypeOK'
  BY ReturnTypes, ReleaseType DEF TypeInv, TypeOK, Rollback
<1>2. FiniteTables'
  <2>1. captures' \subseteq captures /\ places' \subseteq places
    BY DEF Rollback
  <2> QED BY <2>1, FS_Subset DEF TypeInv, FiniteTables
<1> QED BY <1>1, <1>2, ReturnTypes DEF TypeInv, Rollback

LEMMA FailKeepsTypeInv ==
  ASSUME TypeInv, NEW s \in Sessions, NEW answer \in Resting, Fail(s, answer)
  PROVE  TypeInv'
BY RollbackKeepsTypeInv DEF Fail, TypeInv, TypeOK
-------------------------------------------------------------------------------
(* One lemma per action: it keeps TypeInv.                                 *)
LEMMA BeginKeepsTypeInv ==
  ASSUME TypeInv, NEW s \in Sessions, NEW r \in Requests, Begin(s, r)
  PROVE  TypeInv' /\ OthersKeep(s) /\ req'[s] = r /\ pc'[s] \in {"select", "claim"}
<1>1. r \in RequestType
  BY RequestFacts
<1>2. pc' \in [Sessions -> Resting \cup InTransaction \cup {"print"}]
  BY DEF TypeInv, TypeOK, Begin, Goto, InTransaction
<1>3. code' \in [Sessions -> Codes \cup {None}] /\ when' \in [Sessions -> Nat]
  BY <1>1, RequestFacts DEF TypeInv, TypeOK, Begin
<1>4. TypeOK'
  BY <1>1, <1>2, <1>3 DEF TypeInv, TypeOK, Begin, tables
<1>5. OthersKeep(s) /\ req'[s] = r /\ pc'[s] \in {"select", "claim"}
  BY DEF TypeInv, TypeOK, Begin, Goto, OthersKeep
<1>6. Registers(s)'
  <2>1. CASE r.op = "register"
    BY <1>1, <2>1, RequestFacts DEF TypeInv, TypeOK, Begin, Goto, Registers
  <2>2. CASE r.op = "quick"
    BY <1>1, <2>2, RequestFacts
       DEF TypeInv, TypeOK, Begin, Goto, Registers, Registering
  <2> QED BY <1>1, <2>1, <2>2, RequestFacts
<1>7. FiniteTables'
  BY DEF TypeInv, FiniteTables, Begin, tables
<1> QED BY <1>4, <1>5, <1>6, <1>7, OthersRegisters DEF TypeInv

LEMMA ClaimKeepsTypeInv ==
  ASSUME TypeInv, NEW s \in Sessions, ClaimAction(s)
  PROVE  TypeInv' /\ OthersKeep(s) /\ pc'[s] = "lookup"
<1>1. req[s].op = "quick" /\ req[s] \in RequestType
  BY RequestFacts DEF TypeInv, TypeOK, Registers, ClaimAction
<1>2. <<"quick-label", req[s].action>> \in Locks
  BY <1>1, RequestFacts DEF Locks
<1> QED
  BY <1>1, <1>2, TakeType, GotoKeepsTypeInv
     DEF ClaimAction, InTransaction, Registering

LEMMA LookUpKeepsTypeInv ==
  ASSUME TypeInv, NEW s \in Sessions, LookUpAction(s)
  PROVE  TypeInv'
<1>1. req[s].op = "quick" /\ req[s] \in RequestType
  BY RequestFacts DEF TypeInv, TypeOK, Registers, LookUpAction
<1> DEFINE old == OfAction(Visible(captures, s), req[s].action)
<1>2. CASE /\ Goto(s, "prefix")
           /\ UNCHANGED <<tables, day, lock, locals, told, jobs, crashes>>
  BY <1>1, <1>2, GotoKeepsTypeInv DEF InTransaction, Registering, TypeInv, TypeOK
<1>3. ASSUME NEW e \in old, Tell(s, e.code), EndReadOnly(s, "existed")
      PROVE  TypeInv'
  <2>1. e.code \in Codes
    BY DEF TypeInv, TypeOK, CaptureRows, OfAction, Visible
  <2>2. told' \subseteq [req : RequestType, code : Codes]
    BY <1>1, <1>3, <2>1 DEF TypeInv, TypeOK, Tell
  <2> QED BY <1>3, <2>2, EndReadOnlyKeepsTypeInv DEF Resting
<1>4. CASE Fail(s, "refused")
  BY <1>4, FailKeepsTypeInv DEF Resting
<1> QED BY <1>2, <1>3, <1>4 DEF LookUpAction

LEMMA LockPrefixKeepsTypeInv ==
  ASSUME TypeInv, NEW s \in Sessions, LockPrefix(s)
  PROVE  TypeInv' /\ OthersKeep(s) /\ pc'[s] = "assign"
<1>1. req[s].op = "quick" /\ req[s] \in RequestType
  BY RequestFacts DEF TypeInv, TypeOK, Registers, LockPrefix
<1>2. <<"bin-code", req[s].site>> \in Locks
  BY <1>1, RequestFacts DEF Locks
<1> QED
  BY <1>1, <1>2, TakeType, GotoKeepsTypeInv
     DEF LockPrefix, InTransaction, Registering

LEMMA KnownCodesAreFinite ==
  ASSUME TypeInv, NEW s
  PROVE  KnownCodes(s) \in SUBSET Codes /\ IsFiniteSet(KnownCodes(s))
<1> DEFINE rows == Visible(captures, s) \cup Visible(places, s)
           codeIn == [e \in rows |-> e.code]
<1>1. KnownCodes(s) \in SUBSET Codes
  BY DEF KnownCodes, Visible, TypeInv, TypeOK, CaptureRows, PlaceRows
<1>2. IsFiniteSet(rows)
  <2>1. IsFiniteSet(Visible(captures, s)) /\ IsFiniteSet(Visible(places, s))
    BY FS_Subset DEF TypeInv, FiniteTables, Visible
  <2> QED BY <2>1, FS_Union
<1>3. codeIn \in Surjection(rows, KnownCodes(s))
  BY DEF Surjection, KnownCodes
<1>4. IsFiniteSet(KnownCodes(s))
  <2> HIDE DEF codeIn, rows
  <2> QED BY <1>2, <1>3, FS_Surjection
<1> QED BY <1>1, <1>4

LEMMA AssignKeepsTypeInv ==
  ASSUME TypeInv, NEW s \in Sessions, AssignCode(s)
  PROVE  /\ TypeInv'
         /\ \/ /\ OthersKeep(s) /\ pc'[s] = "select" /\ req'[s] = req[s]
               /\ UNCHANGED <<tables, day, lock, told, jobs>>
               /\ code'[s] \notin KnownCodes(s) /\ code'[s][1] = req[s].site
            \/ Fail(s, "refused")
<1>1. req[s].op = "quick" /\ req[s] \in RequestType /\ req[s].site \in Sites
  BY RequestFacts DEF TypeInv, TypeOK, Registers, AssignCode
<1>0. SUFFICES ASSUME ~Fail(s, "refused") PROVE
        /\ TypeInv' /\ OthersKeep(s) /\ pc'[s] = "select" /\ req'[s] = req[s]
        /\ UNCHANGED <<tables, day, lock, told, jobs>>
        /\ code'[s] \notin KnownCodes(s) /\ code'[s][1] = req[s].site
  BY FailKeepsTypeInv DEF Resting
<1> DEFINE next == NextCode(req[s].site, KnownCodes(s))
<1>2. next \in Codes \ KnownCodes(s) /\ next[1] = req[s].site
  BY <1>1, KnownCodesAreFinite, NextCodeIsNew
<1> HIDE DEF next
<1>3. /\ pc'[s] = "select" /\ req'[s] = req[s] /\ code'[s] = next
      /\ OthersKeep(s) /\ UNCHANGED <<tables, day, lock, told, jobs>>
  BY <1>0 DEF TypeInv, TypeOK, AssignCode, Goto, OthersKeep, next
<1>4. TypeOK'
  <2>1. code' \in [Sessions -> Codes \cup {None}]
    BY <1>0, <1>2 DEF TypeInv, TypeOK, AssignCode, next
  <2> QED
    BY <1>0, <2>1 DEF TypeInv, TypeOK, AssignCode, Goto, tables, InTransaction
<1>5. Registers(s)'
  BY <1>1, <1>2, <1>3, RequestFacts DEF Registers
<1>6. FiniteTables'
  BY <1>0 DEF TypeInv, FiniteTables, AssignCode, tables
<1> QED BY <1>2, <1>3, <1>4, <1>5, <1>6, OthersRegisters DEF TypeInv
LEMMA SelectKeepsTypeInv ==
  ASSUME TypeInv, NEW s \in Sessions, SelectCapture(s)
  PROVE  TypeInv'
<1>1. pc[s] \in Registering
  BY DEF SelectCapture, Registering
<1>2. CASE Goto(s, "insert") /\ UNCHANGED <<tables, day, lock, locals, told, jobs, crashes>>
  BY <1>1, <1>2, GotoKeepsTypeInv DEF InTransaction, Registering, TypeInv, TypeOK
<1>3. CASE Tell(s, code[s]) /\ EndReadOnly(s, "existed")
  <2>1. told' \subseteq [req : RequestType, code : Codes]
    BY <1>1, <1>3, RegisteringFacts DEF TypeInv, TypeOK, Tell
  <2> QED BY <1>3, <2>1, EndReadOnlyKeepsTypeInv DEF Resting
<1>4. CASE Fail(s, "refused")
  BY <1>4, FailKeepsTypeInv DEF Resting
<1> QED BY <1>2, <1>3, <1>4 DEF SelectCapture

(* The row InsertCapture adds.                                             *)
NewCapture(s) ==
  [key |-> KeyIn(s), code |-> code[s], site |-> req[s].site,
   action |-> ActionOf(req[s]), details |-> DetailsOf(req[s]), by |-> s]

LEMMA InsertKeepsTypeInv ==
  ASSUME TypeInv, NEW s \in Sessions, InsertCapture(s)
  PROVE  TypeInv'
<1>1. pc[s] \in Registering
  BY DEF InsertCapture, Registering
<1>2. CASE /\ captures' = captures \cup {NewCapture(s)}
           /\ Goto(s, "ledger")
           /\ UNCHANGED <<places, placeSeq, day, lock, locals, told, jobs, crashes>>
  <2>1. NewCapture(s) \in CaptureRows
    BY <1>1, RegisteringFacts DEF NewCapture, CaptureRows
  <2>2. TypeOK' /\ OthersKeep(s) /\ pc'[s] = "ledger"
    BY <1>2, <2>1
       DEF TypeInv, TypeOK, Goto, locals, OthersKeep, InTransaction
  <2>3. FiniteTables'
    BY <1>2, FS_AddElement DEF TypeInv, FiniteTables
  <2>4. Registers(s)'
    BY <1>1, <1>2, <2>2 DEF TypeInv, Registers, locals, Registering
  <2> QED BY <2>2, <2>3, <2>4, OthersRegisters DEF TypeInv
<1>3. CASE Fail(s, "failed")
  BY <1>3, FailKeepsTypeInv DEF Resting
<1> QED BY <1>2, <1>3 DEF InsertCapture, NewCapture

LEMMA LockLedgerKeepsTypeInv ==
  ASSUME TypeInv, NEW s \in Sessions, LockLedger(s)
  PROVE  TypeInv' /\ OthersKeep(s) /\ pc'[s] = "place"
BY TakeType, GotoKeepsTypeInv
   DEF LockLedger, LedgerLock, Locks, InTransaction, Registering

(* The row PlaceBin adds.                                                  *)
NewPlace(s) ==
  [seq |-> placeSeq, key |-> KeyIn(s), code |-> code[s], site |-> req[s].site,
   by |-> s]

LEMMA PlaceKeepsTypeInv ==
  ASSUME TypeInv, NEW s \in Sessions, PlaceBin(s)
  PROVE  TypeInv'
<1>1. pc[s] \in Registering
  BY DEF PlaceBin, Registering
<1>2. CASE /\ places' = places \cup {NewPlace(s)}
           /\ placeSeq' = placeSeq + 1
           /\ Goto(s, "commit")
           /\ UNCHANGED <<captures, day, lock, locals, told, jobs, crashes>>
  <2>1. NewPlace(s) \in PlaceRows
    BY <1>1, RegisteringFacts DEF NewPlace, PlaceRows, TypeInv, TypeOK
  <2>2. TypeOK' /\ OthersKeep(s) /\ pc'[s] = "commit"
    BY <1>2, <2>1
       DEF TypeInv, TypeOK, Goto, locals, OthersKeep, InTransaction
  <2>3. FiniteTables'
    BY <1>2, FS_AddElement DEF TypeInv, FiniteTables
  <2>4. Registers(s)'
    BY <1>1, <1>2, <2>2 DEF TypeInv, Registers, locals, Registering
  <2> QED BY <2>2, <2>3, <2>4, OthersRegisters DEF TypeInv
<1>3. CASE Fail(s, "refused")
  BY <1>3, FailKeepsTypeInv DEF Resting
<1> QED BY <1>2, <1>3 DEF PlaceBin, NewPlace

(* A row once its transaction, if it is the one of s, has committed.       *)
Settled(e, s) == [e EXCEPT !.by = IF @ = s THEN None ELSE @]

LEMMA SettleFacts ==
  ASSUME NEW table, NEW s, IsFiniteSet(table)
  PROVE  IsFiniteSet(Settle(table, s))
<1> DEFINE settle == [e \in table |-> Settled(e, s)]
<1>1. settle \in Surjection(table, Settle(table, s))
  BY DEF Surjection, Settle, Settled
<1> HIDE DEF settle
<1> QED BY <1>1, FS_Surjection

LEMMA CommitKeepsTypeInv ==
  ASSUME TypeInv, NEW s \in Sessions, Commit(s)
  PROVE  TypeInv' /\ OthersKeep(s)
<1>1. pc[s] \in Registering
  BY DEF Commit, Registering
<1>2. captures' \subseteq CaptureRows /\ places' \subseteq PlaceRows
  BY DEF Commit, Settle, TypeInv, TypeOK, CaptureRows, PlaceRows
<1>3. FiniteTables'
  BY SettleFacts DEF TypeInv, FiniteTables, Commit
<1>4. lock' \in [Locks -> Sessions \cup {None}]
  BY ReleaseType DEF Commit
<1>5. CASE Goto(s, "print") /\ UNCHANGED <<locals, told>>
  <2>1. TypeOK' /\ OthersKeep(s) /\ pc'[s] = "print"
    BY <1>2, <1>4, <1>5 DEF TypeInv, TypeOK, Commit, Goto, locals, OthersKeep
  <2>2. Registers(s)'
    BY <1>1, <1>5, <2>1 DEF TypeInv, Registers, locals, Registering
  <2> QED BY <1>3, <2>1, <2>2, OthersRegisters DEF TypeInv
<1>6. CASE Tell(s, code[s]) /\ Return(s, "registered")
  <2>1. told' \subseteq [req : RequestType, code : Codes]
    BY <1>1, <1>6, RegisteringFacts DEF TypeInv, TypeOK, Tell
  <2>2. TypeOK'
    BY <1>2, <1>4, <1>6, <2>1, ReturnTypes DEF TypeInv, TypeOK, Commit, Resting
  <2> QED BY <1>3, <1>6, <2>2, ReturnTypes DEF TypeInv, Resting
<1> QED BY <1>5, <1>6 DEF Commit

LEMMA JobType ==
  ASSUME TypeInv, NEW s \in Sessions, pc[s] \in Registering
  PROVE  /\ jobs \cup {Job(s)}
              \subseteq [n : Nat, key : Keys, code : Codes, req : RequestType]
         /\ IsFiniteSet(jobs \cup {Job(s)})
<1>1. Cardinality(jobs) \in Nat
  BY FS_CardinalityType DEF TypeInv, FiniteTables
<1>2. Job(s) \in [n : Nat, key : Keys, code : Codes, req : RequestType]
  BY <1>1, RegisteringFacts DEF Job
<1> QED BY <1>2, FS_AddElement DEF TypeInv, TypeOK, FiniteTables

LEMMA PrintKeepsTypeInv ==
  ASSUME TypeInv, NEW s \in Sessions, PrintLabel(s)
  PROVE  TypeInv'
<1>1. pc[s] \in Registering
  BY DEF PrintLabel, Registering
<1>2. told' \subseteq [req : RequestType, code : Codes]
  BY <1>1, RegisteringFacts DEF TypeInv, TypeOK, Tell, PrintLabel
<1>3. PICK answer \in {"printed", "unprinted"} : Return(s, answer)
  BY DEF PrintLabel
<1>4. answer \in Resting /\ jobs' \in {jobs, jobs \cup {Job(s)}}
  BY DEF Resting, PrintLabel
<1>5. TypeOK'
  BY <1>1, <1>2, <1>3, <1>4, ReturnTypes, JobType DEF TypeInv, TypeOK, PrintLabel, tables
<1>6. FiniteTables'
  BY <1>1, <1>4, JobType DEF TypeInv, FiniteTables, PrintLabel, tables
<1> QED BY <1>3, <1>4, <1>5, <1>6, ReturnTypes DEF TypeInv

LEMMA CrashKeepsTypeInv ==
  ASSUME TypeInv, NEW s \in Sessions, Crash(s)
  PROVE  TypeInv'
<1>1. crashes' \in Nat
  BY RegistrationAssumption DEF Crash, TypeInv, TypeOK
<1>2. CASE pc[s] \in InTransaction /\ Rollback(s, "failed") /\ UNCHANGED jobs
  BY <1>1, <1>2, RollbackKeepsTypeInv DEF Crash, Resting
<1>3. CASE /\ pc[s] = "print"
           /\ jobs' \in {jobs, jobs \cup {Job(s)}}
           /\ Return(s, "failed")
           /\ UNCHANGED <<tables, lock>>
  <2>1. pc[s] \in Registering /\ "failed" \in Resting
    BY <1>3 DEF Registering, Resting
  <2>2. TypeOK'
    BY <1>1, <1>3, <2>1, ReturnTypes, JobType DEF TypeInv, TypeOK, Crash, tables
  <2>3. FiniteTables'
    BY <1>3, <2>1, JobType DEF TypeInv, FiniteTables, tables
  <2> QED BY <1>3, <2>1, <2>2, <2>3, ReturnTypes DEF TypeInv
<1> QED BY <1>2, <1>3 DEF Crash

LEMMA MoveKeepsTypeInv ==
  ASSUME TypeInv, NEW c \in Moved, NEW site \in Sites, Move(c, site)
  PROVE  TypeInv'
<1>1. TypeOK'
  BY RegistrationAssumption
     DEF TypeInv, TypeOK, Move, PlaceRows, locals
<1>2. FiniteTables'
  BY FS_AddElement DEF TypeInv, FiniteTables, Move
<1> QED BY <1>1, <1>2 DEF TypeInv, Move, Registers, locals

LEMMA MidnightKeepsTypeInv ==
  ASSUME TypeInv, Midnight
  PROVE  TypeInv'
<1>1. TypeOK'
  BY DEF TypeInv, TypeOK, Midnight, tables, locals
<1>2. FiniteTables'
  BY DEF TypeInv, FiniteTables, Midnight, tables
<1> QED BY <1>1, <1>2 DEF TypeInv, Midnight, Registers, locals

LEMMA StutterKeepsTypeInv ==
  ASSUME TypeInv, UNCHANGED vars
  PROVE  TypeInv'
BY DEF TypeInv, TypeOK, FiniteTables, Registers, vars
LEMMA InitTypeInv == Init => TypeInv
<1> SUFFICES ASSUME Init PROVE TypeInv
  OBVIOUS
<1> DEFINE capture == [c \in Earlier |-> EarlierCapture(c)]
           placed  == [c \in Earlier |-> EarlierPlace(c)]
<1>1. TypeOK
  <2>1. \A c \in Earlier : KeyOf(c, c[1], 0) \in Keys /\ c \in Codes /\ c[1] \in Sites
    BY RegistrationAssumption, CodeFacts DEF KeyOf, Keys
  <2> QED
    BY <2>1 DEF Init, TypeOK, CaptureRows, PlaceRows, EarlierCapture, EarlierPlace,
                Resting
<1>2. FiniteTables
  <2>1. /\ capture \in Surjection(Earlier, captures)
        /\ placed \in Surjection(Earlier, places)
    BY DEF Surjection, Init
  <2>2. IsFiniteSet(captures) /\ IsFiniteSet(places)
    <3> HIDE DEF capture, placed
    <3> QED BY <2>1, FS_Surjection, RegistrationAssumption
  <2> QED BY <2>2, FS_EmptySet DEF Init, FiniteTables
<1>3. \A s \in Sessions : Registers(s)
  BY DEF Init, Registers, Registering
<1> QED BY <1>1, <1>2, <1>3 DEF TypeInv

(* Every variable keeps its type, the tables and the printer's queue stay  *)
(* finite, and each statement finds its registers set.                     *)
LEMMA StepKeepsTypeInv == TypeInv /\ [Next]_vars => TypeInv'
<1> SUFFICES ASSUME TypeInv, [Next]_vars PROVE TypeInv'
  OBVIOUS
<1>1. ASSUME NEW s \in Sessions, NEW r \in Requests, Begin(s, r) PROVE TypeInv'
  BY <1>1, BeginKeepsTypeInv
<1>2. ASSUME NEW s \in Sessions, Step(s) PROVE TypeInv'
  BY <1>2, ClaimKeepsTypeInv, LookUpKeepsTypeInv, LockPrefixKeepsTypeInv,
     AssignKeepsTypeInv, SelectKeepsTypeInv, InsertKeepsTypeInv,
     LockLedgerKeepsTypeInv, PlaceKeepsTypeInv, CommitKeepsTypeInv,
     PrintKeepsTypeInv DEF Step
<1>3. ASSUME NEW s \in Sessions, Crash(s) PROVE TypeInv'
  BY <1>3, CrashKeepsTypeInv
<1>4. ASSUME NEW c \in Moved, NEW site \in Sites, Move(c, site) PROVE TypeInv'
  BY <1>4, MoveKeepsTypeInv
<1>5. CASE Midnight
  BY <1>5, MidnightKeepsTypeInv
<1>6. CASE UNCHANGED vars
  BY <1>6, StutterKeepsTypeInv
<1> QED BY <1>1, <1>2, <1>3, <1>4, <1>5, <1>6 DEF Next, Rest

(* In every behaviour the variables of Registration have their types.      *)
THEOREM RegistrationTypeCorrect == Spec => []TypeOK
<1>1. TypeInv => TypeOK
  BY DEF TypeInv
<1> QED BY <1>1, InitTypeInv, StepKeepsTypeInv, PTL DEF Spec

-------------------------------------------------------------------------------
(* A quick label says so in the capture it writes.                         *)
LEMMA ActionFacts ==
  /\ \A r \in RequestType : ActionOf(r) # None <=> r.op = "quick"
  /\ \A r \in RequestType : r.op = "quick" =>
       ActionOf(r) = r.action /\ DetailsOf(r) = r.details
BY RequestFacts, CodeFacts DEF ActionOf, DetailsOf

LEMMA OthersKeys ==
  ASSUME NEW s \in Sessions, OthersKeep(s), NEW t \in Sessions \ {s}
  PROVE  /\ KeyIn(t)' = KeyIn(t)
         /\ \A e : IsOwn(e, t)' <=> IsOwn(e, t)
<1>1. KeyIn(t)' = KeyIn(t)
  BY DEF OthersKeep, KeyIn
<1> QED BY <1>1 DEF OthersKeep, IsOwn

-------------------------------------------------------------------------------
(* What a step of session s does to the invariant of the others, by part.  *)
LocksOfOthersKept(s) ==
  \A l \in Locks : \A t \in Sessions \ {s} : lock[l] = t => lock'[l] = t

LEMMA TakeKeepsLocks ==
  ASSUME TypeInv, NEW s \in Sessions, NEW l \in Locks, Take(s, l)
  PROVE  LocksOfOthersKept(s) /\ lock'[l] = s /\ \A k \in Locks : lock[k] = s => lock'[k] = s
BY CodeFacts DEF TypeInv, TypeOK, Take, LocksOfOthersKept

LEMMA ReleaseKeepsLocks ==
  ASSUME NEW s \in Sessions, ReleaseLocks(s)
  PROVE  LocksOfOthersKept(s)
BY DEF ReleaseLocks, LocksOfOthersKept

LEMMA QuickLocks ==
  ASSUME TypeInv, NEW s \in Sessions, req[s].op = "quick"
  PROVE  /\ req[s] \in RequestType /\ req[s].action \in Actions /\ req[s].site \in Sites
         /\ <<"quick-label", req[s].action>> \in Locks
         /\ <<"bin-code", req[s].site>> \in Locks
<1>1. req[s] \in RequestType
  BY RequestFacts DEF TypeInv, TypeOK
<1> QED BY <1>1, RequestFacts DEF Locks

LEMMA OthersHoldLocks ==
  ASSUME TypeInv, SessionInv, NEW s \in Sessions, OthersKeep(s), LocksOfOthersKept(s)
  PROVE  \A t \in Sessions \ {s} : HoldsLocks(t)'
<1> SUFFICES ASSUME NEW t \in Sessions \ {s}, req[t].op = "quick" PROVE HoldsLocks(t)'
  BY DEF OthersKeep, HoldsLocks
<1> QED BY QuickLocks DEF SessionInv, OthersKeep, HoldsLocks, LocksOfOthersKept

(* The rows of the other open transactions are as they were.               *)
RowsOfOthersKept(s) ==
  \A t \in Sessions \ {s} :
    /\ \A e : e \in captures' /\ e.by = t <=> e \in captures /\ e.by = t
    /\ \A e : e \in places' /\ e.by = t <=> e \in places /\ e.by = t

LEMMA OthersOpenRows ==
  ASSUME SessionInv, NEW s \in Sessions, OthersKeep(s), RowsOfOthersKept(s)
  PROVE  \A t \in Sessions \ {s} : OpenRows(t)'
<1> SUFFICES ASSUME NEW t \in Sessions \ {s} PROVE OpenRows(t)'
  OBVIOUS
<1>1. pc'[t] = pc[t] /\ OpenRows(t)
  BY DEF OthersKeep, SessionInv
<1>2. /\ \A e \in captures' : e.by = t => pc[t] \in Writing /\ IsOwn(e, t)
      /\ \A e \in places' : e.by = t => pc[t] = "commit" /\ e.key = KeyIn(t)
      /\ pc[t] \in Writing => \E e \in captures' : e.by = t
      /\ pc[t] = "commit" => \E e \in places' : e.by = t
  BY <1>1 DEF OpenRows, RowsOfOthersKept
<1> QED BY <1>1, <1>2, OthersKeys DEF OpenRows

(* Every row says of its quick label what a row said before.               *)
NothingNew ==
  \A e \in captures' : \E f \in captures : f.action = e.action /\ f.code = e.code

LEMMA OthersStillNew ==
  ASSUME SessionInv, NEW s \in Sessions, OthersKeep(s), NothingNew
  PROVE  \A t \in Sessions \ {s} : StillNew(t)'
<1> SUFFICES ASSUME NEW t \in Sessions \ {s} PROVE StillNew(t)'
  OBVIOUS
<1>1. StillNew(t)
  BY DEF SessionInv
<1> QED BY <1>1 DEF OthersKeep, NothingNew, StillNew, OfAction

CommittedKept == Committed(captures) \subseteq Committed(captures')

LEMMA OthersMayPrint ==
  ASSUME SessionInv, NEW s \in Sessions, OthersKeep(s), CommittedKept,
         \/ jobs' = jobs
         \/ pc[s] = "print" /\ jobs' = jobs \cup {Job(s)},
         pc'[s] = "print" => \A t \in Sessions \ {s} :
                               pc[t] = "print" => KeyIn(t) # KeyIn(s)'
  PROVE  \A t \in Sessions \ {s} : MayPrint(t)'
<1> SUFFICES ASSUME NEW t \in Sessions \ {s}, pc[t] = "print" PROVE MayPrint(t)'
  BY DEF OthersKeep, MayPrint
<1>1. MayPrint(t) /\ MayPrint(s) /\ KeyIn(t)' = KeyIn(t)
  BY OthersKeys DEF SessionInv
<1>2. \E e \in Committed(captures') : IsOwn(e, t)'
  BY <1>1, OthersKeys DEF MayPrint, CommittedKept
<1>3. \A j \in jobs' : j.key # KeyIn(t)
  BY <1>1 DEF MayPrint, Job
<1>4. \A other \in Sessions \ {t} : pc'[other] = "print" => KeyIn(other)' # KeyIn(t)
  <2> SUFFICES ASSUME NEW other \in Sessions \ {t}, pc'[other] = "print"
               PROVE  KeyIn(other)' # KeyIn(t)
    OBVIOUS
  <2>1. CASE other = s
    BY <2>1
  <2>2. CASE other # s
    BY <1>1, <2>2, OthersKeys DEF OthersKeep, MayPrint
  <2> QED BY <2>1, <2>2
<1>5. (Committed(captures))' = Committed(captures')
  BY DEF Committed
<1> QED BY <1>1, <1>2, <1>3, <1>4, <1>5 DEF MayPrint
-------------------------------------------------------------------------------
(* The part of the invariant that is about the tables and the answers.     *)
TablesInv ==
  CaptureInv /\ JobInv /\ RegisteredIsPlaced /\ AnswersMatchRequests

(* Nobody's open transaction comes or goes, nothing is committed.          *)
LEMMA TablesKept ==
  ASSUME TablesInv, captures' \subseteq captures,
         Committed(captures') = Committed(captures),
         Committed(places') = Committed(places),
         jobs' = jobs, told' = told
  PROVE  TablesInv'
<1>1. /\ (Committed(captures))' = Committed(captures)
      /\ (Committed(places))' = Committed(places)
  BY DEF Committed
<1> QED
  BY <1>1 DEF TablesInv, CaptureInv, JobInv, RegisteredIsPlaced, AnswersMatchRequests

LEMMA IInvParts ==
  IInv <=> TypeInv /\ SessionInv /\ TablesInv
BY DEF IInv, TablesInv

(* Only sessions in a transaction that writes have rows of their own.      *)
LEMMA NoRows ==
  ASSUME SessionInv, NEW s \in Sessions, pc[s] \notin Writing
  PROVE  /\ \A e \in captures : e.by # s
         /\ \A e \in places : e.by # s
BY DEF SessionInv, OpenRows, Writing

(* A call that has returned owes nothing.                                  *)
LEMMA ReturnedSession ==
  ASSUME TypeInv, NEW s \in Sessions, NEW answer \in Resting, Return(s, answer),
         \A e \in captures' : e.by # s, \A e \in places' : e.by # s
  PROVE  HoldsLocks(s)' /\ OpenRows(s)' /\ StillNew(s)' /\ MayPrint(s)'
<1>1. req'[s] = NoRequest /\ pc'[s] \in Resting
  BY ReturnTypes
<1> QED BY <1>1, RequestFacts DEF HoldsLocks, OpenRows, StillNew, MayPrint, Resting, Writing

LEMMA RollbackKeepsIInv ==
  ASSUME IInv, NEW s \in Sessions, NEW answer \in Resting, Rollback(s, answer),
         UNCHANGED <<jobs, told>>, TypeInv'
  PROVE  IInv'
<1> USE IInvParts
<1>1. OthersKeep(s) /\ LocksOfOthersKept(s)
  BY ReturnTypes, ReleaseKeepsLocks DEF Rollback
<1>2. RowsOfOthersKept(s)
  BY DEF Rollback, RowsOfOthersKept
<1>3. NothingNew /\ captures' \subseteq captures
  BY DEF Rollback, NothingNew
<1>4. Committed(captures') = Committed(captures) /\ Committed(places') = Committed(places)
  BY CodeFacts DEF Rollback, Committed
<1>5. pc'[s] # "print"
  BY ReturnTypes DEF Rollback, Resting
<1>6. \A t \in Sessions \ {s} :
        HoldsLocks(t)' /\ OpenRows(t)' /\ StillNew(t)' /\ MayPrint(t)'
  BY <1>1, <1>2, <1>3, <1>4, <1>5, OthersHoldLocks, OthersOpenRows, OthersStillNew,
     OthersMayPrint DEF CommittedKept
<1>7. HoldsLocks(s)' /\ OpenRows(s)' /\ StillNew(s)' /\ MayPrint(s)'
  BY ReturnedSession DEF Rollback
<1>8. TablesInv'
  BY <1>3, <1>4, TablesKept
<1>9. SessionInv'
  BY <1>6, <1>7 DEF SessionInv
<1> QED BY <1>8, <1>9 DEF IInv, TablesInv

LEMMA FailKeepsIInv ==
  ASSUME IInv, NEW s \in Sessions, NEW answer \in Resting, Fail(s, answer)
  PROVE  IInv'
BY RollbackKeepsIInv, FailKeepsTypeInv DEF Fail, IInv

LEMMA EndReadOnlyKeepsIInv ==
  ASSUME IInv, NEW s \in Sessions, NEW answer \in Resting, EndReadOnly(s, answer),
         pc[s] \notin Writing, AnswersMatchRequests', TypeInv'
  PROVE  IInv'
<1> USE IInvParts
<1>1. OthersKeep(s) /\ LocksOfOthersKept(s)
  BY ReturnTypes, ReleaseKeepsLocks DEF EndReadOnly
<1>2. UNCHANGED <<captures, places, jobs>>
  BY DEF EndReadOnly, tables
<1>3. RowsOfOthersKept(s) /\ NothingNew /\ CommittedKept
  BY <1>2 DEF RowsOfOthersKept, NothingNew, CommittedKept
<1>4. pc'[s] # "print"
  BY ReturnTypes DEF EndReadOnly, Resting
<1>5. \A t \in Sessions \ {s} :
        HoldsLocks(t)' /\ OpenRows(t)' /\ StillNew(t)' /\ MayPrint(t)'
  BY <1>1, <1>2, <1>3, <1>4, OthersHoldLocks, OthersOpenRows, OthersStillNew,
     OthersMayPrint
<1>6. HoldsLocks(s)' /\ OpenRows(s)' /\ StillNew(s)' /\ MayPrint(s)'
  BY <1>2, NoRows, ReturnedSession DEF EndReadOnly
<1>7. TablesInv'
  BY <1>2 DEF TablesInv, CaptureInv, JobInv, RegisteredIsPlaced, Committed
<1>8. SessionInv'
  BY <1>5, <1>6 DEF SessionInv
<1> QED BY <1>7, <1>8 DEF IInv, TablesInv

(* A step that reads, or takes a lock, and goes on.                        *)
LEMMA QuietStepKeepsIInv ==
  ASSUME IInv, NEW s \in Sessions, OthersKeep(s), LocksOfOthersKept(s),
         UNCHANGED <<captures, places, jobs, told>>,
         HoldsLocks(s)', StillNew(s)',
         \/ pc[s] \notin Writing /\ pc'[s] \notin Writing \cup {"print"}
         \/ /\ pc[s] \in {"ledger", "place"} /\ pc'[s] \in {"ledger", "place"}
            /\ req'[s] = req[s] /\ code'[s] = code[s] /\ when'[s] = when[s],
         TypeInv'
  PROVE  IInv'
<1> USE IInvParts
<1>1. RowsOfOthersKept(s) /\ NothingNew /\ CommittedKept
  BY DEF RowsOfOthersKept, NothingNew, CommittedKept
<1>2. pc'[s] # "print"
  OBVIOUS
<1>3. \A t \in Sessions \ {s} :
        HoldsLocks(t)' /\ OpenRows(t)' /\ StillNew(t)' /\ MayPrint(t)'
  BY <1>1, <1>2, OthersHoldLocks, OthersOpenRows, OthersStillNew, OthersMayPrint
<1>4. OpenRows(s)'
  <2>1. CASE pc[s] \notin Writing /\ pc'[s] \notin Writing \cup {"print"}
    BY <2>1, NoRows DEF OpenRows, Writing
  <2>2. CASE /\ pc[s] \in {"ledger", "place"} /\ pc'[s] \in {"ledger", "place"}
             /\ req'[s] = req[s] /\ code'[s] = code[s] /\ when'[s] = when[s]
    <3>1. OpenRows(s)
      BY DEF SessionInv
    <3> QED BY <2>2, <3>1 DEF OpenRows, Writing, IsOwn, KeyIn
  <2> QED BY <2>1, <2>2
<1>5. MayPrint(s)'
  BY <1>2 DEF MayPrint
<1>6. TablesInv'
  BY TablesKept
<1>7. SessionInv'
  BY <1>3, <1>4, <1>5 DEF SessionInv
<1> QED BY <1>6, <1>7 DEF IInv, TablesInv
(* An uncommitted capture of a quick label is covered by two locks.        *)
LEMMA OpenQuickRows ==
  ASSUME TypeInv, SessionInv, NEW e \in captures, e.by # None, e.action # None
  PROVE  /\ e.by \in Sessions
         /\ lock[<<"quick-label", e.action>>] = e.by
         /\ lock[<<"bin-code", e.code[1]>>] = e.by
<1>1. e.by \in Sessions
  BY DEF TypeInv, TypeOK, CaptureRows
<1>2. pc[e.by] \in Writing /\ IsOwn(e, e.by)
  BY <1>1 DEF SessionInv, OpenRows
<1>3. req[e.by] \in RequestType
  BY <1>1, <1>2, RegisteringFacts DEF Writing, Registering
<1>4. req[e.by].op = "quick" /\ e.action = req[e.by].action
  BY <1>2, <1>3, ActionFacts DEF IsOwn
<1>5. e.code[1] = req[e.by].site
  BY <1>1, <1>2, <1>4 DEF SessionInv, StillNew, Writing, Registering, IsOwn
<1>6. HoldsLocks(e.by)
  BY <1>1 DEF SessionInv
<1> QED BY <1>1, <1>2, <1>4, <1>5, <1>6 DEF HoldsLocks, Writing, InTransaction

-------------------------------------------------------------------------------
(* One lemma per action: it keeps IInv.                                    *)
LEMMA BeginKeepsIInv ==
  ASSUME IInv, NEW s \in Sessions, NEW r \in Requests, Begin(s, r)
  PROVE  IInv'
<1>1. TypeInv' /\ OthersKeep(s) /\ req'[s] = r
  BY BeginKeepsTypeInv DEF IInv
<1>2. r.op = "quick" => pc'[s] = "claim"
  BY DEF Begin, Goto, IInv, TypeInv, TypeOK
<1>3. HoldsLocks(s)' /\ StillNew(s)'
  BY <1>1, <1>2 DEF HoldsLocks, StillNew, InTransaction, Registering
<1>4. UNCHANGED <<captures, places, jobs, told>> /\ LocksOfOthersKept(s)
  BY DEF Begin, tables, LocksOfOthersKept
<1>5. pc[s] \notin Writing /\ pc'[s] \notin Writing \cup {"print"}
  BY BeginKeepsTypeInv DEF Begin, Resting, Writing, IInv
<1> QED BY <1>1, <1>3, <1>4, <1>5, QuietStepKeepsIInv

LEMMA ClaimKeepsIInv ==
  ASSUME IInv, NEW s \in Sessions, ClaimAction(s)
  PROVE  IInv'
<1>1. TypeInv' /\ OthersKeep(s) /\ pc'[s] = "lookup"
  BY ClaimKeepsTypeInv DEF IInv
<1>2. req[s].op = "quick"
  BY DEF IInv, TypeInv, Registers, ClaimAction
<1>3. LocksOfOthersKept(s) /\ lock'[<<"quick-label", req[s].action>>] = s
  BY <1>2, QuickLocks, TakeKeepsLocks DEF ClaimAction, IInv
<1>4. HoldsLocks(s)' /\ StillNew(s)'
  BY <1>1, <1>3 DEF HoldsLocks, StillNew, InTransaction, Registering, ClaimAction, locals
<1>5. UNCHANGED <<captures, places, jobs, told>>
  BY DEF ClaimAction, tables
<1>6. pc[s] \notin Writing /\ pc'[s] \notin Writing \cup {"print"}
  BY <1>1 DEF ClaimAction, Writing
<1> QED BY <1>1, <1>3, <1>4, <1>5, <1>6, QuietStepKeepsIInv

LEMMA LookUpKeepsIInv ==
  ASSUME IInv, NEW s \in Sessions, LookUpAction(s)
  PROVE  IInv'
<1> DEFINE old == OfAction(Visible(captures, s), req[s].action)
<1>1. /\ TypeInv /\ TypeInv' /\ SessionInv /\ pc[s] = "lookup"
      /\ req[s].op = "quick" /\ req[s] \in RequestType /\ req[s].action # None
      /\ HoldsLocks(s)
  BY LookUpKeepsTypeInv, RequestFacts, CodeFacts
     DEF IInv, TypeInv, TypeOK, Registers, LookUpAction, SessionInv
<1>2. pc[s] \notin Writing
  BY <1>1 DEF Writing
<1>3. CASE /\ old = {}
           /\ Goto(s, "prefix")
           /\ UNCHANGED <<tables, day, lock, locals, told, jobs, crashes>>
  <2>1. OfAction(captures, req[s].action) = {}
    <3> SUFFICES ASSUME NEW e \in captures, e.action = req[s].action PROVE FALSE
      BY DEF OfAction
    <3>1. e.by \notin {None, s}
      BY <1>3 DEF OfAction, Visible
    <3>2. lock[<<"quick-label", req[s].action>>] = e.by
      BY <1>1, <3>1, OpenQuickRows
    <3>3. lock[<<"quick-label", req[s].action>>] = s
      BY <1>1 DEF HoldsLocks, InTransaction
    <3> QED BY <3>1, <3>2, <3>3
  <2>2. OthersKeep(s) /\ pc'[s] = "prefix" /\ req'[s] = req[s] /\ lock' = lock
    BY <1>1, <1>3 DEF Goto, locals, OthersKeep, TypeInv, TypeOK
  <2>3. UNCHANGED <<captures, places, jobs, told>> /\ LocksOfOthersKept(s)
    BY <1>3 DEF tables, LocksOfOthersKept
  <2>4. HoldsLocks(s)' /\ StillNew(s)'
    BY <1>1, <2>1, <2>2, <2>3
       DEF HoldsLocks, StillNew, InTransaction, Registering, OfAction
  <2>5. pc'[s] \notin Writing \cup {"print"}
    BY <2>2 DEF Writing
  <2> QED BY <1>1, <1>2, <2>2, <2>3, <2>4, <2>5, QuietStepKeepsIInv
<1>4. ASSUME NEW e \in old, SameRequest(e, req[s]), Tell(s, e.code),
             EndReadOnly(s, "existed")
      PROVE  IInv'
  <2>1. e \in Committed(captures) /\ e.action = req[s].action
    BY <1>1, <1>2, NoRows DEF OfAction, Visible, Committed
  <2>2. e.site = req[s].site /\ e.details = req[s].details
    BY <1>4 DEF SameRequest
  <2>3. captures' = captures /\ told' = told \cup {[req |-> req[s], code |-> e.code]}
    BY <1>4 DEF EndReadOnly, tables, Tell
  <2>4. AnswersMatchRequests'
    BY <2>1, <2>2, <2>3 DEF AnswersMatchRequests, IInv, Committed
  <2> QED BY <1>1, <1>2, <1>4, <2>4, EndReadOnlyKeepsIInv DEF Resting
<1>5. CASE Fail(s, "refused")
  BY <1>5, FailKeepsIInv DEF Resting
<1> QED BY <1>3, <1>4, <1>5 DEF LookUpAction

LEMMA LockPrefixKeepsIInv ==
  ASSUME IInv, NEW s \in Sessions, LockPrefix(s)
  PROVE  IInv'
<1>1. TypeInv' /\ OthersKeep(s) /\ pc'[s] = "assign"
  BY LockPrefixKeepsTypeInv DEF IInv
<1>2. req[s].op = "quick" /\ HoldsLocks(s) /\ StillNew(s) /\ pc[s] = "prefix"
  BY DEF IInv, TypeInv, Registers, LockPrefix, SessionInv
<1>3. /\ LocksOfOthersKept(s) /\ lock'[<<"bin-code", req[s].site>>] = s
      /\ lock'[<<"quick-label", req[s].action>>] = s
  BY <1>2, QuickLocks, TakeKeepsLocks DEF LockPrefix, IInv, HoldsLocks, InTransaction
<1>4. HoldsLocks(s)' /\ StillNew(s)'
  BY <1>1, <1>2, <1>3
     DEF HoldsLocks, StillNew, InTransaction, Registering, LockPrefix, locals, tables
<1>5. UNCHANGED <<captures, places, jobs, told>>
  BY DEF LockPrefix, tables
<1>6. pc[s] \notin Writing /\ pc'[s] \notin Writing \cup {"print"}
  BY <1>1, <1>2 DEF Writing
<1> QED BY <1>1, <1>3, <1>4, <1>5, <1>6, QuietStepKeepsIInv

LEMMA AssignKeepsIInv ==
  ASSUME IInv, NEW s \in Sessions, AssignCode(s)
  PROVE  IInv'
<1>1. CASE Fail(s, "refused")
  BY <1>1, FailKeepsIInv DEF Resting
<1>2. CASE ~Fail(s, "refused")
  <2>1. /\ TypeInv' /\ OthersKeep(s) /\ pc'[s] = "select" /\ req'[s] = req[s]
        /\ UNCHANGED <<captures, places, lock, told, jobs>>
        /\ code'[s] \notin KnownCodes(s) /\ code'[s][1] = req[s].site
    BY <1>2, AssignKeepsTypeInv DEF IInv, tables
  <2>2. req[s].op = "quick" /\ HoldsLocks(s) /\ StillNew(s) /\ pc[s] = "assign"
    BY DEF IInv, TypeInv, Registers, AssignCode, SessionInv
  <2>3. ASSUME NEW e \in captures, e.action # None PROVE e.code # code'[s]
    <3>1. CASE e.by \in {None, s}
      BY <2>1, <3>1 DEF KnownCodes, Visible
    <3>2. CASE e.by \notin {None, s}
      <4>1. lock[<<"bin-code", e.code[1]>>] = e.by
        BY <2>3, <3>2, OpenQuickRows DEF IInv
      <4>2. lock[<<"bin-code", req[s].site>>] = s
        BY <2>2 DEF HoldsLocks, InTransaction
      <4> QED BY <2>1, <3>2, <4>1, <4>2
    <3> QED BY <3>1, <3>2
  <2>4. HoldsLocks(s)' /\ StillNew(s)'
    BY <2>1, <2>2, <2>3 DEF HoldsLocks, StillNew, InTransaction
  <2>5. pc[s] \notin Writing /\ pc'[s] \notin Writing \cup {"print"}
    BY <2>1, <2>2 DEF Writing
  <2>6. LocksOfOthersKept(s)
    BY <2>1 DEF LocksOfOthersKept
  <2> QED BY <2>1, <2>4, <2>5, <2>6, QuietStepKeepsIInv
<1> QED BY <1>1, <1>2
LEMMA SelectKeepsIInv ==
  ASSUME IInv, NEW s \in Sessions, SelectCapture(s)
  PROVE  IInv'
<1>1. /\ TypeInv /\ TypeInv' /\ pc[s] = "select" /\ pc[s] \notin Writing
      /\ HoldsLocks(s) /\ StillNew(s)
  BY SelectKeepsTypeInv DEF IInv, SelectCapture, Writing, SessionInv
<1>2. CASE Goto(s, "insert") /\ UNCHANGED <<tables, day, lock, locals, told, jobs, crashes>>
  <2>1. OthersKeep(s) /\ pc'[s] = "insert"
    BY <1>1, <1>2 DEF Goto, locals, OthersKeep, TypeInv, TypeOK
  <2>2. UNCHANGED <<captures, places, jobs, told>> /\ LocksOfOthersKept(s)
    BY <1>2 DEF tables, LocksOfOthersKept
  <2>3. HoldsLocks(s)' /\ StillNew(s)'
    BY <1>1, <1>2, <2>1, <2>2
       DEF HoldsLocks, StillNew, InTransaction, Registering, locals
  <2>4. pc'[s] \notin Writing \cup {"print"}
    BY <2>1 DEF Writing
  <2> QED BY <1>1, <2>1, <2>2, <2>3, <2>4, QuietStepKeepsIInv
<1>3. CASE req[s].op = "register" /\ Tell(s, code[s]) /\ EndReadOnly(s, "existed")
  <2>1. captures' = captures /\ told' = told \cup {[req |-> req[s], code |-> code[s]]}
    BY <1>3 DEF EndReadOnly, tables, Tell
  <2>2. AnswersMatchRequests'
    BY <1>3, <2>1 DEF AnswersMatchRequests, IInv, Committed
  <2> QED BY <1>1, <1>3, <2>2, EndReadOnlyKeepsIInv DEF Resting
<1>4. CASE Fail(s, "refused")
  BY <1>4, FailKeepsIInv DEF Resting
<1> QED BY <1>2, <1>3, <1>4 DEF SelectCapture

LEMMA InsertKeepsIInv ==
  ASSUME IInv, NEW s \in Sessions, InsertCapture(s)
  PROVE  IInv'
<1> DEFINE new == NewCapture(s)
<1>1. CASE Fail(s, "failed")
  BY <1>1, FailKeepsIInv DEF Resting
<1>2. CASE /\ RowsOf(captures, KeyIn(s)) = {}
           /\ captures' = captures \cup {NewCapture(s)}
           /\ Goto(s, "ledger")
           /\ UNCHANGED <<places, placeSeq, day, lock, locals, told, jobs, crashes>>
  <2>1. /\ TypeInv /\ TypeInv' /\ SessionInv /\ pc[s] = "insert" /\ pc[s] \notin Writing
        /\ HoldsLocks(s) /\ StillNew(s) /\ req[s] \in RequestType
        /\ UNCHANGED <<places, lock, req, code, when, told, jobs>>
    BY <1>2, InsertKeepsTypeInv, RegisteringFacts
       DEF IInv, InsertCapture, Writing, SessionInv, Registering, locals
  <2>2. OthersKeep(s) /\ pc'[s] = "ledger" /\ LocksOfOthersKept(s)
    BY <1>2, <2>1 DEF Goto, OthersKeep, TypeInv, TypeOK, LocksOfOthersKept
  <2>3. /\ new.key = KeyIn(s) /\ new.code = code[s] /\ new.site = req[s].site
        /\ new.action = ActionOf(req[s]) /\ new.details = DetailsOf(req[s])
        /\ new.by = s /\ IsOwn(new, s)
    BY DEF NewCapture, IsOwn
  <2>4. new.action # None => req[s].op = "quick" /\ new.action = req[s].action
    BY <2>1, <2>3, ActionFacts
  <2>5. (Committed(captures))' = Committed(captures)
    BY <1>2, <2>3, CodeFacts DEF Committed
  <2> HIDE DEF new
  <2>6. CaptureInv'
    <3>1. \A e \in captures : e.key # new.key
      BY <1>2, <2>3 DEF RowsOf
    <3>2. \A e \in captures : new.action # None => e.action # new.action
      BY <2>1, <2>4 DEF StillNew, OfAction
    <3>3. \A e \in captures : e.action # None /\ new.action # None => e.code # new.code
      BY <2>1, <2>3, <2>4 DEF StillNew
    <3>4. new.action # None => new.code[1] = new.site
      BY <2>1, <2>3, <2>4 DEF StillNew, Registering
    <3>5. \A e \in captures' : e \in captures \/ e = new
      BY <1>2 DEF new
    <3> QED BY <3>1, <3>2, <3>3, <3>4, <3>5 DEF CaptureInv, IInv
  <2>7. \A t \in Sessions \ {s} : StillNew(t)'
    <3> SUFFICES ASSUME NEW t \in Sessions \ {s}, req[t].op = "quick" PROVE StillNew(t)'
      BY <2>1, <2>2 DEF OthersKeep, StillNew
    <3>1. StillNew(t) /\ HoldsLocks(t) /\ pc'[t] = pc[t] /\ code'[t] = code[t]
      BY <2>1, <2>2 DEF SessionInv, OthersKeep
    <3>2. pc[t] \in {"prefix", "assign", "select", "insert"} =>
            OfAction(captures', req[t].action) = {}
      <4> SUFFICES ASSUME pc[t] \in {"prefix", "assign", "select", "insert"},
                          new.action = req[t].action
                   PROVE  FALSE
        BY <1>2, <3>1 DEF StillNew, OfAction, new
      <4>1. req[t].action # None
        BY <2>1, QuickLocks, CodeFacts
      <4>2. lock[<<"quick-label", req[t].action>>] = t
        BY <3>1 DEF HoldsLocks, InTransaction
      <4>3. lock[<<"quick-label", new.action>>] = s
        BY <2>1, <2>4, <4>1 DEF HoldsLocks, InTransaction
      <4> QED BY <4>2, <4>3
    <3>3. pc[t] \in {"select", "insert"} =>
            \A e \in captures' : e.action # None => e.code # code[t]
      <4> SUFFICES ASSUME pc[t] \in {"select", "insert"}, new.action # None,
                          new.code = code[t]
                   PROVE  FALSE
        BY <1>2, <3>1 DEF StillNew, new
      <4>1. code[t][1] = req[t].site /\ code[s][1] = req[s].site
        BY <2>1, <2>4, <3>1 DEF StillNew, Registering
      <4>2. lock[<<"bin-code", req[t].site>>] = t
        BY <3>1 DEF HoldsLocks, InTransaction
      <4>3. lock[<<"bin-code", req[s].site>>] = s
        BY <2>1, <2>4 DEF HoldsLocks, InTransaction
      <4> QED BY <2>3, <4>1, <4>2, <4>3
    <3>4. (OfAction(captures, req[t].action))' = OfAction(captures', req[t].action)
      BY <2>1 DEF OfAction
    <3> QED BY <2>1, <3>1, <3>2, <3>3, <3>4 DEF StillNew
  <2>8. RowsOfOthersKept(s) /\ CommittedKept
    BY <1>2, <2>1, <2>3, <2>5 DEF RowsOfOthersKept, CommittedKept, Committed, new
  <2>9. \A t \in Sessions \ {s} : HoldsLocks(t)' /\ OpenRows(t)' /\ MayPrint(t)'
    BY <2>1, <2>2, <2>8, OthersHoldLocks, OthersOpenRows, OthersMayPrint
  <2>10. HoldsLocks(s)' /\ StillNew(s)' /\ MayPrint(s)'
    BY <2>1, <2>2
       DEF HoldsLocks, StillNew, MayPrint, InTransaction, Registering
  <2>11. OpenRows(s)'
    <3>1. KeyIn(s)' = KeyIn(s) /\ \A e : IsOwn(e, s)' <=> IsOwn(e, s)
      BY <2>1 DEF KeyIn, IsOwn
    <3>2. \A e \in captures' : e.by = s => e = new
      BY <1>2, <2>1, NoRows DEF new
    <3>3. \A e \in places' : e.by # s
      BY <2>1, NoRows
    <3>4. new \in captures'
      BY <1>2 DEF new
    <3> QED BY <2>2, <2>3, <3>1, <3>2, <3>3, <3>4 DEF OpenRows, Writing
  <2>12. JobInv' /\ RegisteredIsPlaced' /\ AnswersMatchRequests'
    <3>1. (Committed(places))' = Committed(places)
      BY <2>1 DEF Committed
    <3> QED
      BY <2>1, <2>5, <3>1 DEF JobInv, RegisteredIsPlaced, AnswersMatchRequests, IInv
  <2> QED BY <2>1, <2>6, <2>7, <2>9, <2>10, <2>11, <2>12 DEF IInv, SessionInv
<1> QED BY <1>1, <1>2 DEF InsertCapture, NewCapture

LEMMA LockLedgerKeepsIInv ==
  ASSUME IInv, NEW s \in Sessions, LockLedger(s)
  PROVE  IInv'
<1>1. /\ TypeInv /\ TypeInv' /\ OthersKeep(s) /\ pc'[s] = "place" /\ pc[s] = "ledger"
      /\ HoldsLocks(s) /\ StillNew(s)
  BY LockLedgerKeepsTypeInv DEF IInv, LockLedger, SessionInv
<1>2. LocksOfOthersKept(s) /\ \A k \in Locks : lock[k] = s => lock'[k] = s
  BY <1>1, TakeKeepsLocks DEF LockLedger, LedgerLock, Locks
<1>3. UNCHANGED <<captures, places, jobs, told, req, code, when>>
  BY DEF LockLedger, tables, locals
<1>4. HoldsLocks(s)' /\ StillNew(s)'
  BY <1>1, <1>2, <1>3, QuickLocks
     DEF HoldsLocks, StillNew, InTransaction, Registering
<1> QED BY <1>1, <1>2, <1>3, <1>4, QuietStepKeepsIInv

LEMMA PlaceKeepsIInv ==
  ASSUME IInv, NEW s \in Sessions, PlaceBin(s)
  PROVE  IInv'
<1> DEFINE new == NewPlace(s)
<1>1. CASE Fail(s, "refused")
  BY <1>1, FailKeepsIInv DEF Resting
<1>2. CASE /\ places' = places \cup {NewPlace(s)}
           /\ Goto(s, "commit")
           /\ UNCHANGED <<captures, day, lock, locals, told, jobs, crashes>>
  <2>1. /\ TypeInv /\ TypeInv' /\ SessionInv /\ pc[s] = "place"
        /\ HoldsLocks(s) /\ StillNew(s) /\ OpenRows(s)
        /\ UNCHANGED <<captures, lock, req, code, when, told, jobs>>
    BY <1>2, PlaceKeepsTypeInv DEF IInv, PlaceBin, SessionInv, locals
  <2>2. OthersKeep(s) /\ pc'[s] = "commit" /\ LocksOfOthersKept(s)
    BY <1>2, <2>1 DEF Goto, OthersKeep, TypeInv, TypeOK, LocksOfOthersKept
  <2>3. new.key = KeyIn(s) /\ new.by = s
    BY DEF NewPlace
  <2> HIDE DEF new
  <2>4. (Committed(places))' = Committed(places) /\ (Committed(captures))' = Committed(captures)
    BY <1>2, <2>1, <2>3, CodeFacts DEF Committed, new
  <2>5. RowsOfOthersKept(s) /\ CommittedKept /\ NothingNew
    BY <1>2, <2>1, <2>3 DEF RowsOfOthersKept, CommittedKept, NothingNew, new
  <2>6. \A t \in Sessions \ {s} :
          HoldsLocks(t)' /\ OpenRows(t)' /\ StillNew(t)' /\ MayPrint(t)'
    BY <2>1, <2>2, <2>5, OthersHoldLocks, OthersOpenRows, OthersStillNew, OthersMayPrint
  <2>7. HoldsLocks(s)' /\ StillNew(s)' /\ MayPrint(s)'
    BY <2>1, <2>2 DEF HoldsLocks, StillNew, MayPrint, InTransaction, Registering
  <2>8. OpenRows(s)'
    <3>1. KeyIn(s)' = KeyIn(s) /\ \A e : IsOwn(e, s)' <=> IsOwn(e, s)
      BY <2>1 DEF KeyIn, IsOwn
    <3>2. \A e \in places' : e.by = s => e = new
      BY <1>2, <2>1 DEF OpenRows, new
    <3>3. new \in places'
      BY <1>2 DEF new
    <3> QED BY <2>1, <2>2, <2>3, <3>1, <3>2, <3>3 DEF OpenRows, Writing
  <2>9. CaptureInv' /\ JobInv' /\ RegisteredIsPlaced' /\ AnswersMatchRequests'
    BY <2>1, <2>4
       DEF CaptureInv, JobInv, RegisteredIsPlaced, AnswersMatchRequests, IInv
  <2> QED BY <2>1, <2>6, <2>7, <2>8, <2>9 DEF IInv, SessionInv
<1> QED BY <1>1, <1>2 DEF PlaceBin, NewPlace
(* A commit changes nothing of a row but whose it is.                      *)
LEMMA SettledCapture ==
  ASSUME NEW e \in CaptureRows, NEW s \in Sessions
  PROVE  LET f == Settled(e, s) IN
         /\ f.key = e.key /\ f.code = e.code /\ f.site = e.site
         /\ f.action = e.action /\ f.details = e.details
         /\ e.by = s => f.by = None
         /\ e.by # s => f = e
BY DEF Settled, CaptureRows

LEMMA SettledPlace ==
  ASSUME NEW e \in PlaceRows, NEW s \in Sessions
  PROVE  LET f == Settled(e, s) IN
         /\ f.key = e.key
         /\ e.by = s => f.by = None
         /\ e.by # s => f = e
BY DEF Settled, PlaceRows

LEMMA CommitKeepsIInv ==
  ASSUME IInv, NEW s \in Sessions, Commit(s)
  PROVE  IInv'
<1>1. /\ TypeInv /\ TypeInv' /\ SessionInv /\ pc[s] = "commit" /\ OthersKeep(s)
      /\ OpenRows(s) /\ req[s] \in RequestType /\ LocksOfOthersKept(s)
      /\ StillNew(s) /\ KeyIn(s) # None /\ jobs' = jobs
  BY CommitKeepsTypeInv, RegisteringFacts, ReleaseKeepsLocks
     DEF IInv, Commit, SessionInv, Registering
<1>2. /\ captures' = {Settled(e, s) : e \in captures}
      /\ places' = {Settled(e, s) : e \in places}
      /\ captures \subseteq CaptureRows /\ places \subseteq PlaceRows
  BY <1>1 DEF Commit, Settle, Settled, TypeInv, TypeOK
<1>3. PICK own \in captures : own.by = s /\ IsOwn(own, s)
  BY <1>1 DEF OpenRows, Writing
<1>4. /\ Settled(own, s) \in Committed(captures') /\ IsOwn(Settled(own, s), s)
      /\ Settled(own, s).key = KeyIn(s)
  BY <1>2, <1>3, SettledCapture DEF Committed, IsOwn
<1>5. RowsOfOthersKept(s)
  <2>1. ASSUME NEW t \in Sessions \ {s}, NEW e, e.by = t
        PROVE  /\ e \in captures' <=> e \in captures
               /\ e \in places' <=> e \in places
    BY <1>2, <2>1, SettledCapture, SettledPlace, CodeFacts
  <2> QED BY <2>1 DEF RowsOfOthersKept
<1>6. NothingNew
  BY <1>2, SettledCapture DEF NothingNew
<1>7. CommittedKept
  BY <1>2, SettledCapture, CodeFacts DEF CommittedKept, Committed
<1>8. CaptureInv'
  <2>1. ASSUME NEW e \in captures', NEW f \in captures',
               \/ e.key = f.key
               \/ e.action # None /\ e.action = f.action
               \/ e.action # None /\ f.action # None /\ e.code = f.code
        PROVE  e = f
    <3>1. PICK e0 \in captures, f0 \in captures : e = Settled(e0, s) /\ f = Settled(f0, s)
      BY <1>2
    <3>2. e0 = f0
      BY <1>2, <2>1, <3>1, SettledCapture DEF CaptureInv, IInv
    <3> QED BY <3>1, <3>2
  <2>2. \A e \in captures' : e.action # None => e.code[1] = e.site
    BY <1>2, SettledCapture DEF CaptureInv, IInv
  <2> QED BY <2>1, <2>2 DEF CaptureInv
<1>9. ASSUME NEW e \in Committed(captures) PROVE e.key # KeyIn(s)
  BY <1>3, <1>9, CodeFacts DEF Committed, CaptureInv, IInv, IsOwn
<1>10. (Committed(captures))' = Committed(captures') /\ (Committed(places))' = Committed(places')
  BY DEF Committed
<1>11. RegisteredIsPlaced'
  <2>1. PICK row \in places : row.by = s
    BY <1>1 DEF OpenRows
  <2>2. {e.key : e \in Committed(captures')} =
          {e.key : e \in Committed(captures)} \cup {KeyIn(s)}
    <3>1. ASSUME NEW e \in Committed(captures')
          PROVE  e \in Committed(captures) \/ e.key = KeyIn(s)
      <4>1. PICK f \in captures : e = Settled(f, s)
        BY <1>2 DEF Committed
      <4>2. CASE f.by = s
        BY <1>1, <1>2, <4>1, <4>2, SettledCapture DEF OpenRows, IsOwn
      <4>3. CASE f.by # s
        BY <1>2, <4>1, <4>3, SettledCapture DEF Committed
      <4> QED BY <4>2, <4>3
    <3> QED BY <1>4, <1>7, <3>1 DEF CommittedKept
  <2>3. {e.key : e \in Committed(places')} =
          {e.key : e \in Committed(places)} \cup {KeyIn(s)}
    <3>1. ASSUME NEW e \in Committed(places')
          PROVE  e \in Committed(places) \/ e.key = KeyIn(s)
      <4>1. PICK f \in places : e = Settled(f, s)
        BY <1>2 DEF Committed
      <4>2. CASE f.by = s
        BY <1>1, <1>2, <4>1, <4>2, SettledPlace DEF OpenRows
      <4>3. CASE f.by # s
        BY <1>2, <4>1, <4>3, SettledPlace DEF Committed
      <4> QED BY <4>2, <4>3
    <3>2. Settled(row, s) \in Committed(places') /\ Settled(row, s).key = KeyIn(s)
      BY <1>1, <1>2, <2>1, SettledPlace DEF Committed, OpenRows
    <3>3. Committed(places) \subseteq Committed(places')
      BY <1>2, SettledPlace, CodeFacts DEF Committed
    <3> QED BY <3>1, <3>2, <3>3
  <2> QED BY <1>1, <1>10, <2>2, <2>3 DEF RegisteredIsPlaced, IInv
<1>12. JobInv'
  BY <1>1, <1>7, <1>10 DEF JobInv, IInv, CommittedKept
<1>13. AnswersMatchRequests'
  <2>1. \A u \in told' : u.req.op = "quick" => u \in told
    BY <1>1, RequestFacts DEF Commit, Tell, WantsLabel
  <2> QED BY <1>7, <1>10, <2>1 DEF AnswersMatchRequests, IInv, CommittedKept
<1>14. \A t \in Sessions \ {s} : pc[t] = "print" => KeyIn(t) # KeyIn(s)
  BY <1>1, <1>9 DEF SessionInv, MayPrint, IsOwn
<1>15. /\ \A e \in captures' : e.by # s
       /\ \A e \in places' : e.by # s
  BY <1>2, SettledCapture, SettledPlace, CodeFacts
<1>16. CASE WantsLabel(req[s]) /\ Goto(s, "print") /\ UNCHANGED <<locals, told>>
  <2>1. /\ pc'[s] = "print" /\ UNCHANGED <<req, code, when>>
        /\ KeyIn(s)' = KeyIn(s) /\ \A e : IsOwn(e, s)' <=> IsOwn(e, s)
    BY <1>1, <1>16 DEF Goto, locals, TypeInv, TypeOK, KeyIn, IsOwn
  <2>2. \A t \in Sessions \ {s} :
          HoldsLocks(t)' /\ OpenRows(t)' /\ StillNew(t)' /\ MayPrint(t)'
    BY <1>1, <1>5, <1>6, <1>7, <1>14, <2>1, OthersHoldLocks, OthersOpenRows,
       OthersStillNew, OthersMayPrint
  <2>3. HoldsLocks(s)' /\ OpenRows(s)' /\ StillNew(s)'
    BY <1>1, <1>15, <2>1
       DEF HoldsLocks, OpenRows, StillNew, InTransaction, Registering, Writing
  <2>4. MayPrint(s)'
    <3>1. \A j \in jobs : j.key # KeyIn(s)
      BY <1>9 DEF JobInv, IInv
    <3>2. \A t \in Sessions \ {s} : pc'[t] = "print" => KeyIn(t)' # KeyIn(s)
      BY <1>1, <1>14, OthersKeys DEF OthersKeep
    <3> QED BY <1>1, <1>4, <1>10, <2>1, <3>1, <3>2 DEF MayPrint
  <2> QED
    BY <1>1, <1>8, <1>11, <1>12, <1>13, <2>2, <2>3, <2>4 DEF IInv, SessionInv
<1>17. CASE Return(s, "registered")
  <2>1. pc'[s] # "print"
    BY <1>1, <1>17, ReturnTypes DEF Resting
  <2>2. \A t \in Sessions \ {s} :
          HoldsLocks(t)' /\ OpenRows(t)' /\ StillNew(t)' /\ MayPrint(t)'
    BY <1>1, <1>5, <1>6, <1>7, <2>1, OthersHoldLocks, OthersOpenRows,
       OthersStillNew, OthersMayPrint
  <2>3. HoldsLocks(s)' /\ OpenRows(s)' /\ StillNew(s)' /\ MayPrint(s)'
    BY <1>1, <1>15, <1>17, ReturnedSession DEF Resting
  <2> QED
    BY <1>1, <1>8, <1>11, <1>12, <1>13, <2>2, <2>3 DEF IInv, SessionInv
<1> QED BY <1>16, <1>17 DEF Commit

(* A label is, or is not, handed to the printer, and the call is over.     *)
LEMMA PrintingKeepsIInv ==
  ASSUME IInv, TypeInv', NEW s \in Sessions, NEW answer \in Resting, pc[s] = "print",
         jobs' \in {jobs, jobs \cup {Job(s)}}, Return(s, answer),
         UNCHANGED <<captures, places, lock>>, AnswersMatchRequests'
  PROVE  IInv'
<1>1. /\ TypeInv /\ SessionInv /\ OthersKeep(s) /\ MayPrint(s) /\ pc'[s] # "print"
      /\ req[s] \in RequestType
  BY ReturnTypes, RegisteringFacts DEF IInv, SessionInv, Resting, Registering
<1>2. RowsOfOthersKept(s) /\ NothingNew /\ CommittedKept /\ LocksOfOthersKept(s)
  BY DEF RowsOfOthersKept, NothingNew, CommittedKept, LocksOfOthersKept
<1>3. \A t \in Sessions \ {s} :
        HoldsLocks(t)' /\ OpenRows(t)' /\ StillNew(t)' /\ MayPrint(t)'
  BY <1>1, <1>2, OthersHoldLocks, OthersOpenRows, OthersStillNew, OthersMayPrint
<1>4. HoldsLocks(s)' /\ OpenRows(s)' /\ StillNew(s)' /\ MayPrint(s)'
  BY <1>1, NoRows, ReturnedSession DEF Writing
<1>5. (Committed(captures))' = Committed(captures) /\ (Committed(places))' = Committed(places)
  BY DEF Committed
<1>6. JobInv'
  <2>1. PICK e \in Committed(captures) : IsOwn(e, s)
    BY <1>1 DEF MayPrint
  <2>2. /\ e.key = Job(s).key /\ e.code = Job(s).code
        /\ Job(s).req.op = "quick" => e.action = Job(s).req.action
    BY <1>1, <2>1, ActionFacts DEF Job, IsOwn
  <2>3. \A j \in jobs : j.key # Job(s).key
    BY <1>1 DEF MayPrint, Job
  <2> QED BY <1>5, <2>1, <2>2, <2>3 DEF JobInv, IInv
<1>7. CaptureInv' /\ RegisteredIsPlaced'
  BY <1>5 DEF CaptureInv, RegisteredIsPlaced, IInv
<1> QED BY <1>3, <1>4, <1>6, <1>7 DEF IInv, SessionInv

LEMMA PrintKeepsIInv ==
  ASSUME IInv, NEW s \in Sessions, PrintLabel(s)
  PROVE  IInv'
<1>1. /\ TypeInv' /\ pc[s] = "print" /\ MayPrint(s) /\ req[s] \in RequestType
      /\ UNCHANGED <<captures, places, lock>>
      /\ jobs' \in {jobs, jobs \cup {Job(s)}}
  BY PrintKeepsTypeInv, RegisteringFacts
     DEF IInv, PrintLabel, SessionInv, tables, Registering
<1>2. AnswersMatchRequests'
  <2>1. PICK e \in Committed(captures) : IsOwn(e, s)
    BY <1>1 DEF MayPrint
  <2>2. (Committed(captures))' = Committed(captures)
    BY <1>1 DEF Committed
  <2>3. told' = told \cup {[req |-> req[s], code |-> code[s]]}
    BY DEF PrintLabel, Tell
  <2> QED
    BY <1>1, <2>1, <2>2, <2>3, ActionFacts DEF AnswersMatchRequests, IInv, IsOwn
<1>3. PICK answer \in Resting : Return(s, answer)
  BY DEF PrintLabel, Resting
<1> QED BY <1>1, <1>2, <1>3, PrintingKeepsIInv

LEMMA CrashKeepsIInv ==
  ASSUME IInv, NEW s \in Sessions, Crash(s)
  PROVE  IInv'
<1>1. TypeInv' /\ told' = told
  BY CrashKeepsTypeInv DEF IInv, Crash
<1>2. CASE Rollback(s, "failed") /\ UNCHANGED jobs
  BY <1>1, <1>2, RollbackKeepsIInv DEF Resting
<1>3. CASE /\ pc[s] = "print"
           /\ jobs' \in {jobs, jobs \cup {Job(s)}}
           /\ Return(s, "failed")
           /\ UNCHANGED <<tables, lock>>
  <2>1. UNCHANGED <<captures, places, lock>>
    BY <1>3 DEF tables
  <2>2. AnswersMatchRequests'
    BY <1>1, <2>1 DEF AnswersMatchRequests, Committed, IInv
  <2> QED BY <1>1, <1>3, <2>1, <2>2, PrintingKeepsIInv DEF Resting
<1> QED BY <1>2, <1>3 DEF Crash
(* A step that leaves sessions, captures, locks, answers and jobs alone.   *)
LEMMA OutsideStepKeepsIInv ==
  ASSUME IInv, TypeInv', UNCHANGED <<captures, lock, pc, req, code, when, told, jobs>>,
         {e \in places' : e.by # None} = {e \in places : e.by # None},
         {e.key : e \in Committed(places')} \ {None} =
           {e.key : e \in Committed(places)} \ {None}
  PROVE  IInv'
<1>1. \A s \in Sessions : KeyIn(s)' = KeyIn(s) /\ \A e : IsOwn(e, s)' <=> IsOwn(e, s)
  BY DEF KeyIn, IsOwn
<1>2. /\ (Committed(captures))' = Committed(captures)
      /\ (Committed(places))' = Committed(places')
  BY DEF Committed
<1>3. \A s \in Sessions : OpenRows(s)'
  <2> SUFFICES ASSUME NEW s \in Sessions PROVE OpenRows(s)'
    OBVIOUS
  <2>1. OpenRows(s) /\ s # None
    BY CodeFacts DEF IInv, SessionInv
  <2>2. \A e : e \in places' /\ e.by = s <=> e \in places /\ e.by = s
    BY <2>1
  <2> QED BY <1>1, <2>1, <2>2 DEF OpenRows
<1>4. \A s \in Sessions : HoldsLocks(s)' /\ StillNew(s)' /\ MayPrint(s)'
  BY <1>1, <1>2 DEF IInv, SessionInv, HoldsLocks, StillNew, MayPrint, OfAction
<1>5. RegisteredIsPlaced'
  BY <1>2 DEF RegisteredIsPlaced, IInv
<1>6. CaptureInv' /\ JobInv' /\ AnswersMatchRequests'
  BY <1>2 DEF CaptureInv, JobInv, AnswersMatchRequests, IInv
<1> QED BY <1>3, <1>4, <1>5, <1>6 DEF IInv, SessionInv

LEMMA MoveKeepsIInv ==
  ASSUME IInv, NEW c \in Moved, NEW site \in Sites, Move(c, site)
  PROVE  IInv'
<1> DEFINE row == [seq |-> placeSeq, key |-> None, code |-> c, site |-> site, by |-> None]
<1>1. TypeInv'
  BY MoveKeepsTypeInv DEF IInv
<1>2. places' = places \cup {row} /\ row.by = None /\ row.key = None
  BY DEF Move
<1>3. Committed(places') = Committed(places) \cup {row}
  BY <1>2 DEF Committed
<1>4. UNCHANGED <<captures, lock, pc, req, code, when, told, jobs>>
  BY DEF Move, locals
<1> HIDE DEF row
<1>5. /\ {e \in places' : e.by # None} = {e \in places : e.by # None}
      /\ {e.key : e \in Committed(places')} \ {None} =
           {e.key : e \in Committed(places)} \ {None}
  BY <1>2, <1>3
<1> QED BY <1>1, <1>4, <1>5, OutsideStepKeepsIInv

LEMMA MidnightKeepsIInv ==
  ASSUME IInv, Midnight
  PROVE  IInv'
<1>1. TypeInv'
  BY MidnightKeepsTypeInv DEF IInv
<1>2. UNCHANGED <<captures, places, lock, pc, req, code, when, told, jobs>>
  BY DEF Midnight, tables, locals
<1> QED BY <1>1, <1>2, OutsideStepKeepsIInv DEF Committed

LEMMA StutterKeepsIInv ==
  ASSUME IInv, UNCHANGED vars
  PROVE  IInv'
<1>1. TypeInv'
  BY StutterKeepsTypeInv DEF IInv
<1>2. UNCHANGED <<captures, places, lock, pc, req, code, when, told, jobs>>
  BY DEF vars
<1> QED BY <1>1, <1>2, OutsideStepKeepsIInv DEF Committed

LEMMA InitIInv == Init => IInv
<1> SUFFICES ASSUME Init PROVE IInv
  OBVIOUS
<1>1. TypeInv
  BY InitTypeInv
<1>2. \A e \in captures : e.action = None /\ e.by = None /\ e.key[1] = e.code /\
                          e = EarlierCapture(e.code)
  BY DEF Init, EarlierCapture, KeyOf
<1>3. CaptureInv
  <2>1. ASSUME NEW e \in captures, NEW f \in captures, e.key = f.key PROVE e = f
    BY <1>2, <2>1
  <2> QED BY <1>2, <2>1 DEF CaptureInv
<1>4. JobInv /\ AnswersMatchRequests
  BY DEF Init, JobInv, AnswersMatchRequests
<1>5. RegisteredIsPlaced
  <2> DEFINE first(c) == KeyOf(c, c[1], 0)
  <2>1. \A c \in Earlier : /\ EarlierCapture(c).key = first(c) /\ EarlierCapture(c).by = None
                           /\ EarlierPlace(c).key = first(c) /\ EarlierPlace(c).by = None
    BY DEF EarlierCapture, EarlierPlace
  <2>2. /\ Committed(captures) = {EarlierCapture(c) : c \in Earlier}
        /\ Committed(places) = {EarlierPlace(c) : c \in Earlier}
    BY <2>1 DEF Init, Committed
  <2>3. {e.key : e \in Committed(captures)} = {first(c) : c \in Earlier}
    <3> HIDE DEF first
    <3> QED BY <2>1, <2>2
  <2>4. {e.key : e \in Committed(places)} = {first(c) : c \in Earlier}
    <3> HIDE DEF first
    <3> QED BY <2>1, <2>2
  <2>5. \A c \in Earlier : KeyOf(c, c[1], 0) # None
    BY RegistrationAssumption DEF KeyOf, Keys, Codes
  <2> QED BY <2>3, <2>4, <2>5 DEF RegisteredIsPlaced
<1>6. \A e \in places : e.by = None
  BY DEF Init, EarlierPlace
<1>7. ASSUME NEW s \in Sessions
      PROVE  HoldsLocks(s) /\ OpenRows(s) /\ StillNew(s) /\ MayPrint(s)
  <2>1. pc[s] = "idle" /\ req[s] = NoRequest /\ s # None
    BY CodeFacts DEF Init
  <2> QED
    BY <1>2, <1>6, <2>1, RequestFacts DEF HoldsLocks, OpenRows, StillNew, MayPrint, Writing
<1> QED BY <1>1, <1>3, <1>4, <1>5, <1>7 DEF IInv, SessionInv

LEMMA StepKeepsIInv == IInv /\ [Next]_vars => IInv'
<1> SUFFICES ASSUME IInv, [Next]_vars PROVE IInv'
  OBVIOUS
<1>1. ASSUME NEW s \in Sessions, NEW r \in Requests, Begin(s, r) PROVE IInv'
  BY <1>1, BeginKeepsIInv
<1>2. ASSUME NEW s \in Sessions, Step(s) PROVE IInv'
  BY <1>2, ClaimKeepsIInv, LookUpKeepsIInv, LockPrefixKeepsIInv, AssignKeepsIInv,
     SelectKeepsIInv, InsertKeepsIInv, LockLedgerKeepsIInv, PlaceKeepsIInv,
     CommitKeepsIInv, PrintKeepsIInv DEF Step
<1>3. ASSUME NEW s \in Sessions, Crash(s) PROVE IInv'
  BY <1>3, CrashKeepsIInv
<1>4. ASSUME NEW c \in Moved, NEW site \in Sites, Move(c, site) PROVE IInv'
  BY <1>4, MoveKeepsIInv
<1>5. CASE Midnight
  BY <1>5, MidnightKeepsIInv
<1>6. CASE UNCHANGED vars
  BY <1>6, StutterKeepsIInv
<1> QED BY <1>1, <1>2, <1>3, <1>4, <1>5, <1>6 DEF Next, Rest

-------------------------------------------------------------------------------
(* The invariant of the registrations, their locks and the label queue     *)
(* holds in every behaviour: it is inductive.                              *)
THEOREM RegistrationInvariance == Spec => []IInv
BY InitIInv, StepKeepsIInv, PTL DEF Spec

(* Whatever fails or crashes between the capture and the placement of      *)
(* register_bin, both are on file or neither is.                           *)
THEOREM NeverHalfRegistered == Spec => []RegisteredIsPlaced
<1>1. IInv => RegisteredIsPlaced
  BY DEF IInv
<1> QED BY <1>1, RegistrationInvariance, PTL

(* However quick-label submissions interleave, a request id and a code     *)
(* name each other, for any number of sessions, sites and pages.           *)
THEOREM CodesIdentify == Spec => []CodesIdentifyActions
<1>1. IInv => CodesIdentifyActions
  BY DEF IInv, CaptureInv, CodesIdentifyActions, Committed
<1> QED BY <1>1, RegistrationInvariance, PTL

(* A registration is handed to the printer at most once, and a quick label *)
(* is at most once over all days.                                          *)
THEOREM PrintedOnce == Spec => []OneLabelPerRegistration
<1>1. IInv => OneLabelPerRegistration
  <2> SUFFICES ASSUME IInv, NEW j \in jobs, NEW k \in jobs,
                      \/ j.key = k.key
                      \/ /\ j.req.op = "quick" /\ k.req.op = "quick"
                         /\ j.req.action = k.req.action
               PROVE  j = k
    BY DEF OneLabelPerRegistration
  <2>1. CASE j.key = k.key
    BY <2>1 DEF IInv, JobInv
  <2>2. CASE /\ j.req.op = "quick" /\ k.req.op = "quick"
             /\ j.req.action = k.req.action
    <3>1. PICK e \in Committed(captures) : e.key = j.key /\ e.action = j.req.action
      BY <2>2 DEF IInv, JobInv
    <3>2. PICK f \in Committed(captures) : f.key = k.key /\ f.action = k.req.action
      BY <2>2 DEF IInv, JobInv
    <3>3. j.req.action # None
      BY <2>2, RequestFacts, CodeFacts DEF IInv, TypeInv, TypeOK
    <3>4. e = f
      BY <2>2, <3>1, <3>2, <3>3 DEF IInv, CaptureInv, Committed
    <3> QED BY <3>1, <3>2, <3>4 DEF IInv, JobInv
  <2> QED BY <2>1, <2>2
<1> QED BY <1>1, RegistrationInvariance, PTL

(* No label names a bin that is not on file: nothing is printed before the *)
(* commit, nor of a transaction that failed.                               *)
THEOREM LabelsAreTrue == Spec => []LabelsNameRegistrations
<1>1. IInv => LabelsNameRegistrations
  BY DEF IInv, JobInv, LabelsNameRegistrations
<1> QED BY <1>1, RegistrationInvariance, PTL

(* Every answer to a quick label names the bin with these very details.    *)
THEOREM AnswersAreOnFile == Spec => []AnswersMatchRequests
<1>1. IInv => AnswersMatchRequests
  BY DEF IInv
<1> QED BY <1>1, RegistrationInvariance, PTL
-------------------------------------------------------------------------------
(* Registration implements CodeBook: the lemmas.                           *)
CodeIn(table, a) ==
  LET rows == OfAction(Committed(table), a) IN
  IF rows = {} THEN None ELSE (CHOOSE e \in rows : TRUE).code

LabelsOf(queue, a) == {j \in queue : j.req.op = "quick" /\ j.req.action = a}

LEMMA BookVariables ==
  /\ \A a : CodeOf(a) = CodeIn(captures, a) /\ (CodeOf(a))' = CodeIn(captures', a)
  /\ Book!vars = << [a \in Actions |-> CodeIn(captures, a)],
                    [a \in Actions |-> Cardinality(LabelsOf(jobs, a))] >>
  /\ (Book!vars)' = << [a \in Actions |-> CodeIn(captures', a)],
                       [a \in Actions |-> Cardinality(LabelsOf(jobs', a))] >>
<1>1. \A a : CodeOf(a) = CodeIn(captures, a) /\ (CodeOf(a))' = CodeIn(captures', a)
  BY DEF CodeOf, CodeIn, OfAction, Committed
<1> QED BY <1>1 DEF Book!vars, LabelsOf

LEMMA CodeInTable ==
  ASSUME NEW table, NEW a
  PROVE  /\ OfAction(Committed(table), a) = {} => CodeIn(table, a) = None
         /\ \A e : OfAction(Committed(table), a) = {e} => CodeIn(table, a) = e.code
BY DEF CodeIn

(* Nothing is committed and nothing is printed.                            *)
LEMMA BookStutters ==
  ASSUME Committed(captures') = Committed(captures), jobs' = jobs
  PROVE  UNCHANGED Book!vars
BY BookVariables DEF CodeIn

LEMMA InitImplements == Init => Book!Init
<1> SUFFICES ASSUME Init PROVE Book!Init
  OBVIOUS
<1>1. ASSUME NEW a \in Actions
      PROVE  CodeIn(captures, a) = None /\ Cardinality(LabelsOf(jobs, a)) = 0
  <2>1. OfAction(Committed(captures), a) = {}
    BY RegistrationAssumption DEF Init, EarlierCapture, OfAction, Committed
  <2>2. LabelsOf(jobs, a) = {}
    BY DEF Init, LabelsOf
  <2> QED BY <2>1, <2>2, CodeInTable, FS_EmptySet
<1> QED BY <1>1, BookVariables DEF Book!Init, LabelsOf

(* The rows of a request id: at most one, and its code.                    *)
LEMMA RowOfAction ==
  ASSUME IInv, NEW a \in Actions, NEW e \in captures, e.action = a
  PROVE  /\ OfAction(Committed(captures), a) = IF e.by = None THEN {e} ELSE {}
         /\ e.by = None => CodeIn(captures, a) = e.code
<1>1. \A f \in captures : f.action = a => f = e
  BY CodeFacts DEF IInv, CaptureInv
<1>2. OfAction(Committed(captures), a) = IF e.by = None THEN {e} ELSE {}
  BY <1>1 DEF OfAction, Committed
<1> QED BY <1>2, CodeInTable

LEMMA CommitImplements ==
  ASSUME IInv, NEW s \in Sessions, Commit(s)
  PROVE  [Book!Next]_(Book!vars)
<1>1. /\ pc[s] = "commit" /\ OpenRows(s) /\ jobs' = jobs
      /\ req[s] \in RequestType /\ code[s] \in Codes
      /\ captures' = {Settled(e, s) : e \in captures} /\ captures \subseteq CaptureRows
  BY RegisteringFacts
     DEF IInv, SessionInv, Commit, Registering, Settle, Settled, TypeInv, TypeOK
<1>2. PICK own \in captures : own.by = s /\ IsOwn(own, s)
  BY <1>1 DEF OpenRows, Writing
<1> DEFINE row == Settled(own, s)
<1>3. row.action = own.action /\ row.code = code[s]
  BY <1>1, <1>2, SettledCapture DEF IsOwn
<1>4. Committed(captures') = Committed(captures) \cup {row}
  <2>1. ASSUME NEW e \in captures, e.by = s PROVE e = own
    BY <1>1, <1>2, <2>1 DEF OpenRows, IsOwn, IInv, CaptureInv
  <2>2. row.by = None
    BY <1>1, <1>2, SettledCapture
  <2>3. \A e \in captures : e.by # s => Settled(e, s) = e
    BY <1>1, SettledCapture
  <2> HIDE DEF row
  <2>4. \A e \in captures' : e = row \/ (e \in captures /\ e.by # s)
    BY <1>1, <2>1, <2>3 DEF row
  <2>5. row \in captures'
    BY <1>1, <1>2 DEF row
  <2>6. \A e \in captures : e.by = None => e \in captures'
    BY <1>1, <2>3, CodeFacts
  <2> QED BY <2>2, <2>4, <2>5, <2>6 DEF Committed
<1> HIDE DEF row
<1>5. \A a \in Actions : a # row.action => CodeIn(captures', a) = CodeIn(captures, a)
  <2>1. ASSUME NEW a \in Actions, a # row.action
        PROVE  CodeIn(captures', a) = CodeIn(captures, a)
    <3>1. OfAction(Committed(captures'), a) = OfAction(Committed(captures), a)
      BY <1>4, <2>1 DEF OfAction
    <3> QED BY <3>1 DEF CodeIn
  <2> QED BY <2>1
<1>6. CASE req[s].op = "register"
  <2>1. row.action = None
    BY <1>1, <1>2, <1>3, <1>6, ActionFacts DEF IsOwn
  <2>2. \A a \in Actions : CodeIn(captures', a) = CodeIn(captures, a)
    BY <1>5, <2>1, CodeFacts
  <2> QED BY <1>1, <2>2, BookVariables
<1>7. CASE req[s].op = "quick"
  <2> DEFINE a == req[s].action
  <2>1. a \in Actions /\ row.action = a /\ own.action = a
    BY <1>1, <1>2, <1>3, <1>7, ActionFacts, RequestFacts DEF IsOwn
  <2> HIDE DEF a
  <2>2. OfAction(Committed(captures), a) = {}
    BY <1>2, <2>1, RowOfAction, CodeFacts
  <2>3. CodeIn(captures, a) = None
    BY <2>2, CodeInTable
  <2>4. OfAction(Committed(captures'), a) = {row}
    BY <1>4, <2>1, <2>2 DEF OfAction
  <2>5. CodeIn(captures', a) = code[s]
    BY <1>3, <2>4, CodeInTable
  <2>6. ASSUME NEW other \in Actions PROVE CodeIn(captures, other) # code[s]
    <3>1. CASE OfAction(Committed(captures), other) = {}
      BY <1>1, <3>1, CodeInTable, RegistrationAssumption
    <3>2. CASE OfAction(Committed(captures), other) # {}
      <4>1. PICK e \in captures : e.by = None /\ e.action = other
        BY <3>2 DEF OfAction, Committed
      <4>2. CodeIn(captures, other) = e.code
        BY <4>1, RowOfAction
      <4>3. e.code # own.code
        BY <1>2, <2>1, <4>1, CodeFacts DEF IInv, CaptureInv
      <4> QED BY <1>2, <4>2, <4>3 DEF IsOwn
    <3> QED BY <3>1, <3>2
  <2>7. \A other \in Actions \ {a} : CodeIn(captures', other) = CodeIn(captures, other)
    BY <1>5, <2>1
  <2>8. Book!Issue(a)
    BY <1>1, <2>1, <2>3, <2>5, <2>6, <2>7, BookVariables DEF Book!Issue
  <2> QED BY <2>1, <2>8 DEF Book!Next
<1> QED BY <1>1, <1>6, <1>7, RequestFacts
(* A job, if one is handed to the printer, is the first of its action.     *)
LEMMA PrintingImplements ==
  ASSUME IInv, NEW s \in Sessions, pc[s] = "print", captures' = captures,
         jobs' \in {jobs, jobs \cup {Job(s)}}
  PROVE  [Book!Next]_(Book!vars)
<1>1. /\ MayPrint(s) /\ req[s] \in RequestType /\ IsFiniteSet(jobs)
      /\ Job(s).req = req[s] /\ Job(s).key = KeyIn(s) /\ code[s] \in Codes
  BY RegisteringFacts DEF IInv, SessionInv, TypeInv, FiniteTables, Registering, Job
<1>2. CASE jobs' = jobs
  BY <1>2, BookStutters
<1>3. CASE jobs' = jobs \cup {Job(s)} /\ req[s].op = "register"
  <2>1. \A a \in Actions : LabelsOf(jobs', a) = LabelsOf(jobs, a)
    BY <1>1, <1>3 DEF LabelsOf
  <2> QED BY <2>1, BookVariables
<1>4. CASE jobs' = jobs \cup {Job(s)} /\ req[s].op = "quick"
  <2> DEFINE a == req[s].action
  <2>1. a \in Actions /\ ActionOf(req[s]) = a
    BY <1>1, <1>4, ActionFacts, RequestFacts
  <2>2. PICK e \in captures : e.by = None /\ IsOwn(e, s)
    BY <1>1 DEF MayPrint, Committed
  <2>3. CodeIn(captures, a) = code[s] /\ code[s] # None
    BY <1>1, <2>1, <2>2, RowOfAction, RegistrationAssumption DEF IsOwn
  <2>4. LabelsOf(jobs, a) = {}
    <3> SUFFICES ASSUME NEW j \in jobs, j.req.op = "quick", j.req.action = a
                 PROVE  FALSE
      BY DEF LabelsOf
    <3>1. PICK f \in captures : f.key = j.key /\ f.action = a
      BY DEF IInv, JobInv, Committed
    <3>2. f = e
      BY <2>1, <2>2, <3>1, CodeFacts DEF IInv, CaptureInv, IsOwn
    <3> QED BY <1>1, <2>2, <3>1, <3>2 DEF MayPrint, IsOwn
  <2>5. LabelsOf(jobs', a) = {Job(s)}
    BY <1>1, <1>4, <2>4 DEF LabelsOf
  <2>6. Cardinality(LabelsOf(jobs, a)) = 0 /\ Cardinality(LabelsOf(jobs', a)) = 1
    BY <2>4, <2>5, FS_EmptySet, FS_Singleton
  <2>7. \A other \in Actions \ {a} : LabelsOf(jobs', other) = LabelsOf(jobs, other)
    BY <1>1, <1>4 DEF LabelsOf
  <2> HIDE DEF a
  <2> DEFINE labels == [b \in Actions |-> Cardinality(LabelsOf(jobs, b))]
  <2>8. [b \in Actions |-> Cardinality(LabelsOf(jobs', b))] = [labels EXCEPT ![a] = 1]
    BY <2>1, <2>6, <2>7
  <2>9. Book!Label(a)
    BY <2>1, <2>3, <2>6, <2>8, BookVariables DEF Book!Label, LabelsOf
  <2> QED BY <2>1, <2>9 DEF Book!Next
<1> QED BY <1>1, <1>2, <1>3, <1>4, RequestFacts

(* A rollback commits nothing and prints nothing.                          *)
LEMMA RollbackImplements ==
  ASSUME NEW s \in Sessions, NEW answer, Rollback(s, answer), jobs' = jobs
  PROVE  [Book!Next]_(Book!vars)
<1>1. Committed(captures') = Committed(captures)
  BY CodeFacts DEF Rollback, Committed
<1> QED BY <1>1, BookStutters

LEMMA StepImplements ==
  ASSUME IInv, NEW s \in Sessions, Step(s)
  PROVE  [Book!Next]_(Book!vars)
<1>1. CASE Commit(s)
  BY <1>1, CommitImplements
<1>2. CASE PrintLabel(s)
  BY <1>2, PrintingImplements DEF PrintLabel, tables
<1>3. ASSUME NEW answer, Fail(s, answer) PROVE [Book!Next]_(Book!vars)
  BY <1>3, RollbackImplements DEF Fail
<1>4. CASE captures' = captures /\ jobs' = jobs
  BY <1>4, BookStutters
<1>5. CASE InsertCapture(s)
  <2>1. CASE captures' = captures \cup {NewCapture(s)} /\ jobs' = jobs
    <3>1. NewCapture(s).by = s
      BY DEF NewCapture
    <3>2. Committed(captures') = Committed(captures)
      BY <2>1, <3>1, CodeFacts DEF Committed
    <3> QED BY <2>1, <3>2, BookStutters
  <2> QED BY <1>3, <1>5, <2>1 DEF InsertCapture, NewCapture
<1>6. CASE ClaimAction(s) \/ LockPrefix(s) \/ LockLedger(s)
  BY <1>4, <1>6 DEF ClaimAction, LockPrefix, LockLedger, tables
<1>7. CASE LookUpAction(s)
  BY <1>3, <1>4, <1>7 DEF LookUpAction, EndReadOnly, tables
<1>8. CASE AssignCode(s)
  BY <1>3, <1>4, <1>8 DEF AssignCode, tables
<1>9. CASE SelectCapture(s)
  BY <1>3, <1>4, <1>9 DEF SelectCapture, EndReadOnly, tables
<1>10. CASE PlaceBin(s)
  BY <1>3, <1>4, <1>10 DEF PlaceBin
<1> QED BY <1>1, <1>2, <1>5, <1>6, <1>7, <1>8, <1>9, <1>10 DEF Step

LEMMA NextImplements == IInv /\ [Next]_vars => [Book!Next]_(Book!vars)
<1> SUFFICES ASSUME IInv, [Next]_vars PROVE [Book!Next]_(Book!vars)
  OBVIOUS
<1>1. CASE captures' = captures /\ jobs' = jobs
  BY <1>1, BookStutters
<1>2. ASSUME NEW s \in Sessions, NEW r \in Requests, Begin(s, r)
      PROVE  [Book!Next]_(Book!vars)
  BY <1>1, <1>2 DEF Begin, tables
<1>3. ASSUME NEW s \in Sessions, Step(s) PROVE [Book!Next]_(Book!vars)
  BY <1>3, StepImplements
<1>4. ASSUME NEW s \in Sessions, Crash(s) PROVE [Book!Next]_(Book!vars)
  BY <1>4, RollbackImplements, PrintingImplements DEF Crash, tables
<1>5. ASSUME NEW c \in Moved, NEW site \in Sites, Move(c, site)
      PROVE  [Book!Next]_(Book!vars)
  BY <1>1, <1>5 DEF Move
<1>6. CASE Midnight
  BY <1>1, <1>6 DEF Midnight, tables
<1>7. CASE UNCHANGED vars
  BY <1>1, <1>7 DEF vars
<1> QED BY <1>2, <1>3, <1>4, <1>5, <1>6, <1>7 DEF Next, Rest

(* Quick labels implement the book of codes: each commit of one issues its *)
(* code in one step, each label is the first of its request id, and every  *)
(* other step of the program is invisible.                                 *)
THEOREM QuickLabelsImplementBook == Spec => ImplementsCodeBook
<1>1. Spec => Book!Init /\ [][Book!Next]_(Book!vars)
  BY InitImplements, NextImplements, RegistrationInvariance, PTL DEF Spec
<1> QED BY <1>1 DEF ImplementsCodeBook, Book!Spec
===============================================================================
