---------------------------- MODULE StashRuns_proofs ----------------------------
(***************************************************************************)
(* Stash runs for every set of bins, items, forms, proposals and sessions: *)
(* every variable keeps its type, a run has all of its receipts or none, a *)
(* stop that was reported is on file, and a bin is founded by whole        *)
(* proposals.                                                              *)
(***************************************************************************)
EXTENDS StashRuns, FiniteSetTheorems, TLAPS

(* A row of the request union says what its fields are.                    *)
LEMMA RequestFacts ==
  ASSUME NEW r \in RequestType \cup {NoRequest}
  PROVE  /\ r # NoRequest => r \in RequestType
         /\ r.op \in {"none", "start", "decide", "found", "stop"}
         /\ r.op = "start" => r.run \in Runs /\ r.items \in Batches
         /\ r.op = "decide" => r \in Taps
         /\ r.op = "found" => /\ r.receipts \in Seq(ReceiptIds) \ {<<>>}
                              /\ r.bin \in NewCodes
         /\ r.op = "stop" => r.run \in Runs /\ r.bin \in Codes
         /\ r.op = "none" <=> r = NoRequest
BY DEF RequestType, NoRequest, Taps

(* Every form a page offers is a request.                                  *)
LEMMA OffersAreRequests ==
  ASSUME TypeOK, NEW r \in Requests
  PROVE  /\ r \in RequestType
         /\ r.op \in {"start", "decide", "found", "stop"}
         /\ r.op = "decide" => OnFileReceipt(r.receipt)
         /\ r.op = "found" =>
              /\ [receipts |-> r.receipts, bin |-> r.bin] \in Foundings
              /\ \A i \in DOMAIN r.receipts : OnFileReceipt(r.receipts[i])
         /\ r.op = "stop" => \E h \in runs : h.run = r.run
<1>1. CASE r \in StartForms
  BY <1>1, StashAssumption DEF RequestType, StartForms
<1>2. CASE \E q \in Committed(receipts) : r \in DeckOffers(q)
  <2>1. PICK q \in Committed(receipts) : r \in DeckOffers(q)
    BY <1>2
  <2>2. q \in ReceiptRows
    BY <2>1 DEF Committed, TypeOK
  <2>3. r \in Taps /\ r.receipt = q.id
    BY <2>1, <2>2 DEF DeckOffers, Taps, ReceiptRows, Codes
  <2> QED BY <2>1, <2>3 DEF RequestType, OnFileReceipt, Taps
<1>3. CASE r \in QuorumForms
  <2>1. PICK f \in Foundings :
          /\ ToSet(f.receipts) \subseteq Orphans
          /\ r = [op |-> "found", receipts |-> f.receipts, bin |-> f.bin]
    BY <1>3 DEF QuorumForms
  <2>2. f \in [receipts : Seq(ReceiptIds) \ {<<>>}, bin : NewCodes]
    BY StashAssumption
  <2>3. r \in RequestType
    BY <2>1, <2>2 DEF RequestType
  <2>4. \A i \in DOMAIN r.receipts : OnFileReceipt(r.receipts[i])
    BY <2>1 DEF ToSet, Orphans, OnFileReceipt
  <2> QED BY <2>1, <2>2, <2>3, <2>4
<1>4. CASE r \in WaveForms
  BY <1>4 DEF RequestType, TypeOK, WaveForms
<1>5. r \in DeckForms => \E q \in Committed(receipts) : r \in DeckOffers(q)
  BY DEF DeckForms
<1> QED BY <1>1, <1>2, <1>3, <1>4, <1>5 DEF Requests

-------------------------------------------------------------------------------
(* What a step of session s leaves alone.                                  *)
OthersKeep(s) ==
  \A t \in Sessions \ {s} :
    /\ pc'[t] = pc[t] /\ req'[t] = req[t] /\ when'[t] = when[t]
    /\ index'[t] = index[t] /\ rec'[t] = rec[t] /\ text'[t] = text[t]
    /\ dated'[t] = dated[t]

(* What is committed stays.                                                *)
Persists ==
  runs \subseteq runs' /\ Committed(receipts) \subseteq Committed(receipts)'

LEMMA OthersRegisters ==
  ASSUME TypeInv, NEW s \in Sessions, OthersKeep(s), Persists,
         NEW t \in Sessions \ {s}
  PROVE  Registers(t)'
<1>1. \A id : OnFileReceipt(id) => OnFileReceipt(id)'
  BY DEF OnFileReceipt, Persists
<1> QED BY <1>1 DEF TypeInv, Registers, OthersKeep, Persists

LEMMA LocalsTyped ==
  ASSUME TypeOK, NEW s \in Sessions, Return(s)
  PROVE  /\ pc' \in [Sessions -> Labels]
         /\ req' \in [Sessions -> RequestType \cup {NoRequest}]
         /\ when' \in [Sessions -> Nat] /\ index' \in [Sessions -> Nat]
         /\ rec' \in [Sessions -> Bins \cup {None}]
         /\ text' \in [Sessions -> Texts]
         /\ dated' \in [Sessions -> BOOLEAN]
         /\ OthersKeep(s)
         /\ pc'[s] = "idle" /\ req'[s] = NoRequest /\ index'[s] = 0
BY DEF TypeOK, Return, Goto, Labels, Texts, OthersKeep

LEMMA IdleRegisters ==
  ASSUME NEW s \in Sessions, pc[s] = "idle", req[s] = NoRequest
  PROVE  Registers(s)
BY DEF Registers

(* A call that ends, with its rows settled, dropped or kept.               *)
LEMMA EndingKeepsTypeInv ==
  ASSUME TypeInv, NEW s \in Sessions, Return(s), Persists,
         runs' = runs, seq' \in Nat, clock' \in Nat, crashes' \in Nat,
         receipts' \subseteq ReceiptRows, decisions' \subseteq DecisionRows,
         stops' \subseteq [run : Runs, bin : Codes, text : Texts,
                           by : Sessions \cup {None}],
         told' \subseteq Answers
  PROVE  TypeInv'
<1>1. TypeOK'
  BY LocalsTyped DEF TypeInv, TypeOK
<1>2. \A t \in Sessions \ {s} : Registers(t)'
  BY LocalsTyped, OthersRegisters DEF TypeInv
<1>3. Registers(s)'
  BY LocalsTyped, IdleRegisters DEF TypeInv, Registers
<1> QED BY <1>1, <1>2, <1>3 DEF TypeInv

LEMMA RollbackKeepsTypeInv ==
  ASSUME TypeInv, NEW s \in Sessions, Rollback(s), crashes' \in Nat
  PROVE  TypeInv'
<1>1. s # None
  BY StashAssumption
<1>2. Persists
  BY <1>1 DEF Rollback, Persists, Committed
<1> QED BY <1>2, EndingKeepsTypeInv DEF TypeInv, TypeOK, Rollback

-------------------------------------------------------------------------------
LEMMA BeginKeepsTypeInv ==
  ASSUME TypeInv, NEW s \in Sessions, NEW r \in Requests, Begin(s, r)
  PROVE  TypeInv'
<1> USE DEF TypeInv
<1>1. /\ r \in RequestType
      /\ r.op \in {"start", "decide", "found", "stop"}
  BY OffersAreRequests
<1>2. FirstStep(r.op) \in Labels
  BY <1>1 DEF FirstStep, Labels
<1>3. TypeOK'
  BY <1>1, <1>2 DEF Begin, TypeOK, Goto, tables
<1>4. OthersKeep(s) /\ Persists
  BY DEF Begin, OthersKeep, Persists, Goto, tables, TypeOK, Committed
<1>5. /\ req'[s] = r /\ index'[s] = 1 /\ pc'[s] = FirstStep(r.op)
      /\ runs' = runs /\ receipts' = receipts
  BY DEF Begin, TypeOK, Goto, tables
<1>6. \A id : OnFileReceipt(id)' <=> OnFileReceipt(id)
  BY <1>5 DEF OnFileReceipt, Committed
<1>7. r # NoRequest
  BY <1>1 DEF NoRequest
<1>8. r.op = "found" => 1 \in DOMAIN r.receipts
  <2>1. r.op = "found" => r.receipts \in Seq(ReceiptIds) \ {<<>>}
    BY <1>1, RequestFacts
  <2> QED BY <2>1
<1>9. Registers(s)'
  BY <1>1, <1>5, <1>6, <1>7, <1>8, OffersAreRequests DEF Registers, FirstStep
<1> QED BY <1>3, <1>4, <1>9, OthersRegisters

LEMMA HeaderKeepsTypeInv ==
  ASSUME TypeInv, NEW s \in Sessions, InsertHeader(s)
  PROVE  TypeInv'
<1> USE DEF TypeInv
<1>1. /\ pc[s] = "header" /\ req[s].op = "start" /\ index[s] = 1
      /\ req[s] # NoRequest
  BY DEF InsertHeader, Registers
<1>2. req[s].run \in Runs /\ req[s].items \in Batches
  BY <1>1, RequestFacts DEF TypeOK
<1>3. TypeOK'
  BY <1>1, <1>2 DEF InsertHeader, TypeOK, Goto, locals, Labels
<1>4. OthersKeep(s) /\ Persists
  BY DEF InsertHeader, OthersKeep, Persists, Goto, locals, TypeOK, Committed
<1>5. 1 \in DOMAIN req[s].items
  BY <1>2 DEF Batches
<1>6. Registers(s)'
  BY <1>1, <1>5 DEF InsertHeader, Registers, Goto, locals, TypeOK
<1> QED BY <1>3, <1>4, <1>6, OthersRegisters

LEMMA ReplayKeepsTypeInv ==
  ASSUME TypeInv, NEW s \in Sessions, ReadReceipts(s)
  PROVE  TypeInv'
<1> USE DEF TypeInv
<1>1. req[s].run \in Runs
  BY RequestFacts DEF ReadReceipts, Registers, TypeOK
<1> DEFINE listed == {r.id[2] : r \in {e \in Visible(receipts, s) :
                                         e.id[1] = req[s].run}}
<1>2. listed \in SUBSET Nat
  BY DEF Visible, TypeOK, ReceiptRows, ReceiptIds
<1>3. told' \subseteq Answers
  <2> HIDE DEF listed
  <2>1. [op |-> "start", run |-> req[s].run, listed |-> listed] \in Answers
    BY <1>1, <1>2 DEF Answers
  <2> QED BY <2>1 DEF ReadReceipts, Tell, TypeOK, listed
<1>4. Persists
  BY DEF ReadReceipts, Persists, Committed, tables
<1> QED BY <1>3, <1>4, EndingKeepsTypeInv DEF ReadReceipts, tables, TypeOK

LEMMA RouteKeepsTypeInv ==
  ASSUME TypeInv, NEW s \in Sessions, RouteItem(s)
  PROVE  TypeInv'
<1> USE DEF TypeInv
<1>1. PICK b \in Recommendations(req[s].items[index[s]], Visible(decisions, s)) :
        rec' = [rec EXCEPT ![s] = b]
  BY DEF RouteItem
<1>2. b \in Bins \cup {None}
  BY <1>1 DEF Recommendations, Viable
<1>3. TypeOK'
  BY <1>1, <1>2 DEF RouteItem, TypeOK, Goto, tables, Labels
<1>4. OthersKeep(s) /\ Persists
  BY <1>1 DEF RouteItem, OthersKeep, Persists, Goto, tables, TypeOK, Committed
<1>5. Registers(s)'
  BY DEF RouteItem, Registers, Goto, tables, TypeOK
<1> QED BY <1>3, <1>4, <1>5, OthersRegisters

LEMMA ReceiptKeepsTypeInv ==
  ASSUME TypeInv, NEW s \in Sessions, InsertReceipt(s)
  PROVE  TypeInv'
<1> USE DEF TypeInv, InsertReceipt, NextItem
<1>1. /\ pc[s] = "receipt" /\ req[s].op = "start" /\ req[s] # NoRequest
      /\ index[s] \in DOMAIN req[s].items /\ index[s] \in Nat
  BY DEF Registers, TypeOK
<1>2. req[s].run \in Runs /\ req[s].items \in Seq(Items)
  BY <1>1, RequestFacts DEF TypeOK, Batches
<1>3. index[s] \in 1..Len(req[s].items) /\ req[s].items[index[s]] \in Items
  BY <1>1, <1>2
<1>4. Receipt(s, s) \in ReceiptRows
  BY <1>2, <1>3 DEF Receipt, ReceiptRows, ReceiptIds, TypeOK
<1>5. TypeOK'
  BY <1>4 DEF TypeOK, Goto, Labels
<1>6. OthersKeep(s) /\ Persists
  BY DEF OthersKeep, Persists, Goto, TypeOK, Committed
<1>7. index[s] # Len(req[s].items) => index[s] + 1 \in DOMAIN req[s].items
  BY <1>2, <1>3
<1>8. /\ req'[s] = req[s] /\ index'[s] = index[s] + 1
      /\ pc'[s] = IF index[s] = Len(req[s].items) THEN "commit" ELSE "route"
  BY DEF TypeOK, Goto
<1>9. Registers(s)'
  BY <1>1, <1>7, <1>8 DEF Registers
<1> QED BY <1>5, <1>6, <1>9, OthersRegisters

-------------------------------------------------------------------------------
(* A new decision copies its receipt's item and recommendation.            *)
LEMMA AppendTyped ==
  ASSUME TypeOK, NEW s \in Sessions, NEW receipt \in ReceiptIds,
         NEW kind \in DecisionKinds, NEW selected \in Codes \cup {None},
         NEW at \in Nat, OnFileReceipt(receipt),
         AppendDecision(s, receipt, kind, selected, at, s)
  PROVE  decisions' \subseteq DecisionRows /\ seq' \in Nat
<1> DEFINE r == ReceiptOf(receipt)
<1>1. \E q \in receipts : q.id = receipt
  BY DEF OnFileReceipt, Committed
<1>2. r \in receipts
  BY <1>1 DEF ReceiptOf
<1>3. r.item \in Items /\ r.rec \in Bins \cup {None}
  BY <1>2 DEF TypeOK, ReceiptRows
<1> DEFINE d == [seq |-> seq, receipt |-> receipt, item |-> r.item, kind |-> kind,
                 rec |-> r.rec, selected |-> selected, at |-> at, by |-> s]
<1>4. d \in DecisionRows
  <2> HIDE DEF r
  <2> QED BY <1>3 DEF DecisionRows, TypeOK
<1>5. \/ decisions' = decisions \cup {d} /\ seq' = seq + 1
      \/ UNCHANGED <<decisions, seq>>
  BY DEF AppendDecision
<1> HIDE DEF d
<1> QED BY <1>4, <1>5 DEF TypeOK

LEMMA DecideKeepsTypeInv ==
  ASSUME TypeInv, NEW s \in Sessions, Decide(s)
  PROVE  TypeInv'
<1> USE DEF TypeInv, Decide
<1>1. pc[s] = "decide" /\ req[s].op = "decide" /\ OnFileReceipt(req[s].receipt)
      /\ req[s] # NoRequest
  BY DEF Registers
<1>2. req[s] \in Taps
  BY <1>1, RequestFacts DEF TypeOK
<1>3. /\ req[s].receipt \in ReceiptIds /\ req[s].kind \in DecisionKinds
      /\ req[s].selected \in Codes \cup {None} /\ when[s] \in Nat
  BY <1>2 DEF Taps, DecisionKinds, Placing, TypeOK
<1>4. decisions' \subseteq DecisionRows /\ seq' \in Nat
  BY <1>1, <1>3, AppendTyped
<1>5. TypeOK'
  BY <1>4 DEF TypeOK, Goto, Labels, locals
<1>6. OthersKeep(s) /\ Persists
  BY DEF OthersKeep, Persists, Goto, TypeOK, Committed, locals
<1>7. Registers(s)'
  BY <1>1 DEF Registers, Goto, TypeOK, locals
<1> QED BY <1>5, <1>6, <1>7, OthersRegisters

LEMMA FoundKeepsTypeInv ==
  ASSUME TypeInv, NEW s \in Sessions, Found(s)
  PROVE  TypeInv'
<1> USE DEF TypeInv, Found, FoundNext
<1>1. /\ pc[s] = "found" /\ req[s].op = "found" /\ req[s] # NoRequest
      /\ index[s] \in DOMAIN req[s].receipts /\ index[s] \in Nat
      /\ \A i \in DOMAIN req[s].receipts : OnFileReceipt(req[s].receipts[i])
  BY DEF Registers, TypeOK
<1>2. req[s].receipts \in Seq(ReceiptIds) /\ req[s].bin \in NewCodes
  BY <1>1, RequestFacts DEF TypeOK
<1>3. req[s].receipts[index[s]] \in ReceiptIds
  BY <1>1, <1>2
<1>4. /\ "create_new_bin" \in DecisionKinds /\ req[s].bin \in Codes \cup {None}
      /\ 2 * clock + 1 \in Nat
  BY <1>2 DEF DecisionKinds, Placing, TypeOK, Codes
<1>5. decisions' \subseteq DecisionRows /\ seq' \in Nat
  BY <1>1, <1>3, <1>4, AppendTyped
<1>6. TypeOK'
  BY <1>5 DEF TypeOK, Goto, Labels
<1>7. OthersKeep(s) /\ Persists
  BY DEF OthersKeep, Persists, Goto, TypeOK, Committed
<1>8. index[s] # Len(req[s].receipts) => index[s] + 1 \in DOMAIN req[s].receipts
  BY <1>1, <1>2
<1>9. /\ req' = req /\ index'[s] = index[s] + 1 /\ receipts' = receipts
      /\ pc'[s] = IF index[s] = Len(req[s].receipts) THEN "commit" ELSE "found"
  BY DEF TypeOK, Goto
<1>10. \A id : OnFileReceipt(id)' <=> OnFileReceipt(id)
  BY <1>9 DEF OnFileReceipt, Committed
<1>11. Registers(s)'
  BY <1>1, <1>8, <1>9, <1>10 DEF Registers
<1> QED BY <1>6, <1>7, <1>11, OthersRegisters

-------------------------------------------------------------------------------
(* The text of a stop numbers its items from 1.                            *)
LEMMA TextTyped ==
  ASSUME NEW run, NEW placed \in SUBSET (Nat \ {0}),
         \A i \in placed : Header(run).items[i] \in Items
  PROVE  TextOf(run, placed) \in Texts
<1>1. \A i \in placed : Cardinality(placed \cap 1..i) \in Nat
  <2> TAKE i \in placed
  <2>1. IsFiniteSet(1..i)
    BY FS_Interval
  <2>2. IsFiniteSet(placed \cap 1..i)
    BY <2>1, FS_Subset
  <2> QED BY <2>2, FS_CardinalityType
<1>2. \A i \in placed :
        <<Cardinality(placed \cap 1..i), Header(run).items[i]>> \in Nat \X Items
  BY <1>1
<1>3. TextOf(run, placed) \subseteq Nat \X Items
  BY <1>2, Zenon DEF TextOf
<1> QED BY <1>3 DEF Texts

LEMMA PlacedKeepsTypeInv ==
  ASSUME TypeInv, NEW s \in Sessions, ReadPlaced(s)
  PROVE  TypeInv'
<1> USE DEF TypeInv
<1> DEFINE placed == PlacedItems(req[s].run, req[s].bin, Visible(decisions, s))
<1>1. CASE Fail(s)
  <2>1. crashes' \in Nat
    BY <1>1 DEF Fail, TypeOK
  <2> QED BY <1>1, <2>1, RollbackKeepsTypeInv DEF Fail
<1>2. CASE /\ text' = [text EXCEPT ![s] = TextOf(req[s].run, placed)]
           /\ Goto(s, "time")
           /\ UNCHANGED <<tables, clock, req, when, index, rec, dated, told, crashes>>
  <2>1. pc[s] = "placed" /\ req[s].op = "stop" /\ req[s] # NoRequest
        /\ \E h \in runs : h.run = req[s].run
    BY DEF ReadPlaced, Registers
  <2>2. Header(req[s].run) \in runs
    BY <2>1 DEF Header
  <2>3. Header(req[s].run).items \in Seq(Items)
    BY <2>2 DEF TypeOK, Batches
  <2>4. placed \subseteq DOMAIN Header(req[s].run).items
    BY DEF PlacedItems
  <2> HIDE DEF placed
  <2>5. /\ placed \in SUBSET (Nat \ {0})
        /\ \A i \in placed : Header(req[s].run).items[i] \in Items
    BY <2>3, <2>4
  <2>6. TextOf(req[s].run, placed) \in Texts
    BY <2>5, TextTyped
  <2>7. TypeOK'
    BY <1>2, <2>6 DEF TypeOK, Goto, Labels, tables
  <2>8. OthersKeep(s) /\ Persists
    BY <1>2 DEF OthersKeep, Persists, Goto, TypeOK, Committed, tables
  <2>9. Registers(s)'
    BY <1>2, <2>1 DEF Registers, Goto, TypeOK, tables
  <2> QED BY <2>7, <2>8, <2>9, OthersRegisters
<1> QED BY <1>1, <1>2 DEF ReadPlaced

LEMMA WaveTimeKeepsTypeInv ==
  ASSUME TypeInv, NEW s \in Sessions, ReadWaveTime(s)
  PROVE  TypeInv'
<1> USE DEF TypeInv, ReadWaveTime
<1>1. TypeOK'
  BY DEF TypeOK, Goto, Labels, tables
<1>2. OthersKeep(s) /\ Persists
  BY DEF OthersKeep, Persists, Goto, TypeOK, Committed, tables
<1>3. Registers(s)'
  BY DEF Registers, Goto, TypeOK, tables
<1> QED BY <1>1, <1>2, <1>3, OthersRegisters

(* A stop is reported under the run, the bin and the text of its call.     *)
LEMMA StopDoneTyped ==
  ASSUME TypeInv, NEW s \in Sessions, req[s].op = "stop"
  PROVE  StopDone(s) \in Answers
<1>1. req[s].run \in Runs /\ req[s].bin \in Codes
  BY RequestFacts DEF TypeInv, TypeOK
<1>2. text[s] \in Texts
  BY DEF TypeInv, TypeOK
<1> QED BY <1>1, <1>2 DEF StopDone, Answers

LEMMA LookUpKeepsTypeInv ==
  ASSUME TypeInv, NEW s \in Sessions, LookUpStop(s)
  PROVE  TypeInv'
<1> USE DEF TypeInv
<1>1. pc[s] = "lookup" /\ req[s].op = "stop" /\ req[s] # NoRequest
  BY DEF LookUpStop, Registers
<1>2. CASE Fail(s)
  <2>1. crashes' \in Nat
    BY <1>2 DEF Fail, TypeOK
  <2> QED BY <1>2, <2>1, RollbackKeepsTypeInv DEF Fail
<1>3. CASE Tell(StopDone(s)) /\ Return(s) /\ UNCHANGED <<tables, clock, crashes>>
  <2>1. told' \subseteq Answers
    BY <1>1, <1>3, StopDoneTyped DEF Tell, TypeOK
  <2>2. Persists
    BY <1>3 DEF Persists, Committed, tables
  <2> QED BY <1>3, <2>1, <2>2, EndingKeepsTypeInv DEF tables, TypeOK
<1>4. CASE Goto(s, "insert") /\ UNCHANGED <<tables, clock, locals, told, crashes>>
  <2>1. TypeOK'
    BY <1>4 DEF TypeOK, Goto, Labels, tables, locals
  <2>2. OthersKeep(s) /\ Persists
    BY <1>4 DEF OthersKeep, Persists, Goto, TypeOK, Committed, tables, locals
  <2>3. Registers(s)'
    BY <1>1, <1>4 DEF Registers, Goto, TypeOK, tables, locals
  <2> QED BY <2>1, <2>2, <2>3, OthersRegisters
<1> QED BY <1>2, <1>3, <1>4 DEF LookUpStop

LEMMA InsertStopKeepsTypeInv ==
  ASSUME TypeInv, NEW s \in Sessions, InsertStop(s)
  PROVE  TypeInv'
<1> USE DEF TypeInv
<1>1. pc[s] = "insert" /\ req[s].op = "stop" /\ req[s] # NoRequest
  BY DEF InsertStop, Registers
<1> DEFINE e == [run |-> req[s].run, bin |-> req[s].bin, text |-> text[s], by |-> s]
<1>2. CASE Fail(s)
  <2>1. crashes' \in Nat
    BY <1>2 DEF Fail, TypeOK
  <2> QED BY <1>2, <2>1, RollbackKeepsTypeInv DEF Fail
<1>3. CASE /\ stops' = stops \cup {e}
           /\ Goto(s, "commit")
           /\ UNCHANGED <<runs, receipts, decisions, seq, clock, locals, told, crashes>>
  <2>1. req[s].run \in Runs /\ req[s].bin \in Codes /\ text[s] \in Texts
    BY <1>1, RequestFacts DEF TypeOK
  <2>2. e \in [run : Runs, bin : Codes, text : Texts, by : Sessions \cup {None}]
    BY <2>1
  <2> HIDE DEF e
  <2>3. TypeOK'
    BY <1>3, <2>2 DEF TypeOK, Goto, Labels, locals
  <2>4. OthersKeep(s) /\ Persists
    BY <1>3 DEF OthersKeep, Persists, Goto, TypeOK, Committed, locals
  <2>5. Registers(s)'
    BY <1>1, <1>3 DEF Registers, Goto, TypeOK, locals
  <2> QED BY <2>3, <2>4, <2>5, OthersRegisters
<1> QED BY <1>2, <1>3 DEF InsertStop

-------------------------------------------------------------------------------
(* Settling a table only clears the name of a session in its rows.         *)
LEMMA SettleFacts ==
  ASSUME NEW T, NEW s
  PROVE  /\ \A e \in T : [e EXCEPT !.by = IF @ = s THEN None ELSE @] \in Settle(T, s)
         /\ \A f \in Settle(T, s) : \E e \in T :
              f = [e EXCEPT !.by = IF @ = s THEN None ELSE @]
BY DEF Settle

LEMMA CommitKeepsTypeInv ==
  ASSUME TypeInv, NEW s \in Sessions, Commit(s)
  PROVE  TypeInv'
<1> USE DEF TypeInv
<1>1. pc[s] = "commit" /\ req[s] # NoRequest
  BY DEF Commit, Registers
<1>2. receipts' \subseteq ReceiptRows
  BY SettleFacts DEF Commit, TypeOK, ReceiptRows
<1>3. decisions' \subseteq DecisionRows
  BY SettleFacts DEF Commit, TypeOK, DecisionRows
<1>4. stops' \subseteq [run : Runs, bin : Codes, text : Texts, by : Sessions \cup {None}]
  BY SettleFacts DEF Commit, TypeOK
<1>5. Answer(s) \subseteq Answers
  <2>1. req[s].op \in {"start", "decide", "found", "stop"}
    BY <1>1, RequestFacts DEF TypeOK
  <2>2. CASE req[s].op = "start"
    <3>1. req[s].run \in Runs /\ req[s].items \in Seq(Items)
      BY <2>2, RequestFacts DEF TypeOK, Batches
    <3>2. DOMAIN req[s].items \in SUBSET Nat
      BY <3>1
    <3> QED BY <2>2, <3>1, <3>2 DEF Answer, Answers
  <2>3. CASE req[s].op = "found"
    <3>1. req[s] \in RequestType
      BY <1>1, RequestFacts DEF TypeOK
    <3>2. req[s] \in [op : {"found"}, receipts : Seq(ReceiptIds) \ {<<>>}, bin : NewCodes]
      BY <2>3, <3>1 DEF RequestType, Taps
    <3> QED BY <2>3, <3>2 DEF Answer, Answers
  <2> QED BY <2>1, <2>2, <2>3, StopDoneTyped DEF Answer
<1>6. Persists
  <2>1. \A e \in receipts : e.by = None =>
          [e EXCEPT !.by = IF @ = s THEN None ELSE @] = e
    BY DEF TypeOK, ReceiptRows
  <2>2. Committed(receipts) \subseteq Committed(receipts')
    BY <2>1, SettleFacts DEF Committed, Commit
  <2> QED BY <2>2 DEF Persists, Commit, Committed
<1> QED BY <1>2, <1>3, <1>4, <1>5, <1>6, EndingKeepsTypeInv DEF Commit, TypeOK

LEMMA CrashKeepsTypeInv ==
  ASSUME TypeInv, NEW s \in Sessions, Crash(s)
  PROVE  TypeInv'
BY RollbackKeepsTypeInv DEF Crash, TypeInv, TypeOK

LEMMA InitTypeInv == Init => TypeInv
BY DEF Init, TypeInv, TypeOK, Registers, Labels, Texts, NoRequest

LEMMA StepKeepsTypeInv == TypeInv /\ [Next]_vars => TypeInv'
<1> SUFFICES ASSUME TypeInv, [Next]_vars PROVE TypeInv'
  OBVIOUS
<1>1. CASE UNCHANGED vars
  BY <1>1 DEF vars, TypeInv, TypeOK, Registers, OnFileReceipt, Committed
<1>2. ASSUME NEW s \in Sessions, NEW r \in Requests, Begin(s, r) PROVE TypeInv'
  BY <1>2, BeginKeepsTypeInv
<1>3. ASSUME NEW s \in Sessions, Step(s) PROVE TypeInv'
  BY <1>3, HeaderKeepsTypeInv, ReplayKeepsTypeInv, RouteKeepsTypeInv,
     ReceiptKeepsTypeInv, DecideKeepsTypeInv, FoundKeepsTypeInv,
     PlacedKeepsTypeInv, WaveTimeKeepsTypeInv, LookUpKeepsTypeInv,
     InsertStopKeepsTypeInv, CommitKeepsTypeInv DEF Step
<1>4. ASSUME NEW s \in Sessions, Crash(s) PROVE TypeInv'
  BY <1>4, CrashKeepsTypeInv
<1> QED BY <1>1, <1>2, <1>3, <1>4 DEF Next, Rest

(* Every variable of the stash runs keeps its type, for any number of      *)
(* sessions, crashes and requests: the rows of record_stash_run,           *)
(* record_placement_decision and complete_wave_stop fit their tables.      *)
THEOREM StashTypeCorrect == Spec => []TypeOK
<1>1. Spec => []TypeInv
  BY InitTypeInv, StepKeepsTypeInv, PTL DEF Spec
<1>2. TypeInv => TypeOK
  BY DEF TypeInv
<1> QED BY <1>1, <1>2, PTL

-------------------------------------------------------------------------------
(* A run has all of its receipts or none.                                  *)
RunInv == TypeInv /\ BatchInv /\ ReceiptsAllOrNone

(* What a row about no run of this session, or a step without receipts,    *)
(* leaves alone.                                                           *)
LEMMA MakingKept ==
  ASSUME NEW s \in Sessions, OthersKeep(s), NEW t \in Sessions \ {s}
  PROVE  Making(t)' <=> Making(t)
BY DEF OthersKeep, Making

LEMMA QuietKeepsRunInv ==
  ASSUME RunInv, TypeInv', NEW s \in Sessions, OthersKeep(s),
         runs' = runs, receipts' = receipts, ~Making(s), ~Making(s)'
  PROVE  RunInv'
<1> USE DEF RunInv
<1>1. \A t \in Sessions : Making(t)' => t # s /\ Making(t)
  BY MakingKept
<1>2. \A r \in receipts' : r.by # None => Making(r.by)' /\ r.id[1] = req'[r.by].run
  <2> TAKE r \in receipts'
  <2> HAVE r.by # None
  <2>1. r.by \in Sessions /\ Making(r.by) /\ r.id[1] = req[r.by].run
    BY DEF BatchInv, TypeInv, TypeOK, ReceiptRows
  <2>2. r.by # s
    BY <2>1
  <2> QED BY <2>1, <2>2, MakingKept DEF OthersKeep
<1>3. \A t \in Sessions : Making(t)' => BatchSoFar(t)'
  <2> TAKE t \in Sessions
  <2> HAVE Making(t)'
  <2>1. BatchSoFar(t) /\ t # s
    BY <1>1 DEF BatchInv
  <2>2. pc'[t] = pc[t] /\ req'[t] = req[t] /\ index'[t] = index[t]
    BY <2>1 DEF OthersKeep
  <2> QED BY <2>1, <2>2 DEF BatchSoFar
<1>4. \A t, u \in Sessions : Making(t)' /\ Making(u)' /\ req'[t].run = req'[u].run => t = u
  BY <1>1 DEF BatchInv, OthersKeep
<1>5. BatchInv'
  BY <1>2, <1>3, <1>4 DEF BatchInv
<1>6. ReceiptsAllOrNone'
  BY DEF ReceiptsAllOrNone, Committed
<1> QED BY <1>5, <1>6

LEMMA RouteKeepsRunInv ==
  ASSUME RunInv, TypeInv', NEW s \in Sessions, RouteItem(s)
  PROVE  RunInv'
<1> USE DEF RunInv
<1>1. /\ runs' = runs /\ receipts' = receipts /\ req' = req /\ index' = index
      /\ \A t \in Sessions : Making(t)' <=> Making(t)
      /\ \A t \in Sessions : pc'[t] = "commit" => pc[t] = "commit"
  BY DEF RouteItem, Making, Goto, tables, TypeInv, TypeOK
<1>2. \A t \in Sessions : Making(t)' => BatchSoFar(t)'
  <2> TAKE t \in Sessions
  <2> HAVE Making(t)'
  <2>1. BatchSoFar(t)
    BY <1>1 DEF BatchInv
  <2> QED BY <1>1, <2>1 DEF BatchSoFar
<1>3. \A r \in receipts' : r.by # None => Making(r.by)' /\ r.id[1] = req'[r.by].run
  BY <1>1 DEF BatchInv, TypeInv, TypeOK, ReceiptRows
<1>4. BatchInv'
  BY <1>1, <1>2, <1>3 DEF BatchInv
<1>5. ReceiptsAllOrNone'
  BY <1>1 DEF ReceiptsAllOrNone, Committed
<1> QED BY <1>4, <1>5

LEMMA HeaderKeepsRunInv ==
  ASSUME RunInv, TypeInv', NEW s \in Sessions, InsertHeader(s)
  PROVE  RunInv'
<1> USE DEF RunInv
<1>1. /\ pc[s] = "header" /\ req[s].op = "start" /\ index[s] = 1
      /\ index' = index /\ req' = req /\ receipts' = receipts
  BY DEF InsertHeader, locals, TypeInv, Registers
<1>2. OthersKeep(s)
  BY DEF InsertHeader, OthersKeep, Goto, locals, TypeInv, TypeOK
<1>3. ~Making(s)
  BY <1>1 DEF Making
<1>4. CASE UNCHANGED runs /\ Goto(s, "replay")
  BY <1>1, <1>2, <1>3, <1>4, QuietKeepsRunInv DEF Making, Goto, TypeInv, TypeOK
<1> DEFINE h == [run |-> req[s].run, items |-> req[s].items]
<1>5. CASE /\ ~\E g \in runs : g.run = req[s].run
           /\ runs' = runs \cup {h}
           /\ Goto(s, "route")
  <2>1. \A r \in receipts : r.id[1] # req[s].run
    BY <1>5 DEF BatchInv
  <2>2. BatchSoFar(s)' /\ pc'[s] = "route"
    BY <1>1, <1>5, <2>1 DEF BatchSoFar, Goto, TypeInv, TypeOK
  <2>3. \A t \in Sessions \ {s} : Making(t)' => BatchSoFar(t)' /\ req[t].run # req[s].run
    <3> TAKE t \in Sessions \ {s}
    <3> HAVE Making(t)'
    <3>1. Making(t) /\ BatchSoFar(t)
      BY <1>2, MakingKept DEF BatchInv
    <3> QED BY <1>1, <1>2, <1>5, <3>1 DEF BatchSoFar, OthersKeep
  <2>4. \A r \in receipts' : r.by # None => Making(r.by)' /\ r.id[1] = req'[r.by].run
    <3> TAKE r \in receipts'
    <3> HAVE r.by # None
    <3>1. r.by \in Sessions \ {s} /\ Making(r.by) /\ r.id[1] = req[r.by].run
      BY <1>1, <1>3 DEF BatchInv, TypeInv, TypeOK, ReceiptRows
    <3> QED BY <1>1, <1>2, <3>1, MakingKept
  <2>5. \A t, u \in Sessions : Making(t)' /\ Making(u)' /\ req'[t].run = req'[u].run => t = u
    BY <1>1, <1>2, <2>3, MakingKept DEF BatchInv
  <2>6. \A g, k \in runs' : g.run = k.run => g = k
    BY <1>5 DEF BatchInv
  <2>7. \A t \in Sessions : Making(t)' => BatchSoFar(t)'
    BY <2>2, <2>3
  <2>8. BatchInv'
    BY <1>1, <1>5, <2>4, <2>5, <2>6, <2>7 DEF BatchInv
  <2>9. ReceiptsAllOrNone'
    BY <1>1, <1>5, <2>1 DEF ReceiptsAllOrNone, Committed
  <2> QED BY <2>8, <2>9
<1> QED BY <1>4, <1>5 DEF InsertHeader

LEMMA ReceiptKeepsRunInv ==
  ASSUME RunInv, TypeInv', NEW s \in Sessions, InsertReceipt(s)
  PROVE  RunInv'
<1> USE DEF RunInv
<1> DEFINE r == Receipt(s, s)
<1>1. /\ pc[s] = "receipt" /\ req[s].op = "start"
      /\ index[s] \in DOMAIN req[s].items /\ index[s] \in Nat
  BY DEF InsertReceipt, TypeInv, TypeOK, Registers
<1>2. req[s].items \in Seq(Items)
  BY <1>1, RequestFacts DEF TypeInv, TypeOK, Batches
<1>3. /\ receipts' = receipts \cup {r} /\ runs' = runs /\ req' = req
      /\ index'[s] = index[s] + 1
      /\ pc'[s] = IF index[s] = Len(req[s].items) THEN "commit" ELSE "route"
  BY DEF InsertReceipt, NextItem, Goto, TypeInv, TypeOK
<1>4. OthersKeep(s)
  BY DEF InsertReceipt, NextItem, OthersKeep, Goto, TypeInv, TypeOK
<1>5. /\ r.id = <<req[s].run, index[s]>> /\ r.item = req[s].items[index[s]]
      /\ r.by = s /\ s # None
  BY StashAssumption DEF Receipt
<1> HIDE DEF r
<1>6. Making(s) /\ Making(s)' /\ BatchSoFar(s)
  BY <1>1, <1>3 DEF Making, BatchInv
<1>7. \A q \in receipts : q.id # r.id
  BY <1>1, <1>5, <1>6 DEF BatchSoFar
<1>8. BatchSoFar(s)'
  <2>1. 1..(index'[s] - 1) = 1..(index[s] - 1) \cup {index[s]}
    BY <1>1, <1>3
  <2>2. \A q \in receipts' : q.id[1] = req[s].run =>
          q.by = s /\ q.id[2] \in 1..(index'[s] - 1) /\ q.item = req[s].items[q.id[2]]
    BY <1>3, <1>5, <1>6, <2>1 DEF BatchSoFar
  <2>3. \A i \in 1..(index'[s] - 1) : \E q \in receipts' : q.id = <<req[s].run, i>>
    BY <1>3, <1>5, <1>6, <2>1 DEF BatchSoFar
  <2> QED BY <1>3, <1>6, <2>2, <2>3 DEF BatchSoFar
<1>9. \A t \in Sessions \ {s} : Making(t)' => Making(t) /\ req[t].run # req[s].run
  BY <1>4, <1>6, MakingKept DEF BatchInv
<1>10. \A t \in Sessions \ {s} : Making(t)' => BatchSoFar(t)'
  <2> TAKE t \in Sessions \ {s}
  <2> HAVE Making(t)'
  <2>1. BatchSoFar(t) /\ r.id[1] # req[t].run
    BY <1>5, <1>9 DEF BatchInv
  <2> QED BY <1>3, <1>4, <2>1 DEF BatchSoFar, OthersKeep
<1>11. \A q \in receipts' : q.by # None => Making(q.by)' /\ q.id[1] = req'[q.by].run
  <2> TAKE q \in receipts'
  <2> HAVE q.by # None
  <2>1. CASE q = r
    BY <1>3, <1>5, <1>6, <2>1
  <2>2. CASE q \in receipts
    <3>1. q.by \in Sessions /\ Making(q.by) /\ q.id[1] = req[q.by].run
      BY <2>2 DEF BatchInv, TypeInv, TypeOK, ReceiptRows
    <3> QED BY <1>3, <1>4, <1>6, <3>1, MakingKept
  <2> QED BY <1>3, <2>1, <2>2
<1>12. \A q \in receipts' : \E h \in runs' : h.run = q.id[1]
  BY <1>3, <1>5, <1>6 DEF BatchInv, BatchSoFar
<1>13. \A t, u \in Sessions : Making(t)' /\ Making(u)' /\ req'[t].run = req'[u].run => t = u
  BY <1>3, <1>6, <1>9 DEF BatchInv
<1>14. BatchInv'
  BY <1>3, <1>7, <1>8, <1>10, <1>11, <1>12, <1>13 DEF BatchInv
<1>15. Committed(receipts)' = Committed(receipts)
  BY <1>3, <1>5 DEF Committed
<1>16. ReceiptsAllOrNone'
  BY <1>3, <1>15 DEF ReceiptsAllOrNone
<1> QED BY <1>14, <1>16

(* A step after which session s has no receipts of its own.                *)
LEMMA RollbackKeepsRunInv ==
  ASSUME RunInv, TypeInv', NEW s \in Sessions, Rollback(s)
  PROVE  RunInv'
<1> USE DEF RunInv
<1>1. /\ receipts' = {e \in receipts : e.by # s} /\ runs' = runs
      /\ OthersKeep(s) /\ req'[s] = NoRequest
  BY LocalsTyped DEF Rollback, TypeInv
<1>2. ~Making(s)'
  BY <1>1 DEF Making, NoRequest
<1>3. \A t \in Sessions \ {s} : Making(t)' => BatchSoFar(t)'
  <2> TAKE t \in Sessions \ {s}
  <2> HAVE Making(t)'
  <2>1. BatchSoFar(t)
    BY <1>1, MakingKept DEF BatchInv
  <2>2. pc'[t] = pc[t] /\ req'[t] = req[t] /\ index'[t] = index[t]
    BY <1>1 DEF OthersKeep
  <2>3. \A r \in receipts : r.id[1] = req[t].run => r \in receipts'
    BY <1>1, <2>1 DEF BatchSoFar
  <2>4. \A i \in 1..(index[t] - 1) : \E r \in receipts' : r.id = <<req[t].run, i>>
    <3> TAKE i \in 1..(index[t] - 1)
    <3>1. PICK r \in receipts : r.id = <<req[t].run, i>>
      BY <2>1 DEF BatchSoFar
    <3>2. r.id[1] = req[t].run
      BY <3>1
    <3> QED BY <2>3, <3>1, <3>2
  <2> QED BY <1>1, <2>1, <2>2, <2>4 DEF BatchSoFar
<1>4. \A r \in receipts' : r.by # None => Making(r.by)' /\ r.id[1] = req'[r.by].run
  <2> TAKE r \in receipts'
  <2> HAVE r.by # None
  <2>1. r.by \in Sessions \ {s} /\ Making(r.by) /\ r.id[1] = req[r.by].run
    BY <1>1 DEF BatchInv, TypeInv, TypeOK, ReceiptRows
  <2> QED BY <1>1, <2>1, MakingKept DEF OthersKeep
<1>5. \A t, u \in Sessions : Making(t)' /\ Making(u)' /\ req'[t].run = req'[u].run => t = u
  BY <1>1, <1>2, MakingKept DEF BatchInv, OthersKeep
<1>6. BatchInv'
  BY <1>1, <1>2, <1>3, <1>4, <1>5 DEF BatchInv
<1>7. Committed(receipts)' = Committed(receipts)
  BY <1>1, StashAssumption DEF Committed
<1>8. ReceiptsAllOrNone'
  BY <1>1, <1>7 DEF ReceiptsAllOrNone
<1> QED BY <1>6, <1>8

(* The receipts of session s become visible to all.                        *)
LEMMA CommitKeepsRunInv ==
  ASSUME RunInv, TypeInv', NEW s \in Sessions, Commit(s)
  PROVE  RunInv'
<1> USE DEF RunInv
<1>1. /\ receipts' = Settle(receipts, s) /\ runs' = runs /\ pc[s] = "commit"
      /\ OthersKeep(s) /\ req'[s] = NoRequest
  BY LocalsTyped DEF Commit, TypeInv
<1>2. ~Making(s)'
  BY <1>1 DEF Making, NoRequest
<1>3. \A r \in receipts :
        [r EXCEPT !.by = IF @ = s THEN None ELSE @]
          = [id |-> r.id, item |-> r.item, rec |-> r.rec,
             by |-> IF r.by = s THEN None ELSE r.by]
  BY DEF TypeInv, TypeOK, ReceiptRows
<1> DEFINE Settled(r) == [id |-> r.id, item |-> r.item, rec |-> r.rec,
                          by |-> IF r.by = s THEN None ELSE r.by]
<1>4. /\ \A r \in receipts : Settled(r) \in receipts'
      /\ \A q \in receipts' : \E r \in receipts : q = Settled(r)
  <2>1. /\ \A r \in receipts : [r EXCEPT !.by = IF @ = s THEN None ELSE @] \in receipts'
        /\ \A q \in receipts' : \E r \in receipts :
             q = [r EXCEPT !.by = IF @ = s THEN None ELSE @]
    BY <1>1 DEF Settle
  <2>2. \A r \in receipts : [r EXCEPT !.by = IF @ = s THEN None ELSE @] = Settled(r)
    BY <1>3
  <2> HIDE DEF Settled
  <2> QED BY <2>1, <2>2
<1>5. \A r : /\ Settled(r).id = r.id /\ Settled(r).item = r.item
             /\ Settled(r).by = IF r.by = s THEN None ELSE r.by
  OBVIOUS
<1> HIDE DEF Settled
<1>6. \A q, r \in receipts' : q.id = r.id => q = r
  BY <1>4, <1>5 DEF BatchInv
<1>7. \A q \in receipts' : \E h \in runs' : h.run = q.id[1]
  BY <1>1, <1>4, <1>5 DEF BatchInv
<1>8. \A q \in receipts' : q.by # None => Making(q.by)' /\ q.id[1] = req'[q.by].run
  <2> TAKE q \in receipts'
  <2> HAVE q.by # None
  <2>1. PICK r \in receipts : q = Settled(r)
    BY <1>4
  <2>2. r.by # None /\ r.by # s /\ q.by = r.by /\ q.id = r.id
    BY <1>5, <2>1
  <2>3. r.by \in Sessions \ {s} /\ Making(r.by) /\ r.id[1] = req[r.by].run
    BY <2>2 DEF BatchInv, TypeInv, TypeOK, ReceiptRows
  <2> QED BY <1>1, <2>2, <2>3, MakingKept DEF OthersKeep
<1>9. \A t \in Sessions \ {s} : Making(t)' => BatchSoFar(t)'
  <2> TAKE t \in Sessions \ {s}
  <2> HAVE Making(t)'
  <2>1. BatchSoFar(t)
    BY <1>1, MakingKept DEF BatchInv
  <2>2. pc'[t] = pc[t] /\ req'[t] = req[t] /\ index'[t] = index[t]
    BY <1>1 DEF OthersKeep
  <2>3. \A q \in receipts' : q.id[1] = req[t].run =>
          q.by = t /\ q.id[2] \in 1..(index[t] - 1) /\ q.item = req[t].items[q.id[2]]
    BY <1>4, <1>5, <2>1 DEF BatchSoFar
  <2>4. \A i \in 1..(index[t] - 1) : \E q \in receipts' : q.id = <<req[t].run, i>>
    BY <1>4, <1>5, <2>1 DEF BatchSoFar
  <2> QED BY <1>1, <2>1, <2>2, <2>3, <2>4 DEF BatchSoFar
<1>10. \A t, u \in Sessions : Making(t)' /\ Making(u)' /\ req'[t].run = req'[u].run => t = u
  BY <1>1, <1>2, MakingKept DEF BatchInv, OthersKeep
<1>11. BatchInv'
  BY <1>1, <1>2, <1>6, <1>7, <1>8, <1>9, <1>10 DEF BatchInv
<1>12. ReceiptsAllOrNone'
  <2> SUFFICES ASSUME NEW h \in runs
               PROVE  LET rows == {r \in Committed(receipts') : r.id[1] = h.run} IN
                      \/ rows = {}
                      \/ /\ {r.id[2] : r \in rows} = DOMAIN h.items
                         /\ \A r \in rows : r.item = h.items[r.id[2]]
                         /\ \A r, q \in rows : r.id = q.id => r = q
    BY <1>1 DEF ReceiptsAllOrNone, Committed
  <2> DEFINE old == {r \in Committed(receipts) : r.id[1] = h.run}
             new == {r \in Committed(receipts') : r.id[1] = h.run}
  <2>1. \A r, q \in new : r.id = q.id => r = q
    BY <1>6 DEF Committed
  <2>2. CASE Making(s) /\ req[s].run = h.run
    <3>1. BatchSoFar(s) /\ req[s].op = "start"
      BY <2>2 DEF BatchInv, Making
    <3>2. h.items = req[s].items
      BY <2>2, <3>1 DEF BatchSoFar, BatchInv
    <3>3. req[s].items \in Seq(Items)
      BY <3>1, RequestFacts DEF TypeInv, TypeOK, Batches
    <3>4. 1..(index[s] - 1) = DOMAIN h.items
      BY <1>1, <3>1, <3>2, <3>3 DEF BatchSoFar
    <3>5. \A q \in new : q.id[2] \in DOMAIN h.items /\ q.item = h.items[q.id[2]]
      <4> TAKE q \in new
      <4>1. PICK r \in receipts : q = Settled(r)
        BY <1>4 DEF Committed
      <4>2. r.id = q.id /\ r.item = q.item /\ r.id[1] = req[s].run
        BY <1>5, <2>2, <4>1
      <4> QED BY <3>1, <3>2, <3>4, <4>2 DEF BatchSoFar
    <3>6. \A i \in DOMAIN h.items : \E q \in new : q.id = <<h.run, i>>
      <4> TAKE i \in DOMAIN h.items
      <4>1. PICK r \in receipts : r.id = <<h.run, i>>
        BY <2>2, <3>1, <3>4 DEF BatchSoFar
      <4>2. r.by = s
        BY <2>2, <3>1, <4>1 DEF BatchSoFar
      <4>3. Settled(r) \in new
        BY <1>4, <1>5, <4>1, <4>2 DEF Committed
      <4> QED BY <1>5, <4>1, <4>3
    <3>7. \A i \in DOMAIN h.items : \E q \in new : q.id[2] = i
      <4> TAKE i \in DOMAIN h.items
      <4>1. PICK q \in new : q.id = <<h.run, i>>
        BY <3>6
      <4>2. q.id[2] = i
        BY <4>1
      <4> QED BY <4>2
    <3> HIDE DEF new
    <3>8. {r.id[2] : r \in new} = DOMAIN h.items
      BY <3>5, <3>7
    <3> QED BY <2>1, <3>5, <3>8 DEF new
  <2>3. CASE ~(Making(s) /\ req[s].run = h.run)
    <3>1. \A r \in receipts : r.id[1] = h.run => r.by # s
      BY <2>3, StashAssumption DEF BatchInv
    <3>2. \A r \in receipts : r.by # s => Settled(r) = r
      BY <1>3 DEF Settled, TypeInv, TypeOK, ReceiptRows
    <3>3. new = old
      BY <1>4, <1>5, <3>1, <3>2 DEF Committed
    <3> QED BY <3>3 DEF ReceiptsAllOrNone
  <2> QED BY <2>2, <2>3
<1> QED BY <1>11, <1>12

LEMMA BeginKeepsRunInv ==
  ASSUME RunInv, TypeInv', NEW s \in Sessions, NEW r \in Requests, Begin(s, r)
  PROVE  RunInv'
<1>1. r.op \in {"start", "decide", "found", "stop"}
  BY OffersAreRequests DEF RunInv, TypeInv
<1>2. OthersKeep(s) /\ runs' = runs /\ receipts' = receipts
  BY DEF Begin, OthersKeep, Goto, tables, RunInv, TypeInv, TypeOK
<1>3. pc[s] = "idle" /\ pc'[s] = FirstStep(r.op)
  BY DEF Begin, Goto, RunInv, TypeInv, TypeOK
<1>4. ~Making(s) /\ ~Making(s)'
  BY <1>1, <1>3 DEF Making, FirstStep
<1> QED BY <1>2, <1>4, QuietKeepsRunInv

(* The steps of the other calls neither read nor write receipts.           *)
LEMMA OtherStepsKeepRunInv ==
  ASSUME RunInv, TypeInv', NEW s \in Sessions,
         \/ ReadReceipts(s) \/ Decide(s) \/ Found(s) \/ ReadPlaced(s)
         \/ ReadWaveTime(s) \/ LookUpStop(s) \/ InsertStop(s)
  PROVE  RunInv'
<1>1. ASSUME Fail(s) PROVE RunInv'
  BY <1>1, RollbackKeepsRunInv DEF Fail
<1>2. ASSUME Return(s), runs' = runs, receipts' = receipts, ~Making(s) PROVE RunInv'
  <2>1. OthersKeep(s) /\ req'[s] = NoRequest
    BY <1>2, LocalsTyped DEF RunInv, TypeInv
  <2>2. ~Making(s)'
    BY <2>1 DEF Making, NoRequest
  <2> QED BY <1>2, <2>1, <2>2, QuietKeepsRunInv
<1>3. ASSUME NEW label \in Labels, Goto(s, label), req' = req, when' = when, rec' = rec,
             \A t \in Sessions \ {s} :
               text'[t] = text[t] /\ dated'[t] = dated[t] /\ index'[t] = index[t],
             runs' = runs, receipts' = receipts, ~Making(s), req[s].op # "start"
      PROVE  RunInv'
  <2>1. OthersKeep(s) /\ ~Making(s)'
    BY <1>3 DEF OthersKeep, Goto, Making, RunInv, TypeInv, TypeOK
  <2> QED BY <1>3, <2>1, QuietKeepsRunInv
<1>4. /\ pc[s] = "replay" => ~Making(s)
      /\ pc[s] \in {"decide", "found", "placed", "time", "lookup", "insert"} =>
           ~Making(s) /\ req[s].op # "start"
  BY DEF Making, RunInv, TypeInv, Registers
<1>5. CASE ReadReceipts(s)
  BY <1>2, <1>4, <1>5 DEF ReadReceipts, tables
<1>6. CASE Decide(s)
  BY <1>3, <1>4, <1>6 DEF Decide, locals, Labels
<1>7. CASE Found(s)
  <2>1. PICK label \in Labels : Goto(s, label)
    BY <1>7 DEF Found, FoundNext, Labels
  <2> QED BY <1>3, <1>4, <1>7, <2>1 DEF Found, FoundNext, RunInv, TypeInv, TypeOK
<1>8. CASE ReadPlaced(s)
  BY <1>1, <1>3, <1>4, <1>8 DEF ReadPlaced, tables, Labels, RunInv, TypeInv, TypeOK
<1>9. CASE ReadWaveTime(s)
  BY <1>3, <1>4, <1>9 DEF ReadWaveTime, tables, Labels, RunInv, TypeInv, TypeOK
<1>10. CASE LookUpStop(s)
  BY <1>1, <1>2, <1>3, <1>4, <1>10 DEF LookUpStop, tables, locals, Labels
<1>11. CASE InsertStop(s)
  BY <1>1, <1>3, <1>4, <1>11 DEF InsertStop, locals, Labels
<1> QED BY <1>5, <1>6, <1>7, <1>8, <1>9, <1>10, <1>11

LEMMA StepKeepsRunInv == RunInv /\ [Next]_vars => RunInv'
<1> SUFFICES ASSUME RunInv, [Next]_vars PROVE RunInv'
  OBVIOUS
<1>1. TypeInv'
  BY StepKeepsTypeInv DEF RunInv
<1>2. CASE UNCHANGED vars
  <2>1. runs' = runs /\ receipts' = receipts /\ pc' = pc /\ req' = req /\ index' = index
    BY <1>2 DEF vars
  <2>2. \A t \in Sessions : Making(t)' <=> Making(t)
    BY <2>1 DEF Making
  <2>3. \A t \in Sessions : BatchSoFar(t)' <=> BatchSoFar(t)
    BY <2>1 DEF BatchSoFar
  <2>4. \A r \in receipts : r.by # None => r.by \in Sessions
    BY DEF RunInv, TypeInv, TypeOK, ReceiptRows
  <2>5. BatchInv'
    BY <2>1, <2>2, <2>3, <2>4 DEF RunInv, BatchInv
  <2> QED BY <1>1, <2>1, <2>5 DEF RunInv, ReceiptsAllOrNone, Committed
<1>3. ASSUME NEW s \in Sessions, NEW r \in Requests, Begin(s, r) PROVE RunInv'
  BY <1>1, <1>3, BeginKeepsRunInv
<1>4. ASSUME NEW s \in Sessions, Step(s) PROVE RunInv'
  BY <1>1, <1>4, HeaderKeepsRunInv, RouteKeepsRunInv, ReceiptKeepsRunInv,
     CommitKeepsRunInv, OtherStepsKeepRunInv DEF Step
<1>5. ASSUME NEW s \in Sessions, Crash(s) PROVE RunInv'
  BY <1>1, <1>5, RollbackKeepsRunInv DEF Crash
<1> QED BY <1>2, <1>3, <1>4, <1>5 DEF Next, Rest

LEMMA InitRunInv == Init => RunInv
BY InitTypeInv DEF RunInv, Init, BatchInv, Making, ReceiptsAllOrNone

(* Wherever record_stash_run ends, by an answer, an error or a crash, its  *)
(* run has one receipt per item of the batch or no receipt.                *)
THEOREM NeverHalfRun == Spec => []ReceiptsAllOrNone
<1>1. Spec => []RunInv
  BY InitRunInv, StepKeepsRunInv, PTL DEF Spec
<1>2. RunInv => ReceiptsAllOrNone
  BY DEF RunInv
<1> QED BY <1>1, <1>2, PTL

-------------------------------------------------------------------------------
(* What the owner is told of a stop is on file.                            *)
StopSafe == TypeInv /\ StopInv /\ StopAnswersAreTrue

Stopping(s) == pc[s] = "commit" /\ req[s].op = "stop"

StopAnswers(answers) == {t \in answers : t.op = "stop"}

(* A step that leaves the stops and the answers about them alone.          *)
LEMMA QuietKeepsStopSafe ==
  ASSUME StopSafe, NEW s \in Sessions, OthersKeep(s), TypeInv',
         stops' = stops, StopAnswers(told') \subseteq StopAnswers(told),
         ~Stopping(s), ~Stopping(s)'
  PROVE  StopSafe'
<1> USE DEF StopSafe
<1>1. \A t \in Sessions \ {s} : pc'[t] = pc[t] /\ req'[t] = req[t] /\ text'[t] = text[t]
  BY DEF OthersKeep
<1>2. \A e \in stops : e.by # None => e.by \in Sessions \ {s} /\ Stopping(e.by)
  BY DEF StopInv, Stopping, TypeInv, TypeOK
<1>3. \A e \in stops' : e.by # None => pc'[e.by] = "commit" /\ req'[e.by].op = "stop"
  BY <1>1, <1>2 DEF Stopping
<1>4. \A t \in Sessions : pc'[t] = "commit" /\ req'[t].op = "stop" =>
        \E e \in stops' : /\ e.run = req'[t].run /\ e.bin = req'[t].bin
                          /\ e.text = text'[t] /\ e.by = t
  BY <1>1 DEF StopInv, Stopping
<1>5. StopInv'
  BY <1>3, <1>4 DEF StopInv
<1>6. StopAnswersAreTrue'
  BY DEF StopAnswersAreTrue, StopAnswers, Committed
<1> QED BY <1>5, <1>6

LEMMA RollbackKeepsStopSafe ==
  ASSUME StopSafe, NEW s \in Sessions, Rollback(s), TypeInv'
  PROVE  StopSafe'
<1> USE DEF StopSafe
<1>1. /\ stops' = {e \in stops : e.by # s} /\ told' = told
      /\ OthersKeep(s) /\ pc'[s] = "idle"
  BY LocalsTyped DEF Rollback, TypeInv
<1>2. \A t \in Sessions \ {s} : pc'[t] = pc[t] /\ req'[t] = req[t] /\ text'[t] = text[t]
  BY <1>1 DEF OthersKeep
<1>3. \A e \in stops' : e.by # None => pc'[e.by] = "commit" /\ req'[e.by].op = "stop"
  BY <1>1, <1>2 DEF StopInv, TypeInv, TypeOK
<1>4. \A t \in Sessions : pc'[t] = "commit" /\ req'[t].op = "stop" =>
        \E e \in stops' : /\ e.run = req'[t].run /\ e.bin = req'[t].bin
                          /\ e.text = text'[t] /\ e.by = t
  BY <1>1, <1>2 DEF StopInv
<1>5. StopInv'
  BY <1>3, <1>4 DEF StopInv
<1>6. Committed(stops)' = Committed(stops)
  BY <1>1, StashAssumption DEF Committed
<1>7. StopAnswersAreTrue'
  BY <1>1, <1>6 DEF StopAnswersAreTrue
<1> QED BY <1>5, <1>7

LEMMA LookUpKeepsStopSafe ==
  ASSUME StopSafe, NEW s \in Sessions, LookUpStop(s), TypeInv'
  PROVE  StopSafe'
<1> USE DEF StopSafe
<1>1. pc[s] = "lookup"
  BY DEF LookUpStop
<1>2. CASE Fail(s)
  BY <1>2, RollbackKeepsStopSafe DEF Fail
<1>3. CASE Goto(s, "insert") /\ UNCHANGED <<tables, clock, locals, told, crashes>>
  <2>1. OthersKeep(s) /\ ~Stopping(s) /\ ~Stopping(s)'
    BY <1>1, <1>3 DEF OthersKeep, Goto, locals, Stopping, TypeInv, TypeOK
  <2> QED BY <1>3, <2>1, QuietKeepsStopSafe DEF tables
<1>4. ASSUME NEW e \in OnFile(Visible(stops, s), req[s].run, req[s].bin),
             SamePayload(e, s), Tell(StopDone(s)), Return(s),
             UNCHANGED <<tables, clock, crashes>>
      PROVE  StopSafe'
  <2>1. /\ e \in stops /\ e.by \in {None, s}
        /\ e.run = req[s].run /\ e.bin = req[s].bin /\ e.text = text[s]
    BY <1>4 DEF OnFile, Visible, SamePayload
  <2>2. e.by = None
    BY <1>1, <2>1, StashAssumption DEF StopInv
  <2>3. /\ stops' = stops /\ told' = told \cup {StopDone(s)}
        /\ OthersKeep(s) /\ pc'[s] = "idle"
    BY <1>4, LocalsTyped DEF tables, Tell, TypeInv
  <2>4. \A t \in Sessions \ {s} : pc'[t] = pc[t] /\ req'[t] = req[t] /\ text'[t] = text[t]
    BY <2>3 DEF OthersKeep
  <2>5. \A c \in stops' : c.by # None => pc'[c.by] = "commit" /\ req'[c.by].op = "stop"
    BY <1>1, <2>3, <2>4 DEF StopInv, TypeInv, TypeOK
  <2>6. \A t \in Sessions : pc'[t] = "commit" /\ req'[t].op = "stop" =>
          \E c \in stops' : /\ c.run = req'[t].run /\ c.bin = req'[t].bin
                            /\ c.text = text'[t] /\ c.by = t
    BY <2>3, <2>4 DEF StopInv
  <2>7. StopInv'
    BY <2>5, <2>6 DEF StopInv
  <2>8. e \in Committed(stops)' /\ Committed(stops)' = Committed(stops)
    BY <2>1, <2>2, <2>3 DEF Committed
  <2>9. StopAnswersAreTrue'
    BY <2>1, <2>3, <2>8 DEF StopAnswersAreTrue, StopDone
  <2> QED BY <2>7, <2>9
<1> QED BY <1>2, <1>3, <1>4 DEF LookUpStop

LEMMA InsertKeepsStopSafe ==
  ASSUME StopSafe, NEW s \in Sessions, InsertStop(s), TypeInv'
  PROVE  StopSafe'
<1> USE DEF StopSafe
<1> DEFINE e == [run |-> req[s].run, bin |-> req[s].bin, text |-> text[s], by |-> s]
<1>1. pc[s] = "insert" /\ req[s].op = "stop" /\ s # None
  BY StashAssumption DEF InsertStop, TypeInv, Registers
<1>2. CASE Fail(s)
  BY <1>2, RollbackKeepsStopSafe DEF Fail
<1>3. CASE /\ stops' = stops \cup {e}
           /\ Goto(s, "commit")
           /\ UNCHANGED <<runs, receipts, decisions, seq, clock, locals, told, crashes>>
  <2>1. /\ pc'[s] = "commit" /\ req' = req /\ text' = text /\ told' = told
        /\ \A t \in Sessions \ {s} : pc'[t] = pc[t]
    BY <1>3 DEF Goto, locals, TypeInv, TypeOK
  <2>2. \A c \in stops' : c.by # None => pc'[c.by] = "commit" /\ req'[c.by].op = "stop"
    BY <1>1, <1>3, <2>1 DEF StopInv, TypeInv, TypeOK
  <2>3. \A t \in Sessions : pc'[t] = "commit" /\ req'[t].op = "stop" =>
          \E c \in stops' : /\ c.run = req'[t].run /\ c.bin = req'[t].bin
                            /\ c.text = text'[t] /\ c.by = t
    <3> TAKE t \in Sessions
    <3> HAVE pc'[t] = "commit" /\ req'[t].op = "stop"
    <3>1. CASE t = s
      <4>1. e \in stops' /\ e.run = req[s].run /\ e.bin = req[s].bin
            /\ e.text = text[s] /\ e.by = s
        BY <1>3
      <4> HIDE DEF e
      <4> QED BY <2>1, <3>1, <4>1
    <3>2. CASE t # s
      <4>1. PICK c \in stops : /\ c.run = req[t].run /\ c.bin = req[t].bin
                               /\ c.text = text[t] /\ c.by = t
        BY <2>1, <3>2 DEF StopInv
      <4> QED BY <1>3, <2>1, <4>1
    <3> QED BY <3>1, <3>2
  <2>4. StopInv'
    BY <2>2, <2>3 DEF StopInv
  <2>5. Committed(stops)' = Committed(stops)
    BY <1>1, <1>3 DEF Committed
  <2>6. StopAnswersAreTrue'
    BY <2>1, <2>5 DEF StopAnswersAreTrue
  <2> QED BY <2>4, <2>6
<1> QED BY <1>2, <1>3 DEF InsertStop

LEMMA CommitKeepsStopSafe ==
  ASSUME StopSafe, NEW s \in Sessions, Commit(s), TypeInv'
  PROVE  StopSafe'
<1> USE DEF StopSafe
<1>1. /\ stops' = Settle(stops, s) /\ told' = told \cup Answer(s) /\ pc[s] = "commit"
      /\ OthersKeep(s) /\ pc'[s] = "idle"
  BY LocalsTyped DEF Commit, TypeInv
<1>2. \A t \in Sessions \ {s} : pc'[t] = pc[t] /\ req'[t] = req[t] /\ text'[t] = text[t]
  BY <1>1 DEF OthersKeep
<1> DEFINE Settled(e) == [run |-> e.run, bin |-> e.bin, text |-> e.text,
                          by |-> IF e.by = s THEN None ELSE e.by]
<1>3. /\ \A e \in stops : Settled(e) \in stops'
      /\ \A c \in stops' : \E e \in stops : c = Settled(e)
  <2>1. /\ \A e \in stops : [e EXCEPT !.by = IF @ = s THEN None ELSE @] \in stops'
        /\ \A c \in stops' : \E e \in stops :
             c = [e EXCEPT !.by = IF @ = s THEN None ELSE @]
    BY <1>1 DEF Settle
  <2>2. \A e \in stops : [e EXCEPT !.by = IF @ = s THEN None ELSE @] = Settled(e)
    BY DEF TypeInv, TypeOK
  <2> HIDE DEF Settled
  <2> QED BY <2>1, <2>2
<1>4. \A e : /\ Settled(e).run = e.run /\ Settled(e).bin = e.bin
             /\ Settled(e).text = e.text
             /\ Settled(e).by = IF e.by = s THEN None ELSE e.by
  OBVIOUS
<1> HIDE DEF Settled
<1>5. \A c \in stops' : c.by # None => pc'[c.by] = "commit" /\ req'[c.by].op = "stop"
  <2> TAKE c \in stops'
  <2> HAVE c.by # None
  <2>1. PICK e \in stops : c = Settled(e)
    BY <1>3
  <2>2. e.by # None /\ e.by # s /\ c.by = e.by
    BY <1>4, <2>1
  <2>3. e.by \in Sessions \ {s} /\ pc[e.by] = "commit" /\ req[e.by].op = "stop"
    BY <2>2 DEF StopInv, TypeInv, TypeOK
  <2> QED BY <1>2, <2>2, <2>3
<1>6. \A t \in Sessions : pc'[t] = "commit" /\ req'[t].op = "stop" =>
        \E c \in stops' : /\ c.run = req'[t].run /\ c.bin = req'[t].bin
                          /\ c.text = text'[t] /\ c.by = t
  <2> TAKE t \in Sessions
  <2> HAVE pc'[t] = "commit" /\ req'[t].op = "stop"
  <2>1. t # s /\ pc[t] = "commit" /\ req[t].op = "stop"
    BY <1>1, <1>2
  <2>2. PICK e \in stops : /\ e.run = req[t].run /\ e.bin = req[t].bin
                           /\ e.text = text[t] /\ e.by = t
    BY <2>1 DEF StopInv
  <2> QED BY <1>2, <1>3, <1>4, <2>1, <2>2
<1>7. StopInv'
  BY <1>5, <1>6 DEF StopInv
<1>8. \A e \in Committed(stops) : \E c \in Committed(stops)' :
        c.run = e.run /\ c.bin = e.bin /\ c.text = e.text
  BY <1>3, <1>4 DEF Committed
<1>9. ASSUME NEW t \in Answer(s), t.op = "stop"
      PROVE  \E c \in Committed(stops)' : c.run = t.run /\ c.bin = t.bin /\ c.text = t.text
  <2>1. req[s] \in RequestType /\ req[s].op \in {"start", "decide", "found", "stop"}
    BY <1>1, RequestFacts DEF TypeInv, TypeOK, Registers, NoRequest
  <2>2. req[s].op = "stop" /\ t = StopDone(s)
    BY <1>9, <2>1 DEF Answer
  <2>3. PICK e \in stops : /\ e.run = req[s].run /\ e.bin = req[s].bin
                           /\ e.text = text[s] /\ e.by = s
    BY <1>1, <2>2 DEF StopInv
  <2>4. Settled(e) \in Committed(stops)'
    BY <1>3, <1>4, <2>3 DEF Committed
  <2> QED BY <1>4, <2>2, <2>3, <2>4 DEF StopDone
<1>10. StopAnswersAreTrue'
  <2> SUFFICES ASSUME NEW t \in told', t.op = "stop"
               PROVE  \E c \in Committed(stops)' :
                        c.run = t.run /\ c.bin = t.bin /\ c.text = t.text
    BY DEF StopAnswersAreTrue
  <2>1. CASE t \in told
    <3>1. PICK e \in Committed(stops) :
            e.run = t.run /\ e.bin = t.bin /\ e.text = t.text
      BY <2>1 DEF StopAnswersAreTrue
    <3> QED BY <1>8, <3>1
  <2> QED BY <1>1, <1>9, <2>1
<1> QED BY <1>7, <1>10

LEMMA BeginKeepsStopSafe ==
  ASSUME StopSafe, TypeInv', NEW s \in Sessions, NEW r \in Requests, Begin(s, r)
  PROVE  StopSafe'
<1>1. r.op \in {"start", "decide", "found", "stop"}
  BY OffersAreRequests DEF StopSafe, TypeInv
<1>2. OthersKeep(s) /\ stops' = stops /\ told' = told
  BY DEF Begin, OthersKeep, Goto, tables, StopSafe, TypeInv, TypeOK
<1>3. pc[s] = "idle" /\ pc'[s] = FirstStep(r.op)
  BY DEF Begin, Goto, StopSafe, TypeInv, TypeOK
<1>4. ~Stopping(s) /\ ~Stopping(s)'
  BY <1>1, <1>3 DEF Stopping, FirstStep
<1> QED BY <1>2, <1>4, QuietKeepsStopSafe

(* The steps that write no stop and answer for none.                       *)
LEMMA OtherStepsKeepStopSafe ==
  ASSUME StopSafe, TypeInv', NEW s \in Sessions,
         \/ InsertHeader(s) \/ ReadReceipts(s) \/ RouteItem(s) \/ InsertReceipt(s)
         \/ Decide(s) \/ Found(s) \/ ReadPlaced(s) \/ ReadWaveTime(s)
  PROVE  StopSafe'
<1> USE DEF StopSafe
<1>1. CASE Fail(s)
  BY <1>1, RollbackKeepsStopSafe DEF Fail
<1>2. ASSUME OthersKeep(s), stops' = stops, told' = told, pc[s] # "commit",
             pc'[s] # "commit" \/ req'[s].op # "stop"
      PROVE  StopSafe'
  BY <1>2, QuietKeepsStopSafe DEF Stopping
<1>3. CASE ReadReceipts(s)
  <2>1. OthersKeep(s) /\ pc[s] = "replay" /\ pc'[s] = "idle" /\ stops' = stops
    BY <1>3, LocalsTyped DEF ReadReceipts, tables, TypeInv
  <2>2. StopAnswers(told') \subseteq StopAnswers(told)
    BY <1>3 DEF ReadReceipts, Tell, StopAnswers
  <2> QED BY <2>1, <2>2, QuietKeepsStopSafe DEF Stopping
<1>4. CASE InsertHeader(s)
  <2>1. OthersKeep(s) /\ stops' = stops /\ told' = told /\ pc[s] = "header"
        /\ pc'[s] \in {"route", "replay"}
    BY <1>4 DEF InsertHeader, OthersKeep, Goto, locals, TypeInv, TypeOK
  <2> QED BY <1>2, <2>1
<1>5. CASE RouteItem(s)
  <2>1. OthersKeep(s) /\ stops' = stops /\ told' = told /\ pc[s] = "route"
        /\ pc'[s] = "receipt"
    BY <1>5 DEF RouteItem, OthersKeep, Goto, tables, TypeInv, TypeOK
  <2> QED BY <1>2, <2>1
<1>6. CASE InsertReceipt(s)
  <2>1. OthersKeep(s) /\ stops' = stops /\ told' = told /\ pc[s] = "receipt" /\ req' = req
    BY <1>6 DEF InsertReceipt, NextItem, OthersKeep, Goto, TypeInv, TypeOK
  <2>2. req[s].op = "start"
    BY <2>1 DEF TypeInv, Registers
  <2> QED BY <1>2, <2>1, <2>2
<1>7. CASE Decide(s)
  <2>1. OthersKeep(s) /\ stops' = stops /\ told' = told /\ pc[s] = "decide" /\ req' = req
    BY <1>7 DEF Decide, locals, OthersKeep, Goto, TypeInv, TypeOK
  <2>2. req[s].op = "decide"
    BY <2>1 DEF TypeInv, Registers
  <2> QED BY <1>2, <2>1, <2>2
<1>8. CASE Found(s)
  <2>1. OthersKeep(s) /\ stops' = stops /\ told' = told /\ pc[s] = "found" /\ req' = req
    BY <1>8 DEF Found, FoundNext, OthersKeep, Goto, TypeInv, TypeOK
  <2>2. req[s].op = "found"
    BY <2>1 DEF TypeInv, Registers
  <2> QED BY <1>2, <2>1, <2>2
<1>9. CASE ReadPlaced(s)
  <2>1. CASE ~Fail(s)
    <3>1. OthersKeep(s) /\ stops' = stops /\ told' = told /\ pc[s] = "placed"
          /\ pc'[s] = "time"
      BY <1>9, <2>1 DEF ReadPlaced, OthersKeep, Goto, tables, TypeInv, TypeOK
    <3> QED BY <1>2, <3>1
  <2> QED BY <1>1, <2>1
<1>10. CASE ReadWaveTime(s)
  <2>1. OthersKeep(s) /\ stops' = stops /\ told' = told /\ pc[s] = "time"
        /\ pc'[s] = "lookup"
    BY <1>10 DEF ReadWaveTime, OthersKeep, Goto, tables, TypeInv, TypeOK
  <2> QED BY <1>2, <2>1
<1> QED BY <1>3, <1>4, <1>5, <1>6, <1>7, <1>8, <1>9, <1>10

LEMMA StepKeepsStopSafe == StopSafe /\ [Next]_vars => StopSafe'
<1> SUFFICES ASSUME StopSafe, [Next]_vars PROVE StopSafe'
  OBVIOUS
<1>1. TypeInv'
  BY StepKeepsTypeInv DEF StopSafe
<1>2. CASE UNCHANGED vars
  <2>1. StopInv'
    BY <1>2 DEF vars, StopSafe, StopInv
  <2> QED BY <1>1, <1>2, <2>1 DEF vars, StopSafe, StopAnswersAreTrue, Committed
<1>3. ASSUME NEW s \in Sessions, NEW r \in Requests, Begin(s, r) PROVE StopSafe'
  BY <1>1, <1>3, BeginKeepsStopSafe
<1>4. ASSUME NEW s \in Sessions, Step(s) PROVE StopSafe'
  BY <1>1, <1>4, LookUpKeepsStopSafe, InsertKeepsStopSafe, CommitKeepsStopSafe,
     OtherStepsKeepStopSafe DEF Step
<1>5. ASSUME NEW s \in Sessions, Crash(s) PROVE StopSafe'
  BY <1>1, <1>5, RollbackKeepsStopSafe DEF Crash
<1> QED BY <1>2, <1>3, <1>4, <1>5 DEF Next, Rest

LEMMA InitStopSafe == Init => StopSafe
BY InitTypeInv DEF StopSafe, Init, StopInv, StopAnswersAreTrue

(* "Stop recorded" is only ever said of a stop that is on file with the    *)
(* items it had when it was read, whoever else completes it, changes a     *)
(* decision or crashes meanwhile (complete_wave_stop, capture).            *)
THEOREM StopsOnFile == Spec => []StopAnswersAreTrue
<1>1. Spec => []StopSafe
  BY InitStopSafe, StepKeepsStopSafe, PTL DEF Spec
<1>2. StopSafe => StopAnswersAreTrue
  BY DEF StopSafe
<1> QED BY <1>1, <1>2, PTL

-------------------------------------------------------------------------------
(* A bin is founded by whole proposals.                                    *)
(* FoundingIsWhole is proved element by element.                           *)
FoundersHaveProposals ==
  \A bin \in NewCodes : \A x \in Founders(bin) : \E f \in Foundings :
    f.bin = bin /\ ToSet(f.receipts) \subseteq Founders(bin) /\ x \in ToSet(f.receipts)
ToldAreFounders ==
  \A t \in told : t.op = "found" => ToSet(t.receipts) \subseteq Founders(t.bin)

FoundSafe == TypeInv /\ DecisionInv /\ FoundersHaveProposals /\ ToldAreFounders

LEMMA WholeByElements ==
  ASSUME TypeOK
  PROVE  FoundingIsWhole <=> FoundersHaveProposals /\ ToldAreFounders
<1> DEFINE Whole(bin) == {f \in Foundings : f.bin = bin /\ ToSet(f.receipts) \subseteq Founders(bin)}
<1>1. \A t \in told : t.op = "found" => t.bin \in NewCodes
  BY DEF TypeOK, Answers
<1>2. ToldAreFounders <=>
        \A bin \in NewCodes : \A t \in told : t.op = "found" /\ t.bin = bin =>
          ToSet(t.receipts) \subseteq Founders(bin)
  BY <1>1 DEF ToldAreFounders
<1>3. ASSUME NEW bin \in NewCodes
      PROVE  Founders(bin) = UNION {ToSet(f.receipts) : f \in Whole(bin)} <=>
               \A x \in Founders(bin) : \E f \in Foundings :
                 f.bin = bin /\ ToSet(f.receipts) \subseteq Founders(bin) /\ x \in ToSet(f.receipts)
  <2>1. UNION {ToSet(f.receipts) : f \in Whole(bin)} \subseteq Founders(bin)
    OBVIOUS
  <2>2. \A x : x \in UNION {ToSet(f.receipts) : f \in Whole(bin)} <=>
                 \E f \in Whole(bin) : x \in ToSet(f.receipts)
    OBVIOUS
  <2>3. \A f : f \in Whole(bin) <=>
          f \in Foundings /\ f.bin = bin /\ ToSet(f.receipts) \subseteq Founders(bin)
    OBVIOUS
  <2> HIDE DEF Whole
  <2> QED BY <2>1, <2>2, <2>3
<1> QED BY <1>2, <1>3 DEF FoundingIsWhole, FoundersHaveProposals

(* Nothing about founders changes unless a decision is committed.          *)
LEMMA FoundersKept ==
  ASSUME Committed(decisions)' = Committed(decisions),
         \A t \in told' : t.op = "found" => t \in told
  PROVE  FoundersHaveProposals /\ ToldAreFounders
           => FoundersHaveProposals' /\ ToldAreFounders'
<1>1. \A bin : Founders(bin)' = Founders(bin)
  BY DEF Founders
<1> QED BY <1>1 DEF FoundersHaveProposals, ToldAreFounders

(* Session s has written no founding decision.                             *)
LEMMA NoFoundingOfOthers ==
  ASSUME DecisionInv, NEW s \in Sessions, req[s].op # "found"
  PROVE  \A d \in decisions : d.kind = "create_new_bin" => d.by # s
BY StashAssumption DEF DecisionInv

(* A step of s that leaves the decisions alone.                            *)
LEMMA QuietKeepsFoundSafe ==
  ASSUME FoundSafe, TypeInv', NEW s \in Sessions, OthersKeep(s),
         decisions' = decisions, seq' = seq, req[s].op # "found",
         \A t \in told' : t.op = "found" => t \in told,
         req'[s].op = "found" => FoundingSoFar(s)'
  PROVE  FoundSafe'
<1> USE DEF FoundSafe
<1>1. \A t \in Sessions \ {s} : /\ pc'[t] = pc[t] /\ req'[t] = req[t]
                                /\ index'[t] = index[t]
  BY DEF OthersKeep
<1>2. \A d \in decisions' : d.by # None /\ d.kind = "create_new_bin" =>
        /\ req'[d.by].op = "found" /\ d.selected = req'[d.by].bin
        /\ d.receipt \in ToSet(req'[d.by].receipts)
  BY <1>1, NoFoundingOfOthers DEF DecisionInv, TypeInv, TypeOK, DecisionRows
<1>3. \A t \in Sessions : req'[t].op = "found" => FoundingSoFar(t)'
  <2> TAKE t \in Sessions
  <2> HAVE req'[t].op = "found"
  <2>1. CASE t # s
    <3>1. FoundingSoFar(t) /\ pc'[t] = pc[t] /\ req'[t] = req[t] /\ index'[t] = index[t]
      BY <1>1, <2>1 DEF DecisionInv
    <3> QED BY <3>1 DEF FoundingSoFar, Visible
  <2> QED BY <2>1
<1>4. DecisionInv'
  BY <1>2, <1>3 DEF DecisionInv
<1>5. Committed(decisions)' = Committed(decisions)
  BY DEF Committed
<1> QED BY <1>4, <1>5, FoundersKept

(* What record_placement_decision leaves behind.                           *)
LEMMA AppendFacts ==
  ASSUME TypeInv, DecisionInv, NEW s \in Sessions, NEW receipt, NEW kind, NEW selected,
         NEW at, AppendDecision(s, receipt, kind, selected, at, s)
  PROVE  /\ decisions \subseteq decisions'
         /\ Committed(decisions)' = Committed(decisions)
         /\ \A d \in decisions' : d.seq < seq'
         /\ \A d, e \in decisions' : d.seq = e.seq => d = e
         /\ \A d \in decisions' \ decisions :
              d.by = s /\ d.kind = kind /\ d.receipt = receipt /\ d.selected = selected
         /\ \E d \in decisions' : /\ d.by \in {None, s} /\ d.kind = kind
                                  /\ d.receipt = receipt /\ d.selected = selected
<1> DEFINE r == ReceiptOf(receipt)
           n == [seq |-> seq, receipt |-> receipt, item |-> r.item, kind |-> kind,
                 rec |-> r.rec, selected |-> selected, at |-> at, by |-> s]
<1>1. /\ n.seq = seq /\ n.by = s /\ n.kind = kind /\ n.receipt = receipt
      /\ n.selected = selected
  OBVIOUS
<1>2. CASE decisions' = decisions \cup {n} /\ seq' = seq + 1
  <2> HIDE DEF n
  <2>1. Committed(decisions)' = Committed(decisions)
    BY <1>1, <1>2, StashAssumption DEF Committed
  <2>2. \A d \in decisions : d.seq \in Nat /\ d.seq < seq /\ seq \in Nat
    BY DEF DecisionInv, TypeInv, TypeOK, DecisionRows
  <2>3. seq \in Nat
    BY DEF TypeInv, TypeOK
  <2>4. \A d \in decisions' : d.seq < seq'
    BY <1>1, <1>2, <2>2, <2>3
  <2>5. \A d, e \in decisions' : d.seq = e.seq => d = e
    BY <1>1, <1>2, <2>2, <2>3 DEF DecisionInv
  <2> QED BY <1>1, <1>2, <2>1, <2>4, <2>5
<1>3. CASE /\ SameAction(receipt, kind, selected) # {}
           /\ \A d \in SameAction(receipt, kind, selected) : d.by \in {None, s}
           /\ UNCHANGED <<decisions, seq>>
  BY <1>3 DEF SameAction, DecisionInv, Committed
<1> QED BY <1>2, <1>3 DEF AppendDecision

LEMMA DecideKeepsFoundSafe ==
  ASSUME FoundSafe, TypeInv', NEW s \in Sessions, Decide(s)
  PROVE  FoundSafe'
<1> USE DEF FoundSafe
<1>1. req[s].op = "decide" /\ req[s] \in Taps
  BY RequestFacts DEF Decide, TypeInv, TypeOK, Registers
<1>2. req[s].kind # "create_new_bin"
  BY <1>1 DEF Taps
<1>3. /\ req' = req /\ index' = index /\ told' = told
      /\ \A t \in Sessions \ {s} : pc'[t] = pc[t]
  BY DEF Decide, locals, Goto, TypeInv, TypeOK
<1>4. /\ decisions \subseteq decisions'
      /\ Committed(decisions)' = Committed(decisions)
      /\ \A d \in decisions' : d.seq < seq'
      /\ \A d, e \in decisions' : d.seq = e.seq => d = e
      /\ \A d \in decisions' \ decisions : d.kind # "create_new_bin"
  BY <1>2, AppendFacts DEF Decide
<1>5. \A d \in decisions' : d.by # None /\ d.kind = "create_new_bin" =>
        /\ req'[d.by].op = "found" /\ d.selected = req'[d.by].bin
        /\ d.receipt \in ToSet(req'[d.by].receipts)
  BY <1>3, <1>4 DEF DecisionInv
<1>6. \A t \in Sessions : req'[t].op = "found" => FoundingSoFar(t)'
  <2> TAKE t \in Sessions
  <2> HAVE req'[t].op = "found"
  <2>1. FoundingSoFar(t) /\ pc'[t] = pc[t]
    BY <1>1, <1>3 DEF DecisionInv
  <2> QED BY <1>3, <1>4, <2>1 DEF FoundingSoFar, Visible
<1>7. DecisionInv'
  BY <1>4, <1>5, <1>6 DEF DecisionInv
<1> QED BY <1>3, <1>4, <1>7, FoundersKept

LEMMA FoundKeepsFoundSafe ==
  ASSUME FoundSafe, TypeInv', NEW s \in Sessions, Found(s)
  PROVE  FoundSafe'
<1> USE DEF FoundSafe
<1>1. /\ req[s].op = "found" /\ index[s] \in DOMAIN req[s].receipts /\ index[s] \in Nat
      /\ pc[s] = "found"
  BY DEF Found, FoundNext, TypeInv, TypeOK, Registers
<1>2. req[s].receipts \in Seq(ReceiptIds)
  BY <1>1, RequestFacts DEF TypeInv, TypeOK
<1>3. /\ req' = req /\ told' = told /\ index'[s] = index[s] + 1
      /\ pc'[s] = IF index[s] = Len(req[s].receipts) THEN "commit" ELSE "found"
      /\ \A t \in Sessions \ {s} : pc'[t] = pc[t] /\ index'[t] = index[t]
  BY DEF Found, FoundNext, Goto, TypeInv, TypeOK
<1> DEFINE now == req[s].receipts[index[s]]
<1>4. /\ decisions \subseteq decisions'
      /\ Committed(decisions)' = Committed(decisions)
      /\ \A d \in decisions' : d.seq < seq'
      /\ \A d, e \in decisions' : d.seq = e.seq => d = e
      /\ \A d \in decisions' \ decisions : /\ d.by = s /\ d.receipt = now
                                           /\ d.selected = req[s].bin
      /\ \E d \in decisions' : /\ d.by \in {None, s} /\ d.kind = "create_new_bin"
                               /\ d.receipt = now /\ d.selected = req[s].bin
  BY AppendFacts DEF Found, FoundNext
<1>5. now \in ToSet(req[s].receipts)
  BY <1>1 DEF ToSet
<1>6. \A d \in decisions' : d.by # None /\ d.kind = "create_new_bin" =>
        /\ req'[d.by].op = "found" /\ d.selected = req'[d.by].bin
        /\ d.receipt \in ToSet(req'[d.by].receipts)
  BY <1>1, <1>3, <1>4, <1>5 DEF DecisionInv
<1>7. \A t \in Sessions : req'[t].op = "found" => FoundingSoFar(t)'
  <2> TAKE t \in Sessions
  <2> HAVE req'[t].op = "found"
  <2>1. FoundingSoFar(t)
    BY <1>3 DEF DecisionInv
  <2>2. CASE t # s
    BY <1>3, <1>4, <2>1, <2>2 DEF FoundingSoFar, Visible
  <2>3. CASE t = s
    <3> SUFFICES ASSUME NEW i \in DOMAIN req[s].receipts,
                        pc'[s] = "commit" \/ i < index'[s]
                 PROVE  \E d \in Visible(decisions', s) :
                          /\ d.kind = "create_new_bin" /\ d.selected = req[s].bin
                          /\ d.receipt = req[s].receipts[i]
      BY <1>3, <2>1, <2>3 DEF FoundingSoFar, Visible
    <3>1. i \in Nat /\ (i < index[s] \/ i = index[s])
      BY <1>1, <1>2, <1>3
    <3>2. CASE i = index[s]
      BY <1>4, <3>2 DEF Visible
    <3>3. CASE i < index[s]
      BY <1>4, <2>1, <2>3, <3>3 DEF FoundingSoFar, Visible
    <3> QED BY <3>1, <3>2, <3>3
  <2> QED BY <2>2, <2>3
<1>8. DecisionInv'
  BY <1>4, <1>6, <1>7 DEF DecisionInv
<1> QED BY <1>3, <1>4, <1>8, FoundersKept

LEMMA RollbackKeepsFoundSafe ==
  ASSUME FoundSafe, TypeInv', NEW s \in Sessions, Rollback(s)
  PROVE  FoundSafe'
<1> USE DEF FoundSafe
<1>1. /\ decisions' = {e \in decisions : e.by # s} /\ told' = told /\ seq' = seq
      /\ OthersKeep(s) /\ req'[s] = NoRequest
  BY LocalsTyped DEF Rollback, TypeInv
<1>2. \A t \in Sessions \ {s} : /\ pc'[t] = pc[t] /\ req'[t] = req[t]
                                /\ index'[t] = index[t]
  BY <1>1 DEF OthersKeep
<1>3. \A d \in decisions' : d.by # None /\ d.kind = "create_new_bin" =>
        /\ req'[d.by].op = "found" /\ d.selected = req'[d.by].bin
        /\ d.receipt \in ToSet(req'[d.by].receipts)
  BY <1>1, <1>2 DEF DecisionInv, TypeInv, TypeOK, DecisionRows
<1>4. \A t \in Sessions : req'[t].op = "found" => FoundingSoFar(t)'
  <2> TAKE t \in Sessions
  <2> HAVE req'[t].op = "found"
  <2>1. t # s
    BY <1>1 DEF NoRequest
  <2>2. FoundingSoFar(t) /\ pc'[t] = pc[t] /\ req'[t] = req[t] /\ index'[t] = index[t]
    BY <1>2, <2>1 DEF DecisionInv
  <2>3. Visible(decisions, t) \subseteq Visible(decisions', t)
    BY <1>1, <2>1, StashAssumption DEF Visible
  <2> QED BY <2>2, <2>3 DEF FoundingSoFar, Visible
<1>5. DecisionInv'
  BY <1>1, <1>3, <1>4 DEF DecisionInv
<1>6. Committed(decisions)' = Committed(decisions)
  BY <1>1, StashAssumption DEF Committed
<1> QED BY <1>1, <1>5, <1>6, FoundersKept

LEMMA CommitKeepsFoundSafe ==
  ASSUME FoundSafe, TypeInv', NEW s \in Sessions, Commit(s)
  PROVE  FoundSafe'
<1> USE DEF FoundSafe
<1>1. /\ decisions' = Settle(decisions, s) /\ told' = told \cup Answer(s)
      /\ pc[s] = "commit" /\ seq' = seq /\ OthersKeep(s) /\ req'[s] = NoRequest
  BY LocalsTyped DEF Commit, TypeInv
<1>2. \A t \in Sessions \ {s} : /\ pc'[t] = pc[t] /\ req'[t] = req[t]
                                /\ index'[t] = index[t]
  BY <1>1 DEF OthersKeep
<1> DEFINE Settled(d) == [d EXCEPT !.by = IF @ = s THEN None ELSE @]
<1>3. /\ \A d \in decisions : Settled(d) \in decisions'
      /\ \A c \in decisions' : \E d \in decisions : c = Settled(d)
  BY <1>1 DEF Settle
<1>4. \A d \in decisions :
        /\ Settled(d).seq = d.seq /\ Settled(d).kind = d.kind
        /\ Settled(d).receipt = d.receipt /\ Settled(d).selected = d.selected
        /\ Settled(d).by = IF d.by = s THEN None ELSE d.by
  BY DEF TypeInv, TypeOK, DecisionRows
<1> HIDE DEF Settled
<1>5. /\ \A c \in decisions' : c.seq < seq'
      /\ \A c, e \in decisions' : c.seq = e.seq => c = e
  BY <1>1, <1>3, <1>4 DEF DecisionInv
<1>6. \A c \in decisions' : c.by # None /\ c.kind = "create_new_bin" =>
        /\ req'[c.by].op = "found" /\ c.selected = req'[c.by].bin
        /\ c.receipt \in ToSet(req'[c.by].receipts)
  <2> TAKE c \in decisions'
  <2> HAVE c.by # None /\ c.kind = "create_new_bin"
  <2>1. PICK d \in decisions : c = Settled(d)
    BY <1>3
  <2>2. /\ d.by # s /\ c.by = d.by /\ d.kind = "create_new_bin"
        /\ c.selected = d.selected /\ c.receipt = d.receipt
    BY <1>4, <2>1
  <2>3. d.by \in Sessions \ {s}
    BY <2>2 DEF TypeInv, TypeOK, DecisionRows
  <2> QED BY <1>2, <2>2, <2>3 DEF DecisionInv
<1>7. \A t \in Sessions : req'[t].op = "found" => FoundingSoFar(t)'
  <2> TAKE t \in Sessions
  <2> HAVE req'[t].op = "found"
  <2>1. t # s
    BY <1>1 DEF NoRequest
  <2>2. FoundingSoFar(t) /\ pc'[t] = pc[t] /\ req'[t] = req[t] /\ index'[t] = index[t]
    BY <1>2, <2>1 DEF DecisionInv
  <2>3. \A d \in Visible(decisions, t) : Settled(d) \in Visible(decisions', t)
    BY <1>3, <1>4, <2>1 DEF Visible
  <2> SUFFICES ASSUME NEW i \in DOMAIN req[t].receipts, pc[t] = "commit" \/ i < index[t]
               PROVE  \E d \in Visible(decisions', t) :
                        /\ d.kind = "create_new_bin" /\ d.selected = req[t].bin
                        /\ d.receipt = req[t].receipts[i]
    BY <2>2 DEF FoundingSoFar, Visible
  <2>4. PICK d \in Visible(decisions, t) :
          /\ d.kind = "create_new_bin" /\ d.selected = req[t].bin
          /\ d.receipt = req[t].receipts[i]
    BY <2>2 DEF FoundingSoFar
  <2>5. d \in decisions
    BY DEF Visible
  <2> QED BY <1>4, <2>3, <2>4, <2>5
<1>8. DecisionInv'
  BY <1>5, <1>6, <1>7 DEF DecisionInv
<1>9. \A bin : Founders(bin) \subseteq Founders(bin)'
  <2> TAKE bin
  <2> SUFFICES ASSUME NEW x \in Founders(bin) PROVE x \in Founders(bin)'
    OBVIOUS
  <2>1. PICK d \in decisions : /\ d.by = None /\ d.kind = "create_new_bin"
                               /\ d.selected = bin /\ d.receipt = x
    BY DEF Founders, Committed
  <2>2. Settled(d) \in decisions' /\ Settled(d).by = None
    BY <1>3, <1>4, <2>1
  <2> QED BY <1>4, <2>1, <2>2 DEF Founders, Committed
<1>10. ASSUME req[s].op = "found", NEW bin, bin = req[s].bin
       PROVE  /\ [receipts |-> req[s].receipts, bin |-> bin] \in Foundings
              /\ ToSet(req[s].receipts) \subseteq Founders(bin)'
  <2>1. FoundingSoFar(s)
    BY <1>10 DEF DecisionInv
  <2>2. ASSUME NEW i \in DOMAIN req[s].receipts
        PROVE  req[s].receipts[i] \in Founders(bin)'
    <3>1. PICK d \in Visible(decisions, s) :
            /\ d.kind = "create_new_bin" /\ d.selected = bin
            /\ d.receipt = req[s].receipts[i]
      BY <1>1, <1>10, <2>1 DEF FoundingSoFar
    <3>2. d \in decisions /\ d.by \in {None, s}
      BY DEF Visible
    <3>3. Settled(d) \in decisions' /\ Settled(d).by = None
      BY <1>3, <1>4, <3>2
    <3> QED BY <1>4, <3>1, <3>2, <3>3 DEF Founders, Committed
  <2> QED BY <1>10, <2>1, <2>2 DEF FoundingSoFar, ToSet
<1>11. FoundersHaveProposals'
  <2> SUFFICES ASSUME NEW bin \in NewCodes, NEW x \in Founders(bin)'
               PROVE  \E f \in Foundings :
                        /\ f.bin = bin /\ ToSet(f.receipts) \subseteq Founders(bin)'
                        /\ x \in ToSet(f.receipts)
    BY DEF FoundersHaveProposals
  <2>1. PICK c \in decisions' : /\ c.by = None /\ c.kind = "create_new_bin"
                                /\ c.selected = bin /\ c.receipt = x
    BY DEF Founders, Committed
  <2>2. PICK d \in decisions : c = Settled(d)
    BY <1>3
  <2>3. /\ d.kind = "create_new_bin" /\ d.selected = bin /\ d.receipt = x
        /\ d.by \in {None, s}
    BY <1>4, <2>1, <2>2
  <2>4. CASE d.by = None
    <3>1. x \in Founders(bin)
      BY <2>3, <2>4 DEF Founders, Committed
    <3>2. PICK f \in Foundings : /\ f.bin = bin /\ x \in ToSet(f.receipts)
                                 /\ ToSet(f.receipts) \subseteq Founders(bin)
      BY <3>1 DEF FoundersHaveProposals
    <3> QED BY <1>9, <3>2
  <2>5. CASE d.by = s
    <3>1. req[s].op = "found" /\ bin = req[s].bin /\ x \in ToSet(req[s].receipts)
      BY <2>3, <2>5, StashAssumption DEF DecisionInv
    <3> DEFINE f == [receipts |-> req[s].receipts, bin |-> bin]
    <3>2. f \in Foundings /\ f.bin = bin /\ f.receipts = req[s].receipts
      BY <1>10, <3>1
    <3> HIDE DEF f
    <3> QED BY <1>10, <3>1, <3>2
  <2> QED BY <2>3, <2>4, <2>5
<1>12. ToldAreFounders'
  <2> SUFFICES ASSUME NEW t \in told', t.op = "found"
               PROVE  ToSet(t.receipts) \subseteq Founders(t.bin)'
    BY DEF ToldAreFounders
  <2>1. CASE t \in told
    BY <1>9, <2>1 DEF ToldAreFounders
  <2>2. CASE t \in Answer(s)
    <3>1. req[s].op \in {"start", "decide", "found", "stop"}
      BY <1>1, RequestFacts DEF TypeInv, TypeOK, Registers
    <3>2. req[s].op = "found" /\ t = req[s]
      BY <2>2, <3>1 DEF Answer, StopDone
    <3>3. ToSet(req[s].receipts) \subseteq Founders(t.bin)'
      BY <1>10, <3>2
    <3> QED BY <3>2, <3>3
  <2> QED BY <1>1, <2>1, <2>2
<1> QED BY <1>8, <1>11, <1>12

LEMMA BeginKeepsFoundSafe ==
  ASSUME FoundSafe, TypeInv', NEW s \in Sessions, NEW r \in Requests, Begin(s, r)
  PROVE  FoundSafe'
<1> USE DEF FoundSafe
<1>1. /\ r.op \in {"start", "decide", "found", "stop"} /\ r \in RequestType
      /\ r.op = "found" => [receipts |-> r.receipts, bin |-> r.bin] \in Foundings
  BY OffersAreRequests DEF TypeInv
<1>2. /\ OthersKeep(s) /\ decisions' = decisions /\ seq' = seq /\ told' = told
      /\ req'[s] = r /\ index'[s] = 1 /\ pc[s] = "idle" /\ pc'[s] = FirstStep(r.op)
  BY DEF Begin, OthersKeep, Goto, tables, TypeInv, TypeOK
<1>3. req[s].op # "found"
  BY <1>2 DEF TypeInv, Registers, NoRequest
<1>4. r.op = "found" => FoundingSoFar(s)'
  <2> HAVE r.op = "found"
  <2>1. r.receipts \in Seq(ReceiptIds)
    BY <1>1, RequestFacts
  <2>2. \A i \in DOMAIN r.receipts : ~(i < 1)
    BY <2>1
  <2> QED BY <1>1, <1>2, <2>2 DEF FoundingSoFar, FirstStep
<1> QED BY <1>2, <1>3, <1>4, QuietKeepsFoundSafe

LEMMA OtherStepsKeepFoundSafe ==
  ASSUME FoundSafe, TypeInv', NEW s \in Sessions,
         \/ InsertHeader(s) \/ ReadReceipts(s) \/ RouteItem(s) \/ InsertReceipt(s)
         \/ ReadPlaced(s) \/ ReadWaveTime(s) \/ LookUpStop(s) \/ InsertStop(s)
  PROVE  FoundSafe'
<1> USE DEF FoundSafe
<1>1. CASE Fail(s)
  BY <1>1, RollbackKeepsFoundSafe DEF Fail
<1>2. req[s].op \in {"start", "stop"}
  BY DEF TypeInv, Registers, InsertHeader, ReadReceipts, RouteItem, InsertReceipt,
         NextItem, ReadPlaced, ReadWaveTime, LookUpStop, InsertStop
<1>3. ASSUME OthersKeep(s), decisions' = decisions, seq' = seq,
             req'[s] \in {req[s], NoRequest},
             \A t \in told' : t.op = "found" => t \in told
      PROVE  FoundSafe'
  <2>1. req'[s].op # "found"
    BY <1>2, <1>3 DEF NoRequest
  <2> QED BY <1>2, <1>3, <2>1, QuietKeepsFoundSafe
<1>4. CASE InsertHeader(s)
  BY <1>3, <1>4 DEF InsertHeader, OthersKeep, Goto, locals, TypeInv, TypeOK
<1>5. CASE ReadReceipts(s)
  BY <1>3, <1>5, LocalsTyped DEF ReadReceipts, Tell, tables, TypeInv
<1>6. CASE RouteItem(s)
  BY <1>3, <1>6 DEF RouteItem, OthersKeep, Goto, tables, TypeInv, TypeOK
<1>7. CASE InsertReceipt(s)
  BY <1>3, <1>7 DEF InsertReceipt, NextItem, OthersKeep, Goto, TypeInv, TypeOK
<1>8. CASE ReadPlaced(s) /\ ~Fail(s)
  BY <1>3, <1>8 DEF ReadPlaced, OthersKeep, Goto, tables, TypeInv, TypeOK
<1>9. CASE ReadWaveTime(s)
  BY <1>3, <1>9 DEF ReadWaveTime, OthersKeep, Goto, tables, TypeInv, TypeOK
<1>10. CASE LookUpStop(s) /\ ~Fail(s)
  <2>1. CASE Goto(s, "insert") /\ UNCHANGED <<tables, clock, locals, told, crashes>>
    BY <1>3, <2>1 DEF OthersKeep, Goto, tables, locals, TypeInv, TypeOK
  <2>2. CASE Tell(StopDone(s)) /\ Return(s) /\ UNCHANGED <<tables, clock, crashes>>
    BY <1>3, <2>2, LocalsTyped DEF Tell, StopDone, tables, TypeInv
  <2> QED BY <1>10, <2>1, <2>2 DEF LookUpStop
<1>11. CASE InsertStop(s) /\ ~Fail(s)
  BY <1>3, <1>11 DEF InsertStop, OthersKeep, Goto, locals, TypeInv, TypeOK
<1> QED BY <1>1, <1>4, <1>5, <1>6, <1>7, <1>8, <1>9, <1>10, <1>11

LEMMA StepKeepsFoundSafe == FoundSafe /\ [Next]_vars => FoundSafe'
<1> SUFFICES ASSUME FoundSafe, [Next]_vars PROVE FoundSafe'
  OBVIOUS
<1>1. TypeInv'
  BY StepKeepsTypeInv DEF FoundSafe
<1>2. CASE UNCHANGED vars
  <2>1. /\ decisions' = decisions /\ seq' = seq /\ req' = req /\ pc' = pc
        /\ index' = index /\ told' = told
    BY <1>2 DEF vars
  <2>2. \A t \in Sessions : FoundingSoFar(t)' <=> FoundingSoFar(t)
    BY <2>1 DEF FoundingSoFar, Visible
  <2>3. DecisionInv'
    BY <2>1, <2>2 DEF FoundSafe, DecisionInv
  <2> QED BY <1>1, <2>1, <2>3, FoundersKept DEF FoundSafe, Committed
<1>3. ASSUME NEW s \in Sessions, NEW r \in Requests, Begin(s, r) PROVE FoundSafe'
  BY <1>1, <1>3, BeginKeepsFoundSafe
<1>4. ASSUME NEW s \in Sessions, Step(s) PROVE FoundSafe'
  BY <1>1, <1>4, DecideKeepsFoundSafe, FoundKeepsFoundSafe, CommitKeepsFoundSafe,
     OtherStepsKeepFoundSafe DEF Step
<1>5. ASSUME NEW s \in Sessions, Crash(s) PROVE FoundSafe'
  BY <1>1, <1>5, RollbackKeepsFoundSafe DEF Crash
<1> QED BY <1>2, <1>3, <1>4, <1>5 DEF Next, Rest

LEMMA InitFoundSafe == Init => FoundSafe
BY InitTypeInv DEF FoundSafe, Init, DecisionInv, NoRequest, FoundersHaveProposals,
   ToldAreFounders, Founders, Committed

LEMMA AlwaysFoundSafe == Spec => []FoundSafe
BY InitFoundSafe, StepKeepsFoundSafe, PTL DEF Spec

(* The founders of a bin are those of whole proposals, whatever fails or   *)
(* is repeated between two of them (found_bin_from_cluster).               *)
THEOREM FoundingsWhole == Spec => []FoundingIsWhole
<1>1. FoundSafe => FoundingIsWhole
  BY WholeByElements DEF FoundSafe, TypeInv
<1> QED BY <1>1, AlwaysFoundSafe, PTL

(* A directive comes from a committed decision and carries its time and    *)
(* its place in the ledger.                                                *)
LEMMA DirectiveSource ==
  ASSUME NEW ds, NEW c \in Surviving(ds)
  PROVE  \E d \in ds :
           /\ c.at = d.at /\ c.seq = d.seq /\ c.item = d.item
           /\ \/ c.kind = "accept" /\ c.bin = d.selected
              \/ c.kind = "exclude" /\ c.bin = d.rec /\ c.bin # d.selected
<1>1. c \in Corrections(ds)
  BY DEF Surviving, GroupWinnersByIdentity, ResolveCorrections
<1>2. PICK d \in ds : c \in Directives(d)
  BY <1>1 DEF Corrections
<1> QED BY <1>2 DEF Directives

(* However the owner decided and re-decided, and in whatever order the     *)
(* decisions were made and appended, the router is told of one bin per     *)
(* item and never to take and refuse one item in one bin                   *)
(* (resolve_corrections, group_winners_by_identity).                       *)
THEOREM FeedbackOneBin == Spec => []FeedbackNamesOneBin
<1>1. FoundSafe => FeedbackNamesOneBin
  <2> SUFFICES ASSUME FoundSafe,
                      NEW c \in Surviving(Committed(decisions)),
                      NEW d \in Surviving(Committed(decisions)),
                      c.item = d.item
               PROVE  /\ c.kind = "accept" /\ d.kind = "accept" => c.bin = d.bin
                      /\ c.bin = d.bin => c.kind = d.kind
    BY DEF FeedbackNamesOneBin
  <2>1. PICK x \in Committed(decisions) :
          /\ c.at = x.at /\ c.seq = x.seq /\ c.item = x.item
          /\ \/ c.kind = "accept" /\ c.bin = x.selected
             \/ c.kind = "exclude" /\ c.bin = x.rec /\ c.bin # x.selected
    BY DirectiveSource
  <2>2. PICK y \in Committed(decisions) :
          /\ d.at = y.at /\ d.seq = y.seq /\ d.item = y.item
          /\ \/ d.kind = "accept" /\ d.bin = y.selected
             \/ d.kind = "exclude" /\ d.bin = y.rec /\ d.bin # y.selected
    BY DirectiveSource
  <2>3. /\ c.at \in Nat /\ c.seq \in Nat /\ d.at \in Nat /\ d.seq \in Nat
        /\ c.seq = d.seq => x = y
    BY <2>1, <2>2 DEF FoundSafe, DecisionInv, TypeInv, TypeOK, DecisionRows, Committed
  <2>4. ~Later(c, d) /\ ~Later(d, c) => x = y
    BY <2>3 DEF Later
  <2>5. c.kind = "accept" /\ d.kind = "accept" => c.bin = d.bin
    BY <2>1, <2>2, <2>4 DEF Surviving, GroupWinnersByIdentity
  <2>6. c.bin = d.bin => ~Later(c, d) /\ ~Later(d, c)
    BY DEF Surviving, GroupWinnersByIdentity, ResolveCorrections
  <2>7. c.bin = d.bin => c.kind = d.kind
    BY <2>1, <2>2, <2>4, <2>6
  <2> QED BY <2>5, <2>7
<1> QED BY <1>1, AlwaysFoundSafe, PTL

-------------------------------------------------------------------------------
(* What the router needs of the decisions and of the sessions.             *)
Refusals == {"reject", "not_an_item"}
RouterSafe == FoundSafe /\ RouterInv

(* A step of s that adds, settles or drops decisions of its own.           *)
LEMMA StepKeepsRouterInv ==
  ASSUME RouterSafe, TypeInv', NEW s \in Sessions, OthersKeep(s),
         \A d \in decisions' \ decisions :
           d.by \in {None, s} /\ (d.kind \in Refusals => d.selected = None),
         (\E d \in decisions' : d.by = s) => req'[s].op \in {"decide", "found"},
         req'[s].op = "decide" /\ req'[s].kind \in Refusals => req'[s].selected = None,
         pc'[s] # "receipt" => rec'[s] = None
  PROVE  RouterInv'
<1>1. \A d \in decisions' : d.by # None => req'[d.by].op \in {"decide", "found"}
  <2> SUFFICES ASSUME NEW d \in decisions', d.by # None, d.by # s
               PROVE  req'[d.by].op \in {"decide", "found"}
    OBVIOUS
  <2>1. d \in decisions /\ d.by \in Sessions \ {s}
    BY DEF TypeInv, TypeOK, DecisionRows
  <2> QED BY <2>1 DEF RouterSafe, RouterInv, OthersKeep
<1>2. \A d \in decisions' : d.kind \in Refusals => d.selected = None
  BY DEF RouterSafe, RouterInv, Refusals
<1>3. \A t \in Sessions :
        /\ req'[t].op = "decide" /\ req'[t].kind \in Refusals => req'[t].selected = None
        /\ pc'[t] # "receipt" => rec'[t] = None
  BY DEF RouterSafe, RouterInv, OthersKeep, Refusals
<1> QED BY <1>1, <1>2, <1>3 DEF RouterInv, Refusals

(* The deck offers a refusal without a bin.                                *)
LEMMA RefusalsSelectNone ==
  ASSUME NEW r \in Requests, r.op = "decide", r.kind \in Refusals
  PROVE  r.selected = None
<1>1. r \notin StartForms /\ r \notin QuorumForms /\ r \notin WaveForms
  BY DEF StartForms, QuorumForms, WaveForms
<1>2. PICK q \in Committed(receipts) : r \in DeckOffers(q)
  BY <1>1 DEF Requests, DeckForms
<1> QED BY <1>2 DEF DeckOffers, Refusals

LEMMA BeginKeepsRouterInv ==
  ASSUME RouterSafe, TypeInv', NEW s \in Sessions, NEW r \in Requests, Begin(s, r)
  PROVE  RouterInv'
<1>1. r.op \in {"start", "decide", "found", "stop"}
  BY OffersAreRequests DEF RouterSafe, FoundSafe, TypeInv
<1>2. /\ OthersKeep(s) /\ decisions' = decisions /\ rec' = rec
      /\ req'[s] = r /\ pc[s] = "idle" /\ pc'[s] = FirstStep(r.op)
  BY DEF Begin, OthersKeep, Goto, tables, RouterSafe, FoundSafe, TypeInv, TypeOK
<1>3. req[s].op = "none"
  BY <1>2 DEF RouterSafe, FoundSafe, TypeInv, Registers, NoRequest
<1>4. \A d \in decisions : d.by # s
  BY <1>3, StashAssumption DEF RouterSafe, RouterInv
<1>5. rec'[s] = None
  BY <1>2 DEF RouterSafe, RouterInv
<1> QED BY <1>2, <1>4, <1>5, RefusalsSelectNone, StepKeepsRouterInv

LEMMA RollbackKeepsRouterInv ==
  ASSUME RouterSafe, TypeInv', NEW s \in Sessions, Rollback(s)
  PROVE  RouterInv'
<1>1. OthersKeep(s) /\ req'[s] = NoRequest
  BY LocalsTyped DEF Rollback, RouterSafe, FoundSafe, TypeInv
<1>2. rec'[s] = None /\ decisions' = {e \in decisions : e.by # s}
  BY DEF Rollback, Return, RouterSafe, FoundSafe, TypeInv, TypeOK
<1> QED BY <1>1, <1>2, StepKeepsRouterInv DEF NoRequest

LEMMA CommitKeepsRouterInv ==
  ASSUME RouterSafe, TypeInv', NEW s \in Sessions, Commit(s)
  PROVE  RouterInv'
<1>1. OthersKeep(s) /\ req'[s] = NoRequest
  BY LocalsTyped DEF Commit, RouterSafe, FoundSafe, TypeInv
<1>2. rec'[s] = None /\ decisions' = Settle(decisions, s)
  BY DEF Commit, Return, RouterSafe, FoundSafe, TypeInv, TypeOK
<1>3. \A d \in decisions' :
        \/ d \in decisions /\ d.by # s
        \/ d.by = None /\ (d.kind \in Refusals => d.selected = None)
  <2> TAKE d \in decisions'
  <2>1. PICK e \in decisions : d = [e EXCEPT !.by = IF @ = s THEN None ELSE @]
    BY <1>2, SettleFacts
  <2>2. e \in DecisionRows /\ (e.kind \in Refusals => e.selected = None)
    BY DEF RouterSafe, FoundSafe, TypeInv, TypeOK, RouterInv, Refusals
  <2>3. CASE e.by = s
    BY <2>1, <2>2, <2>3 DEF DecisionRows
  <2>4. CASE e.by # s
    <3>1. d = e
      BY <2>1, <2>2, <2>4 DEF DecisionRows
    <3> QED BY <2>4, <3>1
  <2> QED BY <2>3, <2>4
<1>4. s # None
  BY StashAssumption
<1> QED BY <1>1, <1>2, <1>3, <1>4, StepKeepsRouterInv DEF NoRequest

LEMMA DecideKeepsRouterInv ==
  ASSUME RouterSafe, TypeInv', NEW s \in Sessions, Decide(s) \/ Found(s)
  PROVE  RouterInv'
<1> USE DEF RouterSafe, FoundSafe
<1>1. /\ req' = req /\ rec' = rec /\ pc[s] \in {"decide", "found"}
      /\ OthersKeep(s) /\ req[s].op \in {"decide", "found"}
  BY DEF Decide, Found, FoundNext, locals, Goto, OthersKeep, TypeInv, TypeOK, Registers
<1>2. rec'[s] = None
  BY <1>1 DEF RouterInv
<1>3. \A d \in decisions' \ decisions :
        d.by = s /\ (d.kind \in Refusals => d.selected = None)
  <2>1. CASE Decide(s)
    <3>1. req[s].op = "decide"
      BY <2>1 DEF Decide, TypeInv, Registers
    <3>2. \A d \in decisions' \ decisions :
            d.by = s /\ d.kind = req[s].kind /\ d.selected = req[s].selected
      BY <2>1, AppendFacts DEF Decide
    <3> QED BY <3>1, <3>2 DEF RouterInv, Refusals
  <2>2. CASE Found(s)
    <3>1. \A d \in decisions' \ decisions : d.by = s /\ d.kind = "create_new_bin"
      BY <2>2, AppendFacts DEF Found, FoundNext
    <3> QED BY <3>1 DEF Refusals
  <2> QED BY <2>1, <2>2
<1>4. req'[s].op = "decide" /\ req'[s].kind \in Refusals => req'[s].selected = None
  BY <1>1 DEF RouterInv, Refusals
<1> QED BY <1>1, <1>2, <1>3, <1>4, StepKeepsRouterInv

LEMMA OtherStepsKeepRouterInv ==
  ASSUME RouterSafe, TypeInv', NEW s \in Sessions,
         \/ InsertHeader(s) \/ ReadReceipts(s) \/ RouteItem(s) \/ InsertReceipt(s)
         \/ ReadPlaced(s) \/ ReadWaveTime(s) \/ LookUpStop(s) \/ InsertStop(s)
  PROVE  RouterInv'
<1> USE DEF RouterSafe, FoundSafe
<1>1. CASE Fail(s)
  BY <1>1, RollbackKeepsRouterInv DEF Fail
<1>2. req[s].op \in {"start", "stop"}
  BY DEF TypeInv, Registers, InsertHeader, ReadReceipts, RouteItem, InsertReceipt,
         NextItem, ReadPlaced, ReadWaveTime, LookUpStop, InsertStop
<1>3. \A d \in decisions : d.by # s
  BY <1>2, StashAssumption DEF RouterInv
<1>4. ASSUME OthersKeep(s), decisions' = decisions, req'[s] \in {req[s], NoRequest},
             pc'[s] # "receipt" => rec'[s] = None
      PROVE  RouterInv'
  <2>1. req'[s].op # "decide"
    BY <1>2, <1>4 DEF NoRequest
  <2> QED BY <1>3, <1>4, <2>1, StepKeepsRouterInv
<1>5. pc[s] # "receipt" => rec[s] = None
  BY DEF RouterInv
<1>6. ASSUME Return(s) PROVE rec'[s] = None
  BY <1>6 DEF Return, TypeInv, TypeOK
<1>7. CASE InsertHeader(s)
  BY <1>4, <1>5, <1>7 DEF InsertHeader, OthersKeep, Goto, locals, TypeInv, TypeOK
<1>8. CASE ReadReceipts(s)
  BY <1>4, <1>6, <1>8, LocalsTyped DEF ReadReceipts, Tell, tables, TypeInv
<1>9. CASE RouteItem(s)
  BY <1>4, <1>9 DEF RouteItem, OthersKeep, Goto, tables, TypeInv, TypeOK
<1>10. CASE InsertReceipt(s)
  BY <1>4, <1>10 DEF InsertReceipt, NextItem, OthersKeep, Goto, TypeInv, TypeOK
<1>11. CASE ReadPlaced(s) /\ ~Fail(s)
  BY <1>4, <1>5, <1>11 DEF ReadPlaced, OthersKeep, Goto, tables, TypeInv, TypeOK
<1>12. CASE ReadWaveTime(s)
  BY <1>4, <1>5, <1>12 DEF ReadWaveTime, OthersKeep, Goto, tables, TypeInv, TypeOK
<1>13. CASE LookUpStop(s) /\ ~Fail(s)
  <2>1. CASE Goto(s, "insert") /\ UNCHANGED <<tables, clock, locals, told, crashes>>
    BY <1>4, <1>5, <1>13, <2>1
       DEF LookUpStop, OthersKeep, Goto, tables, locals, TypeInv, TypeOK
  <2>2. CASE Tell(StopDone(s)) /\ Return(s) /\ UNCHANGED <<tables, clock, crashes>>
    BY <1>4, <1>6, <2>2, LocalsTyped DEF tables, TypeInv
  <2> QED BY <1>13, <2>1, <2>2 DEF LookUpStop
<1>14. CASE InsertStop(s) /\ ~Fail(s)
  BY <1>4, <1>5, <1>14 DEF InsertStop, OthersKeep, Goto, locals, TypeInv, TypeOK
<1> QED BY <1>1, <1>7, <1>8, <1>9, <1>10, <1>11, <1>12, <1>13, <1>14

LEMMA StepKeepsRouterSafe == RouterSafe /\ [Next]_vars => RouterSafe'
<1> SUFFICES ASSUME RouterSafe, [Next]_vars PROVE RouterSafe'
  OBVIOUS
<1>1. FoundSafe' /\ TypeInv'
  BY StepKeepsFoundSafe DEF RouterSafe, FoundSafe
<1>2. ASSUME UNCHANGED vars PROVE RouterInv'
  BY <1>2 DEF vars, RouterSafe, RouterInv
<1>3. ASSUME NEW s \in Sessions, NEW r \in Requests, Begin(s, r) PROVE RouterInv'
  BY <1>1, <1>3, BeginKeepsRouterInv
<1>4. ASSUME NEW s \in Sessions, Step(s) PROVE RouterInv'
  BY <1>1, <1>4, DecideKeepsRouterInv, CommitKeepsRouterInv, OtherStepsKeepRouterInv
     DEF Step
<1>5. ASSUME NEW s \in Sessions, Crash(s) PROVE RouterInv'
  BY <1>1, <1>5, RollbackKeepsRouterInv DEF Crash
<1> QED BY <1>1, <1>2, <1>3, <1>4, <1>5 DEF Next, Rest, RouterSafe

LEMMA InitRouterSafe == Init => RouterSafe
BY InitFoundSafe DEF RouterSafe, RouterInv, Init, NoRequest

LEMMA AlwaysRouterSafe == Spec => []RouterSafe
BY InitRouterSafe, StepKeepsRouterSafe, PTL DEF Spec

(* An item has as many words as it has.                                    *)
LEMMA ItemSharesItsWords ==
  ASSUME NEW item \in Items, Tokens[item] # {}
  PROVE  ExcludedTrait(item, item)
<1>1. Tokens[item] \cap Tokens[item] = Tokens[item]
  OBVIOUS
<1>2. Cardinality(Tokens[item]) \in Nat
  BY StashAssumption, FS_CardinalityType
<1> QED BY <1>1, <1>2 DEF ExcludedTrait

(* The owner's last word on an item and a bin puts the item in the bin, if *)
(* the bin is still viable for it.                                         *)
LEMMA LastWordStands ==
  ASSUME RouterSafe, NEW item \in Items, NEW b \in Bins, Tokens[item] # {},
         b \in Viable(item, Committed(decisions)),
         NEW d \in LastWord(item, b, Committed(decisions))
  PROVE  d.kind \in Placing /\ d.selected = b
<1> DEFINE ds == Committed(decisions)
<1>1. /\ d \in ds /\ d \in DecisionRows /\ d.item = item
      /\ d.selected = b \/ (d.kind \in {"override", "reject"} /\ d.rec = b)
      /\ \A e \in ds : Concerns(e, item, b) => ~Later(e, d)
  BY DEF LastWord, Concerns, Committed, RouterSafe, FoundSafe, TypeInv, TypeOK
<1>2. b # None /\ b \in Codes
  BY StashAssumption DEF Codes
<1>3. CASE d.selected = b
  <2>1. d.kind \notin Refusals
    BY <1>1, <1>2, <1>3 DEF RouterSafe, RouterInv, Refusals, Committed
  <2> QED BY <1>1, <1>3, <2>1 DEF DecisionRows, DecisionKinds, Refusals
<1>4. CASE d.selected # b
  <2> DEFINE c == [kind |-> "exclude", bin |-> b, item |-> item, at |-> d.at,
                   seq |-> d.seq]
  <2>1. c.kind = "exclude" /\ c.bin = b /\ c.item = item /\ c.at = d.at /\ c.seq = d.seq
    OBVIOUS
  <2>2. d.kind \in {"override", "reject"} /\ d.rec = b
    BY <1>1, <1>4
  <2>3. c \in Directives(d)
    BY <1>1, <1>2, <1>4, <2>2 DEF Directives
  <2>4. c \in Corrections(ds)
    BY <1>1, <2>3 DEF Corrections
  <2> HIDE DEF c, ds
  <2>5. ASSUME NEW e \in Corrections(ds), e.item = item, e.bin = b
        PROVE  ~Later(e, c)
    <3>1. PICK x \in ds : e \in Directives(x)
      BY DEF Corrections
    <3>2. /\ e.at = x.at /\ e.seq = x.seq /\ x.item = item
          /\ \/ b = x.selected
             \/ x.kind \in {"override", "reject"} /\ b = x.rec
      BY <2>5, <3>1 DEF Directives
    <3>3. ~Later(x, d)
      BY <1>1, <3>2 DEF Concerns, ds
    <3> QED BY <2>1, <3>2, <3>3 DEF Later
  <2>6. c \in ResolveCorrections(Corrections(ds))
    BY <2>1, <2>4, <2>5 DEF ResolveCorrections
  <2>7. c \in Surviving(ds)
    BY <2>1, <2>6 DEF Surviving, GroupWinnersByIdentity
  <2>8. ExcludedTrait(item, c.item)
    BY <2>1, ItemSharesItsWords
  <2>9. b \notin Viable(item, ds)
    BY <2>1, <2>7, <2>8 DEF Viable
  <2> QED BY <2>9 DEF ds
<1> QED BY <1>3, <1>4

(* No item is routed to a bin out of which the owner's last word on the    *)
(* two put it, whatever was decided, founded or rolled back in the         *)
(* meantime (load_placement_corrections, bin_route).                       *)
THEOREM OverruledStaysOut == Spec => OverruledNeverReturns
<1> DEFINE Says == \A s \in Sessions :
       pc[s] = "route" /\ rec'[s] # None =>
         LET item == req[s].items[index[s]] IN
         \A d \in LastWord(item, rec'[s], Committed(decisions)) :
           d.kind \in Placing /\ d.selected = rec'[s]
<1>1. RouterSafe /\ [Next]_vars => [Says]_vars
  <2> SUFFICES ASSUME RouterSafe, [Next]_vars, NEW s \in Sessions,
                      pc[s] = "route", rec'[s] # None,
                      NEW d \in LastWord(req[s].items[index[s]], rec'[s], Committed(decisions))
               PROVE  d.kind \in Placing /\ d.selected = rec'[s]
    BY DEF Says
  <2> USE DEF RouterSafe, FoundSafe
  <2>1. rec[s] = None
    BY DEF RouterInv
  <2>2. ~(UNCHANGED rec)
    BY <2>1
  <2>3. rec'[s] # rec[s] => RouteItem(s)
    <3>1. \A t \in Sessions, r \in Requests : ~Begin(t, r)
      BY <2>2 DEF Begin
    <3>2. ASSUME NEW t \in Sessions, t # s, Step(t) \/ Crash(t)
          PROVE  FALSE
      <4>1. rec'[s] = rec[s]
        BY <3>2 DEF Step, Crash, Rollback, Fail, Return, InsertHeader, ReadReceipts,
             RouteItem, InsertReceipt, NextItem, Decide, Found, FoundNext, ReadPlaced,
             ReadWaveTime, LookUpStop, InsertStop, Commit, locals, TypeInv, TypeOK
      <4> QED BY <2>1, <4>1
    <3>3. ~Crash(s)
      BY DEF Crash, Rollback, Return, TypeInv, TypeOK
    <3>4. Step(s)
      BY <2>2, <3>1, <3>2, <3>3 DEF Next, Rest, vars
    <3> QED BY <3>4 DEF Step, InsertHeader, ReadReceipts, InsertReceipt, Decide, Found,
               FoundNext, ReadPlaced, ReadWaveTime, LookUpStop, InsertStop, Commit
  <2>4. RouteItem(s)
    BY <2>1, <2>3
  <2> DEFINE item == req[s].items[index[s]]
  <2>5. req[s].op = "start" /\ index[s] \in DOMAIN req[s].items
    BY DEF TypeInv, Registers
  <2>6. item \in Items
    <3>1. req[s].items \in Seq(Items)
      BY <2>5, RequestFacts DEF TypeInv, TypeOK, Batches
    <3> QED BY <2>5, <3>1
  <2>7. Visible(decisions, s) = Committed(decisions)
    BY <2>5 DEF RouterInv, Visible, Committed
  <2>8. rec'[s] \in Recommendations(item, Committed(decisions))
    BY <2>4, <2>7 DEF RouteItem, TypeInv, TypeOK
  <2>9. rec'[s] \in Viable(item, Committed(decisions)) /\ Tokens[item] # {}
    BY <2>8 DEF Recommendations
  <2>10. rec'[s] \in Bins
    BY <2>9 DEF Viable
  <2> HIDE DEF item
  <2> QED BY <2>6, <2>9, <2>10, LastWordStands DEF item
<1> QED BY <1>1, AlwaysRouterSafe, PTL DEF Spec, OverruledNeverReturns

(* The inductive invariant of the tables, the registers and the answers.   *)
THEOREM StashInvariance == Spec => []IInv
<1>1. RunInv /\ StopSafe /\ RouterSafe => IInv
  BY WholeByElements DEF RunInv, StopSafe, RouterSafe, FoundSafe, IInv, TypeInv
<1>2. Spec => []RunInv
  BY InitRunInv, StepKeepsRunInv, PTL DEF Spec
<1>3. Spec => []StopSafe
  BY InitStopSafe, StepKeepsStopSafe, PTL DEF Spec
<1> QED BY <1>1, <1>2, <1>3, AlwaysRouterSafe, PTL
=================================================================================
