----------------------------- MODULE OwnerSignals -----------------------------
(***************************************************************************)
(* What the owner's device tells the program: where the owner is           *)
(* (bin_presence.py) and what to do at the next visit of a site            *)
(* (bin_orders.py).  Both are append-only tables with an external id, that *)
(* fold to a current answer when they are read; bin_sweep.py sweeps only   *)
(* the site the owner is at.                                               *)
(*                                                                         *)
(* The device stamps every event and sends it until it is answered: what   *)
(* it sent may arrive late, again, and after what it sent later.           *)
(***************************************************************************)
EXTENDS Integers, FiniteSets

CONSTANTS Sites, Orders, None,
          Keyed,       \* the kinds of events the device gives an idempotency key
          Window,      \* BIN_PRESENCE_WINDOW_SECONDS
          MaxClock,    \* bound: instants
          MaxEvents    \* bound: events sent

(* What is assumed of the constants, and checked of every instance.          *)
SignalsAssumption ==
  /\ None \notin Sites
  /\ Sites \cap Orders = {}
  /\ Keyed \subseteq {"arrive", "dwell", "depart", "create", "clear"}
  /\ {Window, MaxClock, MaxEvents} \subseteq Nat

VARIABLES clock,
          owner,      \* the site the owner is at, or None: not known to the program
          asked,      \* per order, what the owner last asked for
          sent,       \* the events sent, each at an instant of its own
          presence,   \* bin_presence_events
          orders      \* bin_resting_order_events

vars == <<clock, owner, asked, sent, presence, orders>>

PresenceKinds == {"arrive", "dwell", "depart"}
OrderKinds    == {"create", "clear"}

Recorded(rows, m) == \E e \in rows : e.id = m.id

Init ==
  /\ clock = 1 /\ owner = None /\ asked = [o \in Orders |-> "none"]
  /\ sent = {} /\ presence = {} /\ orders = {}

-------------------------------------------------------------------------------
(* The external id: an idempotency key where the device has one, the kind, *)
(* the subject and the instant where it has none.                          *)
ExternalId(kind, about) ==
  IF kind \in Keyed THEN <<"key", clock>> ELSE <<kind, about, clock>>

Send(kind, about, site) ==
  /\ Cardinality(sent) < MaxEvents /\ clock < MaxClock
  /\ sent' = sent \cup {[id |-> ExternalId(kind, about), kind |-> kind,
                         about |-> about, site |-> site, at |-> clock]}
  /\ clock' = clock + 1
  /\ UNCHANGED <<presence, orders>>

Arrive(s) ==
  /\ owner = None /\ owner' = s
  /\ Send("arrive", s, s) /\ UNCHANGED asked

Dwell(s) ==
  /\ owner = s
  /\ Send("dwell", s, s) /\ UNCHANGED <<owner, asked>>

Depart(s) ==
  /\ owner = s /\ owner' = None
  /\ Send("depart", s, s) /\ UNCHANGED asked

(* create_resting_order "creates or reopens".                              *)
CreateRestingOrder(o, s) ==
  /\ asked' = [asked EXCEPT ![o] = "create"]
  /\ Send("create", o, s) /\ UNCHANGED owner

ClearRestingOrder(o) ==
  /\ asked[o] = "create"
  /\ asked' = [asked EXCEPT ![o] = "clear"]
  /\ Send("clear", o, None) /\ UNCHANGED owner

Tick ==
  /\ clock < MaxClock /\ clock' = clock + 1
  /\ UNCHANGED <<owner, asked, sent, presence, orders>>

-------------------------------------------------------------------------------
RowOf(rows, m) == [seq |-> Cardinality(rows) + 1, id |-> m.id, kind |-> m.kind,
                   about |-> m.about, site |-> m.site, at |-> m.at]

(* Slip: an insert without its ON CONFLICT DO NOTHING.                      *)
AppendAgain(rows, m) == rows \cup {RowOf(rows, m)}

(* The insert ON CONFLICT (external_id) DO NOTHING of both tables.         *)
AppendOnce(rows, m) ==
  IF Recorded(rows, m) THEN rows ELSE rows \cup {RowOf(rows, m)}

(* record_presence_event                                                   *)
RecordPresenceEvent(m) ==
  /\ m.kind \in PresenceKinds
  /\ presence' = AppendOnce(presence, m)
  /\ UNCHANGED <<clock, owner, asked, sent, orders>>

(* record_order_event: only a create carries a site.                       *)
RecordOrderEvent(m) ==
  /\ m.kind \in OrderKinds
  /\ orders' = AppendOnce(orders, m)
  /\ UNCHANGED <<clock, owner, asked, sent, presence>>

-------------------------------------------------------------------------------
(* Slip: the presence that was recorded last counts.                        *)
LatestRecorded(rows, e) == \A f \in rows : f.seq <= e.seq

(* fold_presence goes by occurred_at, then seq.                            *)
Latest(rows, e) ==
  \A f \in rows : f.at < e.at \/ (f.at = e.at /\ f.seq <= e.seq)

(* presence_recency, as a fraction of Window.                              *)
Recency(e, now) ==
  IF e.kind = "depart" \/ now - e.at >= Window THEN 0 ELSE Window - (now - e.at)

Nowhere(status) == [status |-> status, site |-> None]

FoldPresence(rows, now) ==
  IF rows = {} THEN Nowhere("unknown")
  ELSE LET e == CHOOSE x \in rows : Latest(rows, x) IN
       CASE e.kind = "depart"                       -> Nowhere("absent")
         [] e.kind # "depart" /\ Recency(e, now) = 0 -> Nowhere("stale")
         [] OTHER                                   -> [status |-> "present", site |-> e.site]

(* The site bin_sweep sweeps; a site the caller names must be that one.    *)
SweptSite(rows, named, now) ==
  LET here == FoldPresence(rows, now).site IN
  IF named \in {None, here} THEN here ELSE None

(* fold_orders goes by seq: the last row of an order says whether it is    *)
(* active, its last create where.                                          *)
OfOrder(rows, o) == {e \in rows : e.about = o}
LastOf(rows) == CHOOSE e \in rows : \A f \in rows : f.seq <= e.seq
Creates(rows) == {e \in rows : e.kind = "create"}

FoldOrder(rows, o) ==
  LET own == OfOrder(rows, o) IN
  IF own = {} THEN [active |-> FALSE, site |-> None]
  ELSE [active |-> LastOf(own).kind = "create",
        site   |-> IF Creates(own) = {} THEN None ELSE LastOf(Creates(own)).site]

(* list_resting_orders of one site                                         *)
RestingAt(rows, s) ==
  {o \in Orders : FoldOrder(rows, o).active /\ FoldOrder(rows, o).site = s}

-------------------------------------------------------------------------------
Deliver == \E m \in sent : RecordPresenceEvent(m) \/ RecordOrderEvent(m)

Rest == clock = MaxClock /\ UNCHANGED vars

Next ==
  \/ \E s \in Sites : Arrive(s) \/ Dwell(s) \/ Depart(s)
  \/ \E o \in Orders, s \in Sites : CreateRestingOrder(o, s)
  \/ \E o \in Orders : ClearRestingOrder(o)
  \/ Tick
  \/ Deliver
  \/ Rest

Spec == Init /\ [][Next]_vars

-------------------------------------------------------------------------------
Sent(kinds) == {m \in sent : m.kind \in kinds}
Heard == \E m \in Sent(PresenceKinds) : clock - m.at < Window

(* The inductive invariant of the properties below.  Of what was sent,     *)
(* every event has an instant and an id of its own; the owner is where the *)
(* newest of the presence events says, and last asked of an order what the *)
(* newest of its events says.  A row holds one event, once.                *)
SentInv ==
  /\ clock \in Nat
  /\ \A m \in sent :
       /\ m.at \in Nat /\ m.at < clock
       /\ m.id = <<"key", m.at>> \/ m.id = <<m.kind, m.about, m.at>>
       /\ \A n \in sent : n.at = m.at => n = m

Newest(m) == m \in Sent(PresenceKinds) /\ \A n \in Sent(PresenceKinds) : n.at <= m.at

OwnerInv ==
  /\ Sent(PresenceKinds) = {} => owner = None
  /\ Sent(PresenceKinds) # {} => \E m \in sent : Newest(m)
  /\ \A m \in sent : Newest(m) => \/ m.kind = "depart" /\ owner = None
                                  \/ m.kind # "depart" /\ owner = m.site /\ m.site \in Sites

PresenceInv ==
  /\ IsFiniteSet(presence)
  /\ \A e \in presence :
       /\ e.seq \in Nat
       /\ \E m \in Sent(PresenceKinds) :
            e.id = m.id /\ e.kind = m.kind /\ e.site = m.site /\ e.at = m.at
       /\ \A f \in presence : f.id = e.id => f = e

AskedInv ==
  /\ asked \in [Orders -> OrderKinds \cup {"none"}]
  /\ \A o \in Orders :
       IF asked[o] = "none" THEN \A m \in sent : m.about # o
       ELSE \E m \in sent : /\ m.about = o /\ m.kind = asked[o]
                            /\ \A n \in sent : n.about = o => n.at <= m.at

OrderInv ==
  /\ IsFiniteSet(orders)
  /\ \A e \in orders :
       /\ e.seq \in 1..Cardinality(orders)
       /\ \E m \in sent : /\ e.id = m.id /\ e.kind = m.kind /\ e.about = m.about
                          /\ e.site = m.site /\ e.at = m.at
       /\ \A f \in orders : f.id = e.id \/ f.seq = e.seq => f = e

SignalsInv == SentInv /\ OwnerInv /\ PresenceInv /\ AskedInv /\ OrderInv

(* Once everything the device sent has arrived, in whatever order and      *)
(* however often, presence is where the owner is, or stale when the device *)
(* has been silent for the window; and a sweep is of that site only.       *)
ArrivedMeansCurrent ==
  (\A m \in Sent(PresenceKinds) : Recorded(presence, m)) =>
    /\ FoldPresence(presence, clock) =
         CASE owner # None /\ Heard        -> [status |-> "present", site |-> owner]
           [] owner # None /\ ~Heard       -> Nowhere("stale")
           [] owner = None /\ Sent(PresenceKinds) # {} -> Nowhere("absent")
           [] OTHER                        -> Nowhere("unknown")
    /\ \A named \in Sites \cup {None} : SweptSite(presence, named, clock) \in {None, owner}

(* The first copies of an order's events arrived in the order they were    *)
(* sent; second copies come whenever they come.                            *)
FirstCopy(rows, e) == \A f \in rows : f.id = e.id => e.seq <= f.seq

ArrivedInOrder(o) ==
  \A e, f \in OfOrder(orders, o) :
    FirstCopy(orders, e) /\ FirstCopy(orders, f) /\ e.at < f.at => e.seq < f.seq

NewestArrived(o, m) ==
  /\ m.about = o /\ Recorded(orders, m)
  /\ \A n \in sent : n.about = o /\ Recorded(orders, n) => n.at <= m.at

(* A standing order is what the newest event that arrived says, whatever   *)
(* copies of older ones are still under way: a create that is sent again   *)
(* and arrives after the clear does not reopen the order, nor does one for *)
(* the old site move it back.  Once all of it has arrived, the order is    *)
(* active just when the owner last asked for it.  The fold goes by         *)
(* arrival, so this is for first copies that arrived in order.             *)
OrdersFollowTheOwner ==
  \A o \in Orders : ArrivedInOrder(o) =>
    /\ \A m \in sent, s \in Sites : NewestArrived(o, m) =>
         (o \in RestingAt(orders, s) <=> m.kind = "create" /\ m.site = s)
    /\ (\A m \in sent : m.about = o => Recorded(orders, m)) =>
         (FoldOrder(orders, o).active <=> asked[o] = "create")
===============================================================================
