# A verification project for BinKeeper

BinKeeper keeps track of physical storage bins: which exist, what is in them, at
which site they are, inside which other bin, and on which trip. Nothing about a
bin is an editable cell. Every fact is a row of an append-only ledger in
PostgreSQL, and every answer is a fold over rows. The CLI, the MCP server, the
web service and timer-driven harvesters write these ledgers concurrently, each
on a database connection of its own.

This directory holds TLA+ models of that program, TLC configurations that check
them on small instances, and proofs that TLAPS checks for all instances.

## The system

| Part | State | Operations | Hard because |
|---|---|---|---|
| Move and trip ledger (`bin_inventory.py`) | `bin_trip_events` | `record_event`, `arrive_all`; folds `fold_bin_location`, `trip_checksum` | replays race with moves; a checksum is worked through after it was read; commits come out of identity order |
| Bin containment (`bin_nesting.py`) | `bin_containment_events` | `record_bin_containment` (pack, unpack); fold `fold_bin_containment`, `path_for` | the fold raises on a bad row and the ledger cannot be corrected; two ledgers written in one transaction; one advisory lock |
| Management actions (`bin_manage.py`, `bin_photo_web/manage.py`) | captures and move events | profile, photo, placement, label print, containment, retrieval | forms are submitted twice, late, and with other contents; a print can neither be undone nor asked whether it happened |
| Registration and quick labels (`bin_register.py`, `bin_quick_label.py`, `personal_memory.py`) | captures, move events | register a bin, assign the next code, print its label | two rows that belong together, two locks, a print after the commit |
| Belief and observations (`bin_inventory.py`), harvesters (`bin_harvest.py`, `bin_ocr_harvest.py`) | `location_observations` | record, adjudicate, learn reliability; two passes over the photos | photos are weeks old when they are read; passes overlap and are killed; what a source is worth is computed at read time |
| Label drift (`bin_label_drift.py`, `bin_passport.py`) | proposals and dismissals among the captures | nightly pass, review, dismiss; folds of the passport and the queue | proposals recur, expire and race with what the owner saves |
| Resting orders and presence (`bin_orders.py`, `bin_presence.py`, `bin_sweep.py`) | two event ledgers | create, clear, arrive, dwell, depart, sweep | a device's events come late, twice and out of order |
| Stash runs (`bin_stash.py`, `bin_photo_web/stash.py`) | run headers, receipts, decisions, stop captures | record a run, decide, found a bin, complete stops | header committed before items; loops of inserts; a stop read in three statements; stale decks |
| Placement (`bin_placement.py`, `bin_placement_feedback.py`, `bin_route.py`, `bin_priority.py`) | requests and decisions | route, decide, learn; rank bins to look at | decisions about one item contradict each other and tie in time |
| Blob vault (`blob_vault.py`) | object store and rows | put, open | two stores that fail separately; an object is replaced in place |
| Backup and restore (`backup.py`, `restore_drill.py`) | signed directories | create, check freshness, restore | a snapshot and copies taken one after the other while photos are added |
| Transfer and writer freeze (`transfer.py`, `write_authority.py`) | snapshot files, a gate | export, stage, import, compare, open the gate | a staged protocol that a person runs and runs again |
| Read-only projections (catalog, search, virtual bins, geo, volume) | none | folds | none of their own |
| Vision, label rendering, printing, web shell | devices, templates | I/O | outside TLC's reach |

Components interact in three ways: they call each other inside one transaction
(an unpack calls `record_event`, a quick label calls `register_bin`); they read
each other's ledgers (a move reads the containment graph, a pack reads
locations, a placement reads which bins are known); and they serialise on
PostgreSQL advisory locks and unique indexes.

What must be true, part by part:

* **Containment.** The ledger always folds; the graph is a forest; a contained
  bin is never moved directly; pack and unpack are atomic with what they imply.
* **Moves and trips.** A replay is answered with its record and never with
  another one; clearing a trip leaves no bin of its checksum unaccounted; the
  location a reader folds changes only as an answered call says.
* **Registration.** Every registration on file has its placement; no two quick
  labels share a code and no request id has two; a label names a bin on file and
  is printed at most once per registration; a replay is told the truth.
* **Stash runs and placement.** A run has all of its receipts or none; a founding
  is whole; a stop that was reported is on file with its items; the router is
  told of one bin per item and does not come back to a bin the owner overruled.
* **Belief and harvests.** A photo is evidence once, however many passes read it;
  its verdict is what the program served when it was taken, unless the owner
  dates a move across it; a pass shakes confidence and never relocates a bin.
* **Label review.** What the owner dismissed stays down while no photo is filed twice; a print form makes one
  attempt, on record before it is made.
* **Orders and presence.** Once everything sent has arrived the answers are
  current: presence in whatever order it came, an order when first copies came in
  order; no repeated event undoes a newer one.
* **Vault and backups.** Whatever a capture links opens, unless a put that
  outlived its transaction landed on it; a backup that counts as fresh restores
  and misses nothing it should hold.
* **Transfer.** A database has the photo row of every capture imported into it,
  the photos of what was staged last open, and the gate opens on all of it.

## Modules

| Module | Models | Composes |
|---|---|---|
| `BinNesting` | the containment ledger as a set of rows: parent, path, location source, and when the fold raises | |
| `NestingFold` | the program's fold and walk, one row and one container at a time, which `BinNesting` defines the outcome of | `BinNesting` |
| `TripLedger` | the kinds of move events, the location fold, the trip checksum, known bins | `BinNesting` |
| `InventoryLedger` | both ledgers under concurrent sessions, statement by statement | `TripLedger`, `InventoryForest` |
| `InventoryForest` | the promise: locations and a forest, no ledgers | |
| `Registration` | `register_bin` from the pages and from quick labels, the capture ledger, code assignment, the label queue | `CodeBook` |
| `CodeBook` | the promise of quick labels: one code per request id, one label at most | |
| `PlacementFeedback` | how decisions become directives to the router, which of them survive, and what the router may then recommend | |
| `StashRuns` | runs, receipts, decisions, foundings and wave stops under concurrent sessions | `PlacementFeedback` |
| `BeliefFold` | confidence, half-life, shocks, verdicts, the reliability of a source, and which bins a sweep names | `TripLedger` |
| `LocationBelief` | the two harvester passes, statement by statement, beside an owner who moves, packs, misses and photographs | `BeliefFold` |
| `PassportFold` | theme, home site, contents and photos of a bin, folded from its captures | |
| `LabelReview` | the management page's forms, the nightly pass, the queue of its proposals, and the reserved print | `PassportFold` |
| `OwnerSignals` | presence and standing orders, from the device to the fold and the sweep | |
| `PhotoVault` | object store, rows, captures and backups, under two writers that fail | |
| `EvidenceTransfer` | export, staging, import, rehearsal and the writer gate | |
| `MCInventoryLedger`, `MCRegistration`, `MCStashRuns`, `MCLocationBelief` | instances for TLC: bins, sites, and what clients may ask | |
| `MCLedgers` | the ledgers with clients of one kind, chosen at the start, or the fold alone | `MCInventoryLedger`, `NestingFold` |
| `MCAnswers`, `MCRegistrations` | clients of one kind, chosen at the start | `MCInventoryLedger`, `MCRegistration` |
| `ReviewedLabels` | the review under names of its own, to stand beside other parts | `LabelReview` |
| `MCLabels` | the two ways a label comes about | `MCRegistrations`, `ReviewedLabels` |
| `EvidenceParts` | the vault, the owner's signals and the transfer, which share no state | `PhotoVault`, `OwnerSignals`, `EvidenceTransfer` |
| `MCEvidence` | small instances of these | `EvidenceParts` |
| `InventoryLedger_proofs`, `InventoryPromises_proofs`, `InventoryForest_proofs`, `Registration_proofs`, `StashRuns_proofs`, `LocationBelief_proofs`, `PhotoVault_proofs`, `Evidence_proofs` | theorems | the modules they are about; `Evidence_proofs` on `EvidenceParts` and `ReviewedLabels` |

`MCLabels` and `MCEvidence` choose one part at the start of a behaviour and leave
the variables of the others alone: the parts share no table, so their product
would only multiply states. An operator whose comment begins with "Slip" is not
part of a model: it is the form a plausible mistake would give the definition
after it, kept so that each property can be shown to notice one.

### How `InventoryLedger` corresponds to the code

`trips` and `nest` are the two tables as sets of rows. A row carries `by`, the
session whose open transaction wrote it, or `None` once it is committed; a
statement of session `s` sees `Visible(table, s)`, which is READ COMMITTED.
`tripSeq` and `nestSeq` are the identity columns: drawn at the insert, not at
the commit. `lock` is the holder of the advisory lock of `_lock_scope`, released
when its transaction ends. `pc[s]` is the statement session `s` executes next;
`req`, `ev`, `seen`, `plan` and `done` are the locals of its call.

| Actions | Code |
|---|---|
| `Begin` | the entry of a call and the checks made before the database is touched (`validate_event`, `_prepare_append`) |
| `ReadPrior`, `AcquireLock`, `CheckTopLevel`, `InsertEvent`, `ReplayEvent` | `record_event`, with `require_top_level_for_move` |
| `VerifyPlacement` | `place_existing_bin` before its `record_event`; its second check is in `ReplayEvent` |
| `ReadChecksum`, `NextArrival` | `arrive_all` |
| `AcquireLock`, `Validate`, `ReadChild`, `AppendContainment` | `record_bin_containment`; an unpack goes on with `record_event` |
| `Commit`, `Refuse`, `Crash` | the end of the transaction, by commit, by an exception of the program, by loss of the connection |

A statement is a step of its own when another session can change what it reads
or see what it writes. `Validate` joins the lookup of the key, the graph and the
container's location: containment rows cannot change under the lock, and the
child's location, which is compared with the container's, is `ReadChild`.
Requests are repeatable, so retries, double submissions and reuse of a key with
other contents are all behaviours. `arrive_all` records its bins in the order
they were loaded; the model leaves the order open because they become visible
together. Explicit idempotency keys are modelled; the content hash used without
one behaves like a key the client chose. Every key of the program carries the
prefix its caller gives it. `Home` is where earlier history left each bin.

`BinNesting` says what the fold of a ledger and a walk up its graph come to; the
ledgers use these definitions, because a transaction reads them off one snapshot.
`NestingFold` has the loops: `ReadPack` and `ReadUnpack` are a turn of the loop of
`fold_bin_containment`, `Climb`, `MeetAgain` and `Arrive` a turn of that of
`path_for`, which the fold calls after each pack and any caller (`AskPath`) on the
graph of the rows so far. It shares no state with the ledgers.

### How `Registration` corresponds to the code

`captures` holds the registrations of `capture_evidence`, `places` the `place`
rows of `bin_trip_events`; both carry `by` as above. `lock` has one lock per
request id, one per code prefix, and the containment lock of the move ledger.
`day` is the UTC date, which is part of the idempotency key. `jobs` is what was
handed to the printer and `told` what clients were answered.

| Actions | Code |
|---|---|
| `Begin` | a page is submitted: `_register_and_view` goes to `register_bin`, the quick-label form to `create_quick_label` |
| `ClaimAction`, `LookUpAction` | the first lock of `create_quick_label` and the search for its request id |
| `LockPrefix`, `AssignCode` | the second lock, `load_known_bin_codes` with `_next_code`, and `make_label_job` |
| `SelectCapture`, `InsertCapture` | `PersonalMemoryService.capture`, and what `register_bin` returns for an existing row |
| `LockLedger`, `PlaceBin` | `record_event` of the placement |
| `Commit`, `PrintLabel` | the end of the connection's transaction, then `send_label_job` |
| `Crash`, `Move`, `Midnight` | a lost connection, a placement by another surface, the date |

`connect()` opens a transaction, so capture and placement commit together. A
code is a pair of its site and its number, because each site has one prefix;
details (theme, contents, printer, copies) are one value, compared as a whole.
The placement skips the lookup of `record_event`: its key is the capture's, and
`RegisteredIsPlaced` shows that no placement has it. An existing capture always
differs in its timestamp, and `register_bin` treats the conflict like a replay.

### How `StashRuns` corresponds to the code

`runs`, `receipts` and `decisions` are `stash_runs`, `bin_routing_requests` and
`bin_placement_decisions`; `stops` is the part of `capture_evidence` that
`complete_wave_stop` writes. `seq` is the identity column of the decisions, which
orders them for the wave plan; their time `at` orders them for the router. A
request keeps the time it was received at, a founding decision the time it is
made, so the two orders differ.

| Actions | Code |
|---|---|
| `Begin` | a form of the start page, the deck, the quorum page or the wave page |
| `InsertHeader`, `ReadReceipts` | `record_stash_run` up to the header, and `_existing_stash_run` |
| `RouteItem`, `InsertReceipt` | `record_text_routing_request` for one item: load the feedback, route, insert |
| `Decide` | `record_placement_decision` |
| `Found` | one turn of the loop of `found_bin_from_cluster` |
| `ReadPlaced`, `ReadWaveTime`, `LookUpStop`, `InsertStop` | `complete_wave_stop`: `_placed_items`, `_stable_wave_time`, `capture` |
| `Commit`, `Fail`, `Crash` | the end of the connection's transaction |

The header is inserted in a transaction block on an idle connection, so the block
commits it; every later block of the call is a savepoint inside the transaction
that the reading of the feedback has opened. That is why `runs` has no `by` and
the receipts do. A receipt is named by its run and its position, as its
idempotency key is. A decision's key is the action id the page gives the button,
which `SameAction` states by what goes into it.

The scores by which the router chooses are arithmetic over text features:
`Recommendations` abstains or picks any bin that the hard filter on excluded
traits leaves, for which an item is its set of tokens. The quorum page's
similarity clusters are inputs, over receipts without a recommendation that
were orphans when the page was drawn.

### How `LocationBelief` corresponds to the code

`trips` and `obs` are `bin_trip_events` and `location_observations`, with each
row's occurred_at. The owner's calls are atomic here, since `InventoryLedger` has
them statement by statement; a pass is not.

| Actions | Code |
|---|---|
| `Place`, `Load`, `Verify`, `Pack`, `Unpack` | `record_event` and `record_bin_containment`, with their guards |
| `Photograph` | a capture with the bin's label, other labels in view and a fix of the phone |
| `StartPass` | `harvest_photo_gps`, `harvest_peripheral_ocr` up to their loops: the captures, and whether the source has earned trust, are read once |
| `Observe`, `Unread` | `record_observation` of one capture and code; a photo that does not open or shows no code this time |
| `Compare`, `EmitShock` | `bin_where`, `observation_contradicts`, and the `contradict` event |
| `CommitPass`, `KillPass` | the GPS pass is one transaction, the OCR pass commits every statement |

No command of the repository runs `harvest_photo_gps` yet; it is modelled on the
transaction that `connect()` opens by default, with contradictions enabled, which
is the harder case. The OCR pass is run with autocommit (`cli.py`).

Confidence is in thousandths and halves at whole half-lives, so the exponential
is sampled where it is exact; quotients are rounded down. A `contradict` row has
the time of the photo and the newest identity value: that difference is what
`HarvestNeverRelocates` and `AsOfIsWhatWasServed` are about. `served`, `packed`
and `upTo` in a photo record what `bin_where` answered, and from which rows, when
it was taken; only the property reads them. A packed bin is excepted, because
`as_of_site` reads the move ledger alone.

A row of the owner carries the present or any of `Dates`: the commands take
`--occurred-at`, and `record_event` reads the time it falls back to before it
waits for the lock. So a move can be dated before a photo that was taken earlier
than the move was recorded, or after a photo that was taken later, and
`as_of_site` then answers otherwise than `bin_where` did: the verdict on the
photo changes. `AsOfIsWhatWasServed` is therefore about the bins whose rows are
`DatedInTime`; without that condition TLC finds it violated.

### How `LabelReview` corresponds to the code

One table, `captures`, holds registrations, profiles, photos, proposals,
dismissals and print intents of one bin, as `capture_evidence` does; the passport
and the queue are folds of it. A form has the action id its page was rendered
with; a submission has an instant of its own, so the same form can be submitted
again later or at the same time from the other handler.

| Actions | Code |
|---|---|
| `SaveProfile`, `AddPhoto` | `update_bin_profile`, `append_bin_photo`, which read nothing but their key |
| `CheckAnswer`, then `SaveReview` or `SaveDismissal` | the two answers to a suggestion in `manage.py`: replay, pending, what was read; then `update_bin_profile` or `dismiss_label_drift_proposal` |
| `ReservePrint`, `AttemptPrint` | `reserve_label_print_intent` and `_attempt_print` |
| `StartPass`, `LoadPassport`, `RecordProposal`, `GiveUp` | the nightly pass of `bin_label_drift.py`: photos and passport are read apart |
| `RegisterAgain`, `StopService`, `Tick` | a registration on another day, a restart, time |

An insert and its commit are one step because the unique index on keys lets only
one row of a form in; the one that meets it is answered like a replay. A text is
the set of things it names, so what a proposal adds is a set difference.

### How `OwnerSignals`, `PhotoVault` and `EvidenceTransfer` correspond to the code

`OwnerSignals`. `Arrive`, `Dwell`, `Depart`, `CreateRestingOrder` and
`ClearRestingOrder` are the owner and the device; `Deliver` hands any event sent
so far to `record_presence_event` or `record_order_event`, any number of times.
`owner` and `asked` are the truth the folds are compared with. Presence folds by
occurred_at, orders by identity value, as in the code; that is why presence
becomes current whatever the order of delivery, while `OrdersFollowTheOwner`
supposes that the first copies of an order's events arrive in order
(`ArrivedInOrder`); second copies may come at any time. A late *first* copy of a
create does reopen an order that was cleared since.

`PhotoVault`. An envelope is a number that `PutObject` draws, for `put_blob`
encrypts with a fresh nonce: an object under another envelope than its row's is
lost. `job[w]` is a transaction: the photos still to store, the locks `held`, the
rows that are `fresh`. The object store is not part of it, so `Fail` leaves the
objects. Nor does a put end with its transaction: after `FailBeforePut` the lock
is free and the put is still to come, because `put_blob` holds no statement open
while it puts, so that a lost connection is noticed only at the insert, and
because a store may carry out a put whose client has timed out. `PutLands` is
that put, whenever it comes; `landed` remembers it for the property. `BreakDeadlock` is PostgreSQL aborting one of two drops that store the
same photos in opposite orders. A backup is stamped, takes its snapshot
(`TakeSnapshot`: dump, protected state and blob inventory share one), copies one
ciphertext after another, and is published under its name at the end.
`FreshArtifacts` is `check_backup_freshness` and `RestoredOpens` what
`restore_smoke` opens.

`EvidenceTransfer`. Engram, the program the evidence comes from, is external: it
records until it is frozen. `ExportTable` reads table after table at READ
COMMITTED; `StageBlob` puts a photo under a fresh envelope whatever is there, in as many
stagings as are run; `Import` inserts with ON CONFLICT DO NOTHING and accepts only
a database that then equals the snapshot. `ImportDisposable` takes any snapshot,
as the program does: one staged long ago, or an export that was never staged,
which `docs/transfer.md` shows first. Their photos do not open, so
`ImportedIsWhole` promises rows to every database and photos that open only to
one that holds what was staged last. `ImportAuthority`, `OpenGate` and `Freeze`
have the conditions of `docs/runbooks/cutover.md`. `RemoveExport`,
`RemoveOutputs` and `DropDisposable` are what a person does by hand, and are
never required. Of the nine tables the model has the
four that refer to each other.

## Runs

| Run | Question | States |
|---|---|---|
| `ledgers` | can packs, unpacks and moves interleave into a ledger that does not fold, move a contained bin, answer what is not recorded, or leave the abstract forest? Does the proofs' invariant hold? And does the program's fold do what the definitions say? | 190 000 |
| `answers` | is every call answered, is a trip cleared completely, and is an unpack atomic, through put-backs, packs and a crash? | 124 000 |
| `labels` | registration: do codes and request ids name each other, are registration and placement one fact, do labels and answers tell the truth? Review: does a dismissal hold, and is a label attempted once? | 607 000 |
| `contested_code` | is every submission answered? | 20 000 |
| `stash_runs` | are receipts and foundings whole, stops on file, and the owner's word kept? | 328 000 |
| `beliefs` | do overlapping, repeated and killed passes count a photo once, judge it by what was served, and leave every bin where it is? | 289 000 |
| `evidence` | do late and repeated signals fold right; does every linked photo open and every fresh backup restore, whatever fails; is what is imported whole? | 1 738 000 |
| `stale_page`, `half_run`, `missed`, `sweep`, `restage` | does the code keep what a document says of it? It does not: see below | |

**Bounds.** Two sessions, because every hazard found is between a call and one
other call and the lock admits one holder (the safety runs take them as
interchangeable: no action or property tells one session from another); four bins, one of which nobody has
registered: three are the shortest cycle that is not caught by comparing two
codes, with a path of two containers; two sites; one trip; one crash.
`MaxTripSeq` (with a smaller `last` for each kind of client) stops requests from being made once that many move events were
inserted, which bounds the run and cuts no call short. The request sets are named
in `MCInventoryLedger` for what they make happen. `ledgers` chooses one of three
at the start (`Nests`, `Replays`, `Mixed`): the hazards of each are among its own
requests, and all of them at once would be too many states. `answers` does the same
with a busy day and a trip of two bins. The fold in `ledgers` reads
up to four rows about four bins, also rows the program would never write, so that
cycles of any length up to four are met.

The registration part of `labels` and `contested_code` take two sessions, two sites, two days and one crash.
`labels` chooses between `QuickLabels` (two request ids for one site, two
codes of one prefix, one of them also with other details), `Pages` (a code on
file that is also contained, a new one, and the new one from another site) and
`Contest` (a page that registers the very code the quick label is about to be
assigned). `contested_code` takes the last with a registration refused halfway.
`MaxPlaceSeq` stops submissions and moves from beginning, as `MaxTripSeq` does.

The review part of `labels` has two handlers, so that any two submissions race,
two forms, two photos that show two things (a proposal needs two items to stand,
one to fall short), a dismissal that holds for three instants of five, so that a
proposal can recur under it and outlast it, and one stop of the service.

`stash_runs` takes two bins, one code to found, and two items that share one of
their two words, which is just enough for the exclusion of one to bar the other.
`Agenda` bounds it: the n-th request is of a kind in its n-th set, so the owner
starts a run, decides or founds, starts another run or puts a bin away, changes
his mind, and puts away again; two sessions let any two of these overlap. Fewer
requests would not let an overruled recommendation return, and with a fixed
order of kinds five of them fit. One call is lost at any point.

`beliefs` starts with two bins placed at the garage, packed one into the other or
not, and has two more instants, two photos, two passes (two of GPS, one of OCR to
choose from) and one kill: two passes over one photo are what can count it twice,
and the second instant puts a move between the photo and the pass. A row of the
owner is dated by the clock or by the first of these instants, which is before or
at any photo: moves dated back across a photo happen; one dated ahead is the same
disagreement and is left to the proof. A photo may
carry a fix of the other site or one on the edge of both. `missed` and `sweep`
need more instants and fewer passes.

In `evidence`, signals has three events in six instants with a window of two: an
arrival, its departure and a late copy of either, or a create, a clear and a late
copy, or two creates for two sites, with time for presence to go stale. The vault has two photos and two
writers, which is what a deadlock takes, three envelopes (one more than the
photos, for a put after a failure or one that comes late), one failure of a transaction
or a backup, and four instants with a maximal age of one, so that backups go
stale. The transfer has two photos and one routing request, three envelopes, so
that one photo can be staged again after both were, and one staging that stops
half way; `restage` has four and also lets a transfer be rehearsed after the
cutover.

**Fairness.** `FairSpec` asks that a session whose next statement can run runs it
eventually (weak fairness of `Step`): each is a thread or process that does not
wait for its client inside a call. For the lock it asks strong fairness:
PostgreSQL queues waiters of an advisory lock, so one that waits is served.
Nothing is assumed of clients, and a crash is never required or excluded.
`Registration` assumes the same of each of its three kinds of lock, and of the
insert of a capture that waits for another transaction with its key: PostgreSQL
wakes it when that one ends. Without this the insert could be overtaken for ever
by another client whose registration is refused and submitted again and again.

### Where the code and its documents disagree

Each run named here stops with a counterexample of a few steps.

* `stale_page`: CONTEXT.md says of retrieval outcomes that "none relocates the
  bin". `fetch` and `browse` are location events at the site the form carries;
  from a page rendered before a move they put the bin back at the old site.
* `half_run`: `record_stash_run` says it "returns the original run and its
  receipts". When the call is lost after the header was committed, the form
  submitted again returns the run and no receipts, and no call adds them. What
  holds is `ReceiptsAllOrNone`: there is never a part of them.
* `missed`: CONTEXT.md says "not_found shocks it", and the page that records a
  miss says "Its location confidence dropped." The belief is the better of the
  move clock, which the miss shocks, and the best photo of the bin at that site,
  which nothing shocks; a miss after a harvested photo changes nothing.
* `sweep`: `bin_sweep` returns "the current site's stalest bins", ranked by each
  bin's own rows. A bin packed into another that was then moved is named at the
  site it left, though `bin_where` and `bin_belief` know better.
* `restage`: architecture.md says every writer dedupes, blobs on their plaintext
  hash, "so replays are no-ops", and transfer.md keeps the transfer for
  rehearsals. Staging puts each object anew under the key of its photo; a
  rehearsal that names the live store leaves the live rows with envelopes no
  object has.

Others were met while modelling and have no run:

* A trip's checksum compares sets over the whole trip, so a bin loaded again
  after it arrived is in transit and not missed.
* A second submission that waits for the lock behind a pack of the bin is
  refused, although its event is recorded: the lookup of `record_event` precedes
  the wait and is not repeated.
* The registration page has no request id, and its key has the date in it:
  submitted again after midnight, it registers and prints again. Within a day,
  and for quick labels on any day, `OneLabelPerRegistration` holds.
* A contradict row that arrives late shocks whatever location is current,
  because `_contradiction_shock` counts rows by identity value.
* A contents review saves the theme and home site its handler read; a profile
  saved in between is undone by it.
* A late first copy of an order's create reopens an order cleared since.
* A put that outlives its transaction (`FailBeforePut`) and lands after another
  writer has committed the same photo replaces the object of a committed row: the
  photo no longer opens, and from then on `CopyBlob` fails and no backup is
  published. `put_blob` puts under the photo's own key, whatever is there.
* A move that the owner dates across a photo, or that is recorded a lock wait
  after its date was read, changes the verdict on the photo and with it what the
  source is worth.
* An export imported as it is, as `docs/transfer.md` shows it, and a snapshot
  whose photos have been staged again since, have rows whose envelope no object
  has; the import accepts both.
* Sightings take no lock, so one at another site can commit between a pack's
  validation and its insert; what holds is `NoMoveSplitsPack`: no *move* can.
* The code lock of `create_quick_label` keeps out other quick labels, not a page
  or a move, so the code can be on file for another bin when it commits; what
  holds is `CodesIdentifyActions`.
* A photo of a bin that is uploaded again and committed late moves in the order
  by which proposals and dismissals know the photos; moved back by another, an
  older proposal stands again. What holds is `DismissedStaysDown`: while each
  photo is filed once, what was dismissed stays dismissed.
* A stop that was completed and then gained an item is refused for good, as a
  conflicting capture; no document says otherwise.

## Proofs

TLAPS checks these for every set of bins, sites, trips, keys, sessions,
requests, photos, harvesters, handlers and events. Assumed of the constants are
`NoneIsNoBin`, `ConstantsAssumption`, `RegistrationAssumption`,
`StashAssumption`, `BeliefAssumption` with `HarvestAssumption`,
`VaultAssumption`, `ReviewAssumption`, `SignalsAssumption` and, for the abstract
forest, `HomesAreSites`. They say that `None` is none of the values, that
requests and homes have their types, that bounds are numbers, that finitely many
bins were registered before (`Registration`), that an item's text has finitely
many tokens (`StashRuns`), and that the ledgers of `LocationBelief` start empty.
Each module's ASSUME is evaluated in the runs of its module.

1. `InventoryLedger_proofs`, four parts.
   *Folding.* A ledger that folds still folds after its newest rows are dropped
   (`PrefixFolds`), after columns the fold ignores are rewritten (`SameFolds`),
   and after a validated pack or unpack is appended (`PackFolds`,
   `UnpackFolds`). The pack case exhibits the set closed under containment that
   shows the new row closes no cycle.
   *The fold.* The other theorems speak of `FoldsCleanly` and `PathFor`, sets over
   the whole ledger; the program has a loop, a dictionary and a walk. `FoldInv`
   relates them: the dictionary is `ParentOf` of the rows read, no bin is above
   itself, and a walk has seen only what is above where it began, all of which
   leads to where it is. A pack closes a cycle only through the bin it packs
   (`PackCycle`), so it is enough that the fold walks up from there. Theorems
   `FoldIsFoldsCleanly` and `GraphIsTrue`, for any number of bins and rows.
   *Types.* `TypeOK` is not inductive: an insert is typed only if the session's
   `ev` holds an event when its `pc` says so. `Registers` says what each
   statement finds, and `TypeInv == TypeOK /\ RowsMeetSchema /\ ControlInv` is
   inductive. Theorems `TypeCorrect` and `SchemaMet`.
   *Safety.* `IInv` adds `SessionInv` and `NestInv`: only the lock holder has
   uncommitted containment rows, so what it validated still holds when it
   appends, and uncommitted rows are newer than committed ones, so a rollback
   drops a suffix. A move about to be inserted is a replay or its session holds
   the lock and its bin is top-level. Theorems `FoldSafe`, `AppendSafe` and, from
   the invariant at the commit, the action property `NeverMoved`.
2. `InventoryPromises_proofs`: what an answer promises. `IInv` does not say what
   a key tells of its row, nor what a transaction has written so far.
   `PromiseInv` adds that identity values and keys are unique, that a key the
   program derived names the request its row answers (`KeyTells`), that a
   session writes only what it was asked (`Writes`), that an `arrive_all` finds
   the arrivals it has passed (`Arrivals`), that who comes to the commit has
   written everything (`Complete`), and that the locations a pack has read stand
   as far as moves go (`PackStands`, because it holds the lock moves need).
   From it, `UnpackIsWhole`, `AnswersOnFile`, `TripCleared` and `PackSitesStand`.
   *Refinement.* `LedgersImplementForest`: only a commit shows (`OnlyCommitShows`).
   The committed rows of a move, or of an `arrive_all`, make `Move` or, for
   sightings, `Sight`; a pack's is `Pack`, and an unpack with its placement is
   `Unpack`. The lemmas between say what one more row, or rows committed later
   than newer ones, do to the two folds (`LocationAfter`, `ParentIsInside`).
3. `InventoryForest_proofs`. The set above a bin is the least one closed under
   containment, from which `ForestAcyclic` follows for every step. With the
   refinement, it is what the ledgers show.
4. `Registration_proofs`. `NextCode` returns a code that is not among the known
   ones (`NextCodeIsNew`), which needs them finite: `TypeInv` therefore says that
   the tables are. `IInv` adds, per session, which locks it holds at
   each statement, which rows its open transaction has written, that what it
   found absent is still absent (another quick label of the same request id or
   prefix would hold the same lock), and that a session about to print has a
   committed capture and no earlier job. `CaptureInv` says that key, request id
   and quick-label code each determine the capture. The
   theorems `NeverHalfRegistered`, `CodesIdentify`, `PrintedOnce`,
   `LabelsAreTrue` and `AnswersAreOnFile` follow, and with them
   `QuickLabelsImplementBook`: under the mapping of `ImplementsCodeBook` the
   commit of a quick label is `Issue`, its job is `Label`, all else stutters.
5. `StashRuns_proofs`. `IInv` falls into invariants
   proved apart over the same `TypeInv`. `BatchInv`: uncommitted receipts
   belong to the one session that filed their run's header, which has written
   exactly those its index has passed; so a commit publishes all of them and a
   rollback none (`NeverHalfRun`). `StopInv`: a stop about to be committed is its
   session's own, with its text (`StopsOnFile`). `DecisionInv`: identity values
   are unique, and a founding session has made or found the decisions its loop
   has passed (`FoundingsWhole`). From the unique identity values alone follows
   `FeedbackOneBin`: ties in time never leave the router with two bins.
   `RouterInv`: a rejection names no bin, as the pages give it. For
   `OverruledStaysOut` suppose the router recommends a bin out of which the last
   word put the item: an override or a rejection of that bin. As the last word,
   its exclusion survives every merge, by time and identity value, and an item
   shares all of its own words, so the hard filter removed the bin.
6. `PhotoVault_proofs`. `LinkedPhotoOpens` is about committed rows; what keeps it
   is what open transactions may still do. `IInv` says that no two transactions
   hold the lock of one digest, that what a transaction has inserted is under its
   locks, new, and in the store as its row says, that one about to put holds the
   lock and no row exists, that whatever else it holds has a row, and that the
   photo it links is the one left or one it holds. So a put that is made
   under its lock never meets a committed row. Locks end with the transaction
   whether it commits or not; a failed one leaves an object no row names, which
   the next put replaces. A put that comes after its transaction has ended meets
   whatever is there: what the invariant says of an object, it says as long as no
   such put has landed on it. Theorems `VaultInvariant` and
   `OnlyLatePutsLosePhotos`: nothing else that fails or interleaves loses a photo.
   *Backups.* `BackupIInv` adds that a snapshot is whole: its captures have
   their rows, and it has every capture from before its stamp, which lies in the
   past. That a copied object is the one the row names is `RowsAreStored`.
   Hence `BackupsHoldAll`.
7. `LocationBelief_proofs`. Where the ledger puts a bin depends on the location
   rows of that bin alone (`SameFold`). Of those, what is recorded after a photo
   has a newer identity value than the photo's `upTo`; dated in time, it has not
   occurred by then, so that nothing appended later changes `AsOf` the photo
   (`EarlierRowsStand`). A `contradict` row is dated back, and is no location row.
   `BeliefInv` says that a key of evidence is used once, and that for every photo
   and bin dated in time the rows say what was answered when it was taken.
   Theorems `EvidenceOnce`, `VerdictsStand`, `HarvestsNeverRelocate`; the first
   and the last hold whatever the dates.
8. `Evidence_proofs`: three small parts that share no state: the review, the
   transfer and the signals, as the instances `L`, `T` and `Sig` that the runs
   check.
   `PresenceConverges`: every event has an instant and an id of its own and the
   owner is where the newest presence event says (`SignalsInv`), so once all
   are recorded the row that decides is the newest event's.
   `OrdersAreFollowed`: the same invariant says that a row is the only one of its
   event and its identity value, and that what the owner last asked of an order
   is what the newest of its events says; with first copies in order, that one,
   of those that arrived, is the row the fold goes by (`LastRowIsNewest`).
   `OneAttempt`: of the handlers on one form, one at most is between its
   intent and its attempt (`PrintInv`).
   `DismissedIsDown`: photos come and none goes, so the photos of later
   proposals include those of earlier ones; a proposal that stands beside the
   dismissal has the same set, hence the same list (`DownInv`, `PassInv`), and
   the queue hides what the dismissal of that list names.
   `TransferIsWhole`: captures are exported before the photos that they link,
   a snapshot staged or not has the photos its export has, a database that accepts
   a snapshot equals it, and the gate opens only on one that was exported after
   the freeze. The envelopes of the snapshot written last are those of the store
   until something is put again (`WholeInv`). It holds with and without
   rehearsals after the cutover. `LivePhotosOpen` has the hypothesis `~Rehearse`:
   nothing is staged again once the authority is imported. It is needed, as
   `restage` shows, and `cutover.md` has no such rehearsal.

Two of these proofs changed the model. `DismissedStaysDown` was stated without
`FiledOnce`, and the run agrees; its invariant could not be proved, and TLC with
three handlers, three photos and six forms shows why: two photo forms of photos
that are on file already, stalled and committed late, change the order of the
photos and change it back, and a proposal from in between then stands. And
`PhotoHashes` is now defined by the place of each photo in the order, because
the provers have no definition of the sort of the community modules.

Each inductive invariant was checked with TLC on the instances here before it
was proved; `ledgers`, `labels` and `stash_runs` keep theirs as properties.

Only model-checked: liveness (`EveryCallAnswered`, `EverySubmissionAnswered`),
which is out of the prover's reach. Everything else that the passing runs check is
proved.

## Plan

1. `BeliefFold`: that confidence stays between nothing and certainty, and that a
   contradiction never raises the reliability of its source, for every ledger
   (theorems in `LocationBelief_proofs`).
2. That the owner's atomic calls in `LocationBelief` are what the committed steps
   of `InventoryLedger` show, on rows with times.
3. The co-location edges and site anchors that a photo appends, if they come to
   be read by anything else that changes state.

## Not modelled

* **Vision proposals** and the reading of photos: calls to an external model.
  What they return is an input, chosen freely.
* **Label rendering and printing**: image layout and device I/O. Whether a label
  was handed to the printer, and how often, is modelled; whether it came out is
  what the program itself records as unknown.
* **Catalog, search, geo, volume and capacity**: read-only projections of text
  and coordinates. Of the passport the fields that writers read are modelled.
* **Co-location, anchors, virtual bins**: advisory rows under keys of their own
  that nothing else modelled here reads.
* **Command line, MCP and web shell**: argument parsing, routing, authentication,
  origin checks and pages. Each command reaches a model as the call it makes.
* **Scores**: routing scores, text similarity, GPS distances, priority and regret
  are floating point. The models choose freely what they decide, within the hard
  filters the code applies first; confidence is sampled as described above.
* **Encryption, signatures, object store protocols, dump formats, manifests**:
  taken to do what they promise.
* Split and merge decisions, which no page makes; time of day; the sources of
  configuration.
* Tenants and corpora: every statement is scoped by both, so a model of one scope
  stands for each.
* PostgreSQL itself is taken at its word: atomic commit, READ COMMITTED
  visibility, advisory transaction locks, unique indexes, deadlock detection.
