# Chrono Desk: a TLA+ verification project

Chrono Desk is a desktop application for timing races. It reads RFID chips and
manual marks at a timing point, derives results from them, exchanges raw
observations with a site (RUN5) and with edge receivers, hands out starter
packets through tablets on the LAN and shows live finishes to presenters. Each
event is one SQLite file; several copies of the application may have it open.

This directory models the protocols in it that tests reach badly: deliveries
that are lost or answered late, crashes between two transactions, background
and manual commands that interleave. All paths below are relative to `src/`.

## Inventory

| Component | State | Operations | Talks to |
| --- | --- | --- | --- |
| Owned observations and their journal (`internal/infrastructure/sqlite`: `store.go`, `origin_identity.go`, `sync_store.go`, `observation_import.go`) | `rfid_logs`, `observation_outbox`, the installation's origin sequence | `InsertOwnedRfidLogs`, `PrepareObservationBatch`, `ApplyObservationAck`, `importObservation` | readers, site push, site pull |
| Site push (`internal/transport/httpapi/sync_handlers.go`, `internal/service/syncclient.go`) | none of its own; requests in flight | `handleSyncPush`, `PushSync`, `applyObservationAck` | journal, site |
| Site pull and projection (`sync_pull_manager.go`, `sitesync_pull.go`, `recount.go`, `projection_snapshot.go`) | `sync_config.pull_cursor`, `projection_pending`, results and member times, the per-event mutex | `PullNow`, `PullEventChanges`, `finalizePullProjectionPlan`, `RecountPlan`, `Recount`, `handleSyncPull` | site, snapshot import, processor |
| Snapshot import (`eventimport.go`, `entities_store.go`) | rosters, races, checkpoints, observations | `Import`, `ApplyEventImport`, `ReapplyLocalEdits` | site |
| Native reader ingest (`live.go`, `processor/`) | sessions, results | `livePublisher.Publish`, `Processor.Process` | journal, projection |
| Edge ingest (`edge_live.go`, `edge_store.go`) | `edge_observation_outbox`, epochs | `edgePublisher.Publish`, `acceptEdgeObservation` | sidecar, relay, projection |
| Edge relay (`edge_relay.go`, `edge_relay_store.go`) | `edge_relay_config` with a revision, leases, sessions | `Configure`, `Resume`, `StopAll`, `ClaimEdgeRelay`, `FinishEdgeRelay` | Hub, other instances through the database |
| Presenter stream (`finishchange/`, `publicweb/finish_hub.go`, `publicweb/finish_stream.go`) | generation and wake-up of a store, hub, groups, subscriptions, the published event | `Notify`, `finishHubFor`, `subscribe`, `close`, `run` | every writer of results, browsers |
| Local edits (`edits.go`, `edits_store.go`, `manual.go`, `merge.go`) | `local_edits` journal | `applyEdit`, `ReapplyLocalEdits`, manual finishes | projection, push, import |
| Packet issuance (`packetissuance/`, `packet_issuance*.go`, `packet_issuance_store.go`) | registrations with heads, operations with dependencies and outcomes, conflicts and decisions, the local feed and its archive | `Receive`, `ResolvePacketConflict`, `PublishPacketServerChange`, `ArchivePacketFeedPrefix` | tablets, operator, timing |
| Packet relay (`packet_issuance_site.go`, `packet_issuance_feed.go`, `packet_issuance_rebase.go`) | site cursor, site baseline, actions received from the site, receipts | `SyncPacketOperations`, `SyncPacketFeed`, `ApplyPacketFeedPage`, `RebasePacketIssuanceRoster` | site |
| Packet LAN (`transport/packetlan`, `packet_lan_state.go`, `packet_issuance_lan.go`) | enabled event, invitations and connections | `start`, `Stop`, `Resume`, `CreateInvitation`, `ClaimLAN`, `RevokeLAN`, `Compact` | tablets |
| Club affiliations (`packet_club_*.go`, `member_clubs_store.go`, `native_club_edit.go`) | the club of each member, `packet_club_outbox` | `applyNativeClubEdit`, `ApplyPacketClubAffiliation`, `flushPacketClubOutbox`, `refreshPacketRelayClubs` | site, tablets |
| Sessions (`live.go`, `photomanager.go`, `sync_pull_manager.go`) | running goroutines per event | start, stop, replace | all of the above |
| Ranking, protocol, exports, photos, catalogue, migration, credentials, control API, user interface | | queries, files, formatting | |

### What is hard, and what makes it right

* **Delivery over an unreliable wire.** A push may be lost before or after the
  site stores it, answered late, in part, or twice, and pushes overlap. Right
  means: only own observations travel, a row is acknowledged only when the site
  holds it, at most one batch is outstanding, a batch is settled whole, and no
  failure blocks the queue.
* **Several owners of a row.** Edge rows are drained by several instances under
  leases while the operator redirects the queue. Right means: nothing is sent
  where the operator has not agreed, an overtaken attempt settles nothing, an
  enabled queue drains.
* **Derived state that lags behind raw state.** Pages of raw changes commit
  first, the recount follows, and both race with live reads, edits, imports and
  crashes. Right means: whenever the database does not say that work is pending,
  the results are those of a full replay, and pending work is done in the end.
* **Wake-ups that coalesce.** Commits, builds, viewers and publications overlap
  in the presenter stream. Right means: one dispatcher per signal, no viewer
  gets an older snapshot than its connection, and every open stream ends up at
  the committed state.
* **Operations made elsewhere and earlier** (packet issuance). Tablets work
  offline against rosters that change; the Desk and the site both accept, merge
  and decide. Right means: whatever the order of arrival, the published feed
  replays to the roster, no number or person is in two places, a runner who has
  been timed keeps his registration, and the two rosters agree once nothing is
  left to decide.
* **Copies that follow a feed with a retention.** Tablets and the Desk follow
  feeds whose old part is archived. Right means: nobody passes over an action,
  and who has fallen behind starts again from a snapshot without losing work.
* **Data beside the journal** (clubs). A club goes its own way to the site and
  back. Right means: it stays with its person, and what an operator enters is
  not lost to a stale answer.

`PROJECT.json` lists the hazards line by line, with the properties that cover
them and notes on the ones that are not covered.

## Modules

| Module | Models | Built on |
| --- | --- | --- |
| `OwnedDelivery` | what the journal promises: capture order, one truthful verdict per observation | |
| `ObservationOutbox` | the journal, overlapping pushes, the wire, the site, crashes | refines `OwnedDelivery` |
| `EdgeRelay` | the relay's configuration, sessions, leases and attempts | |
| `EventProjection` | observations, results, feed pulls, manual pulls, recounts | |
| `FinishHub` | signal, hub, groups, subscriptions, publication changes | |
| `PacketTransitions` | what a packet command does to registrations, and how changes are merged; operators only | |
| `PacketDesk` | packet issuance on one Desk: tablets, operator, feed, archive | `PacketTransitions` |
| `PacketRelay` | a Desk and the site exchanging operations and feed actions | `PacketDesk`, and `PacketDesk` again as the site, taken with its theorems (`PacketProofs`) |
| `PacketLAN` | the server for tablets, pairing, copies that follow the feed | |
| `PacketPush` | delivery of operations and club edits to the site | |
| `ObservationOutboxProofs`, `EdgeRelayProofs`, `EventProjectionProofs`, `FinishHubProofs`, `PacketLANProofs`, `PacketPushProofs` | theorems about one module each | that module |
| `PacketProofs` | theorems about `PacketTransitions` and `PacketDesk` | `PacketDesk` |
| `PacketRelayProofs` | theorems about `PacketRelay` | `PacketRelay`, and `PacketProofs` for either side |
| `MC...` | rosters and symmetry sets of the runs | |

### ObservationOutbox

An observation has a row (`absent`, `owned`, `imported`) and, if it is owned, a
journal row with an origin sequence, a state and a batch. A capture is an open
transaction (`CaptureBegin`, `CaptureLog`, `CaptureCommit`, `CaptureRollback`):
sequences are drawn while it is open, and other events of the installation draw
from the same counter (`CaptureElsewhere`). A push is a process: it prepares
(`PrepareRetry` joins the outstanding batch, `PrepareNew` cuts one from the
oldest pending rows), sends, and applies or refuses the answer (`ApplyAck`,
`AckMismatch`). It may give up at any time; its request then becomes an orphan
that the site may still store (`SiteLate`). The site stores any part of a
request and tells what it stored and refused. A batch is named by the
sequences of its rows, as the code derives its identity from their content.

The site is external: it is only assumed to answer for what it has stored.

### EdgeRelay

A row has a state, a lease token and a lease. A token stands for its instance,
because each instance runs one session per event. Leases and backoff are time:
`LeaseExpires` and `BackoffPasses` may happen whenever they are set. `Configure`
is two steps, since the manager joins the cancelled session between them. The
TLS bundle belongs to the address. The limit of 16 sessions is the constant
`Contended`: other events may leave no room. `consent` is a history variable
with the destinations the operator has agreed to for each row: the Hub that is
configured when the row is accepted, and the one named by a request that he has
confirmed and made from the current revision (`Agreed`). It does not look at
what `ConfigureEdgeRelay` refuses, so that a check missing there is seen.

### EventProjection

Every transaction of the event database is one step. An observation is absent,
on or off; its `holder` is the member whose bib or tag it carries, nobody, or
more than one (which makes a replay fail). `result` is the member it counts
for. A page of the feed is any non-empty run of the items that are left. The
evidence of a plan is the boolean `fence`: it is lost as soon as a step changes
what the evidence covers, which are observations, identities, times of members
and the cursor, but not the results of chip reads. A step that changes such a
result may change a time with it, and so may or may not end the evidence. The manual pull downloads and imports its snapshot
outside the mutex, then waits for the same `PullNow`.

Left out: which checkpoint and lap a read counts for; local edits of
`disabled_at`; conflicts of origin identities; plans scoped to a race, which do
not come from pulls. The plans that timing-core makes from the mutations are
external: members of the changed observations, or the event.

### FinishHub

A writer commits and then notifies, in two steps. A frame is the revision of
the view it was loaded from, so equal payloads are equal frames; a view that
returns to an earlier content counts as a new one. `minBuild` is the boolean
`ripe`: a build accepts the subscriptions that exist when it begins. Contexts
are derived: a group has ended when it or its hub is cancelled. Hubs and groups
come from pools and return to them when nothing refers to them; two hubs and
three groups are never exhausted by two viewers. `StopFinishHub` is a step of
its own because `Unpublish` gives up the mutex first, and it stops whatever hub
the server has by then. A publication whose port is taken (`PublishFails`) changes
the epoch twice. Heartbeats, rendering and the end of a store that is still
published are left out.

### PacketTransitions and PacketDesk

`PacketTransitions` has no state. `Allows` and `Effect` are `Apply` with all
commands: conditions and effects of the eleven commands of one registration
(`AllowsSingle`, `AfterSingle`) and of the four that involve two (`AllowsPair`,
`AfterSource`, `AfterTarget`); `Reversible` is `ReverseMove`. `Compatible`,
`Equivalent`, `EffectMatches` and `Overlay` are the field-wise comparisons and
merges that the code does on JSON values. Of a person the model keeps identity,
one text field and whether the details are complete.

In `PacketDesk` an operation is a record of its command, the images before and
after, and the heads it was made against. A tablet makes one (`Create`) against
the current roster or against what its own unsent operations leave, and may send
it at any later time, again and again: `Receive` is the whole of `receiveOne`
with its checks in their order (`Decision`). `DeskEdit` is an edit of a member
in the Desk, `Pass` a read of the runner's number or chip, `Show` and `Resolve`
the two steps of a decision on a conflict, whose candidate must still be the one
that was shown; `Compact` moves a prefix of the feed to the archive. `proj`
holds a registration with its heads and its deletion mark.

Left out: hashes and origin sequences (an operation is its id), the reserve
origins listed for tablets, and results as a source of timing evidence (a read
is enough to have some).

### PacketRelay

The site is not in this repository. It is a second instance of `PacketDesk` over
variables of its own, which is what the code and `docs/architecture.md` take it
for, with its own tablets, edits, decisions and retention. The instance is taken
of `PacketProofs`, which adds only theorems to `PacketDesk`: what is proved of
every Desk is so proved of the site. `Edit` and `SiteEdit` are the ids of the
edits of either side, and change places in it. An operation has one
identity on both sides, so that pushing it is `SiteReceive`; receipts are the
subject of `PacketPush`. `ApplyAction` is one action of `ApplyPacketFeedPage`
with baseline check, merge, stored outcome, relation of resolutions, relay to
the local feed and cursor; a page with several actions is several steps of which
none sees less than the page would. A site that has archived what follows the
cursor leads to `FetchBootstrap` and, after any other steps, `Rebase`; the code
does the same with a site whose feed has become shorter than the cursor
(`cursor_ahead`), which this one's never does. Timing evidence
that a snapshot brings is taken over, also where the value is left for review
(`Timing`, `Rebased`). Nobody passes in the run (`Timed = {}`); with a timed
number the same properties hold in the 1,443,085 states of the instance. `again`
is a history variable.

### PacketLAN

A connection is `open` (its invitation can be claimed), `claimed only` or
`ended`; expiry and revocation may happen at any time. A claim is stored before
it is answered and the answer may be lost. `StopBegin` and `StopEnd` are two
steps, because `shutdown` waits for running requests without the mutex, and so
are `CompactCheck` and `CompactArchive`. A tablet has a copy up to a cursor, the
set of actions it has seen, and at most one request under way. What an action
does is left to `PacketDesk`; here it is a number of the feed. The tablet's
program is external: it asks for pages, and for a bootstrap when it has no copy
or is told that its cursor has expired.

### PacketPush

The operations are those that change persons, made by one tablet that has all of
them ready and sends them in any order; the journal is in the order of arrival,
which is the order of `ListPendingPacketOperations`. A synchronisation is a
process (two of them, because nothing serialises them): flush the first ready
club edit or find that it waits, list, push, mark, and at the end fetch the
site's clubs and store them. The club carries the person it was entered for, so
that a wrong owner is visible; the outbox row carries person and heads as the
code's does. The site answers each operation with `applied`, `conflict` (only
those in `Refusable`) or that it waits. An acknowledgement that comes with the
site's feed (`SaveReceivedPacketOperation`) is left out: it can only be earlier.
The clubs fetched from the site name every registration; the contract, as the
Desk implements it towards tablets, leaves out those that no club was ever stored for.

## Runs

| Run | Instance | Shows |
| --- | --- | --- |
| `outbox` | 2 reads, 2 pushes, 2 rows per batch, with fairness | all safety properties of the journal, the refinement of `OwnedDelivery`, and that every journaled read is settled |
| `edge_relay` | 2 instances, 2 Hubs, 2 rows, 2 revisions | consent, exclusive sending, truthful and protected settlement |
| `edge_relay_live` | the same with 1 row, with fairness | an enabled queue drains |
| `projection` | 2 reads, 2 members, 3 feed items; native, edge, edits | `ProjectionCurrent` under background pulls |
| `projection_manual` | 2 reads, 2 members, 2 feed items; edits and manual pulls | a plan that an import outside the mutex, or an edit, has overtaken is replaced by a full replay |
| `projection_live` | 2 reads, 1 member, 2 feed items, with fairness | the Desk catches up with the site |
| `finish_hub` | 2 viewers, 1 commit, 3 publication changes | dispatcher, freshness, reachability, limits |
| `finish_hub_live` | 2 viewers, 1 commit, 1 publication, with fairness | every open stream catches up |
| `packet_desk` | a runner, a reserve slot, an id for a new registration; 2 operations or 1 and a decision, 1 edit, 1 pass | the feed replays to the roster; numbers and persons in one place; timed rows kept; archiving decides nothing |
| `packet_relay` | a runner, an id for a reserve slot; 2 operations, 1 site edit, 1 rebase | baseline, no blocked feed, agreement of the rosters, local work kept |
| `packet_lan` | 2 tablets (one reads), 2 invitations, 2 events, feed of 2 actions, archive of 1, with fairness | pairing, copies without gaps, archiving against connected tablets, catching up |
| `packet_push` | 2 registrations, 2 persons, 2 operations, 1 club edit, 1 edit on the site, 1 failed request, 2 synchronisations, with fairness | receipts, owners of clubs, pending edits, delivery, agreement of clubs |

The type invariants of the modules (`TypeOK`, `DeskTypeOK`) are proved (see
below), so the runs list `TypeOK` only for the journal; to check one on an
instance, add it to the `INVARIANTS` of the module's cfg. The same goes for the
parts of the inductive invariants, which were checked on these instances before
they were proved.

Why the bounds are enough. Two pushes make every overlap that matters: one that
retries what another has sent, and one that answers late. Two reads with two
rows per batch give a full batch, a partial one and a pending rest; for more
reads and pushes the proofs take over. Two
instances and two Hubs give every overtaking; two revisions give a redirection
and its return. Two observations and two members give a plan that is too narrow
and, with `MaxTargeted = 1`, one that is too wide; three feed items give two
pages and a change of an item already consumed. Native, edge and manual writers
together are too many states, so the manual pull has a run of its own; each
mutant in `PROJECT.json` is found within these bounds. Two viewers share a
group, replace each other's groups and wait for the same hub; three publication
changes are publish, unpublish and publish again, which is what it takes for
an old hub to meet a new one on one signal. With `BuildSlots = 1` workers
compete for the slot that four of them share in the code.

Packet issuance: with two operations one can depend on, contradict, repeat,
correct or be the decision of the other; an edit or a pass makes a conflict
with one. `Commands` and `EditorFields` select what is used: all commands except
those that add no new condition (`undo_issue`, `unassign_number`, `set_dns`,
`move_to_reserve`) in `packet_desk`; in `packet_relay` one that merges, one that
is equivalent when made twice and one that creates. `MaxRebase`, `MaxConn`,
`MaxAction`, `MaxOp`, `MaxEdit`, `MaxSiteEdit` and `MaxFail` cap what could go on
for ever. `PageLimit`, `Batch`, `Keep` and `MaxPeers` of `packet_lan` are 1, so
that pages are cut, archiving takes several calls and the limit is reached.
`ListLimit` is not reached, as in an installation with fewer than 100
connections per event.

Several changes of a definition, the mutants, are kept next to it: each is a
mistake the code could have made, and the run that names it must find it.

### Fairness

* Journal: the operator (or the timer) pushes again and again, requests end,
  and answers are applied when they fit. Strong fairness of preparing and
  applying says that two pushes do not keep each other out for ever. Crashes,
  lost requests and partial answers end at some point: with a network that
  fails for ever nothing is delivered.
* Relay: sessions loop, a stopped application is started again, time passes.
  Leases of 30 s run out during an attempt of at most 2 s plus 2 s for its
  record only finitely often. The liveness run has room for the session,
  because `Resume` is not repeated when 16 sessions are running.
* Projection: the session pulls every five seconds and a pull runs to its end.
  Errors, crashes and edits of the roster stop at some point, live reads do not.
  A failed call that leaves everything as it was counts as no failure, so the
  fairness does not rule out the endless round of pulls with nothing to do.
  `CatchesUp` is checked without manual pulls, which can leave a stale state
  behind (see below).
* Tablets: a tablet that can reach its event keeps asking, and of its requests
  some are answered (strong fairness, since the server may be stopped at times).
  Nothing else is fair: nobody has to start the server or to archive.
* Packet delivery: the tablet repeats an operation until it is applied,
  synchronisations are repeated and go on, the delay of a club edit passes.
  At most `MaxFail` requests fail.
* Stream: every goroutine goes on while it can; Go serves senders blocked on a
  channel in turn, hence strong fairness of the workers. Nobody has to connect,
  leave or commit.

## Proofs

TLAPS checks these for every value of the constants that satisfies the module's
assumption (`OutboxAssumption`, `RelayAssumption`, ...), which TLC evaluates on
every run. The assumptions type the constants, keep the markers `None` and
`Many` apart from data, and are satisfied by the runs' instances. Bounds such as
`MaxRow`, `MaxFeed` or `MaxAction` may be any number.

| Component | Invariants | Action properties and refinement |
| --- | --- | --- |
| Journal | `TypeOK`, `AckedIsStored`, `OnlyOwnedPushed`, `OneOutstandingBatch`, `JournalOrder` | `BatchSettlesWhole`; implements `OwnedDelivery` |
| Edge relay | `TypeOK`, `SentWithConsent`, `ExclusiveSend` | `AckedAtConfigured`, `LeaseProtectsRow` |
| Projection | `TypeOK`, `ProjectionCurrent` | `StalePlanReplays` |
| Presenter stream | `TypeOK`, `OneDispatcher`, `FreshFrames`, `StreamReachable`, `WithinLimits` | |
| Packet issuance | `DeskTypeOK`, `FeedReplaysRoster` | `NumberedOnce`, `PlacedOnce`, `TimedRowsKept`, `ArchivingKeepsDecisions` |
| Packet relay | `TypeOK`, `BaselineTracksSite`, `FeedNeverBlocks` (under two conditions on the site, see below) | `LocalChangesKept` |
| Packet LAN | `TypeOK`, `PeersBounded`, `OneTabletPerConnection`, `CopyComplete`, `ConnectedNotExpired` | |
| Packet delivery and clubs | `TypeOK`, `AcksAreTheSites`, `ClubOfOwner` | `PendingEditKept` |

Each proof has the same shape: an inductive invariant `IInv`, lemmas on the
helpers and records, one lemma or step per action, and a theorem `Invariance`
from which the properties follow. Almost none of the properties is inductive
alone; what `IInv` adds, and why:

**Journal.** `OwnershipInv`: journal rows are exactly the owned observations,
with sequences that have been given out; without it an acknowledgement could name
an imported row. `CaptureInv`: the open transaction holds fresh, distinct
sequences above those in the journal, which makes a commit keep `JournalOrder`.
`WireInv`: what is on the wire is owned, and an answer in flight says nothing
false about the site; `AckedIsStored` rests on it. For the refinement, a commit
of a capture is the abstract `Capture`, an applied answer is `Settle` of the batch
(the oldest part of the queue by `JournalOrder`), the site's steps are `Store`,
and all others stutter.

**Edge relay.** `QueueInv`: a settled row has neither lease nor backoff, and for
every other row the operator has agreed to the address that is configured now. A
request keeps that because what is not refused either keeps the address, or is
confirmed and current, or finds no unsettled row.
`HeldInv` carries that agreement over a redirection: a session that holds a row
may send it to the address it was started with, has the lease unless it is late,
and reports success only of a packet that has arrived. `ExclusiveSend` follows,
since a row has one token.

**Projection.** `StaleInv` says which stale results are allowed between pulls: a
result that a replay would change is announced by `projection_pending`, and a
pull under way will repair it, because it found the bit set when it began, or the
observation is among its changes, or the holder is among the members of its
fenced plan. The last clause ends with the fence, and a plan without a fence
becomes a full replay (`StalePlanReplays`). `HolderInv` bounds what may be wrong
with a result: it is missing, or it belongs to the holder.

**Presenter stream.** `HubInv`, `GroupInv` and `MapInv` tie hubs, groups and the
maps between them: a hub that has not ended is the server's, a group that goes on
is on the map of its hub, and a group on a map has viewers. `ClientInv` says where
a handler's references lead at each of its steps, the ones taken before an unlock
and used after it. `FrameInv` adds to `FreshFrames` that the frame in a worker's
hands is new enough for all who will accept it; that is what `minBuild` is for.
`CountInv` counts commits, so that a revision read from the view is comparable
with the generation. `LimitInv` adds that the sets being counted are finite.

**Packet issuance.** `OpInv` says what `parseCommand` asks of each command, that
a correction names a move that was made, and that a person brought by an
operation is its own. `FeedInv`: what has been published is decided, so that it is
never received again. Then:

* `EffectRows`, `DerivedRows` and `PersonsMoved` say what any of the fifteen
  commands, a reversed move and a merge do to their rows: they stay registrations,
  a row with timing evidence keeps its runner and its number, a number is new only
  where the command names it, persons are moved and not copied.
* `Told` is what the feed last said of a registration; `ToldNext` and `ReplayStep`
  extend it by one entry. With them every step keeps `FeedReplaysRoster`, which is
  a part of `IInv`: the entry that a step appends says of each row what the same
  step has stored.
* `TimedRowsKept` and `NumberedOnce` are proved of the steps that change an
  outcome or make a decision, since only those must keep them: an edit in the
  Desk may change a timed row or repeat a number.
* `PlacedOnce` needs `FreshInv`, an invariant of its own: the person an operation
  brings is nowhere before the operation is applied or decided. That rests on
  `DeskAssumption`: such a person has an id of its own, which tablets (not part
  of this repository) generate.
* `ArchivingKeepsDecisions` needs that `PacketDependenciesApplied`, the only check
  of a decision that reads the feed, looks at the archive as well. That nothing
  archived is published again is the guard of `Published`, and not part of it.

**Packet relay.** The inductive invariant is `RelayInv`. Its parts for the Desk
(`OpInv`, `StateInv`) and for the site (`SiteInv`) are those of packet issuance,
of which the site's are cited as `Site!...`: the lemmas hold of any Desk, and
`SameAssumptions` and `SameOperations` say that the site's constants and
operations are the Desk's. They had to be stated of every action rather than of
the Desk's next-state relation, because Desk and site take steps that a Desk
alone does not: the Desk applies feed actions and rebases, and the site takes
over decisions. `SiteInv` adds that what the site's feed says of a registration
is what the site has. Then:

* `UpTo(f, i, n)` is what the first `n` actions of a feed say of a registration.
  `BaseInv` is the baseline in these terms, as of the cursor, and `BootInv` a
  bootstrap under way, as of the cursor it was made at. Both stay true of a feed
  that grows, and `BaselineTracksSite` follows.
* `LocalChangesKept` follows from `MergeKeepsOwn`, a theorem about `Overlay` on
  persons and registrations, which says of every field, the nested ones included,
  that a merge changes it only where it had the base's value. `RelayInv` is
  needed to know that what is merged are registrations.
* `FeedNeverBlocks` needs `FollowInv`: every action of the site's feed continues
  what the feed told before, or decides a conflict that it told
  (`FeedTells`), and until a rebase the Desk has heard all of it and has the same
  in its baseline (`DeskFollows`). `DecisionTells`, `ReceiptTells` and `EditTells`
  of `PacketProofs` say of the three ways to publish that before images are what
  the feed told last.

`FeedDoesNotBlock` has two hypotheses, both about the site and both true in
every state of the run. TLC shows that without either the property is false,
since of two things the feed tells less than the site has:

* `NeverEmptied`: no registration is left live and empty. When a registration
  that one operation created is emptied by a second (`assign_reserve` without
  return), and a conflict of a third with it is decided against the proposal, the
  decision is published with an absent after image (`packet_issuance_store.go:1078`
  takes the empty registration for one that never existed), the Desk's baseline
  ends there, and the site's next edit of the row names a before image that the
  baseline does not have. This takes four operations and an edit.
* `RacesUndecided`: no race change is decided. A race change in conflict is not
  published (`packet_issuance_store.go:1047`). It can still be decided, once its
  registration has come to be in the race that was proposed, and the decision,
  which is published, names an input that the Desk has not heard of
  (`packet_resolution_input_missing`). This takes one race change of a runner
  without a number, two edits of his race on the site, the second to the race
  that was proposed, and the decision (`Op = {o1, o2}`, `SiteEdit = {s1, s2}`,
  three races, `Commands = {"change_race"}`, `EditorFields = {"race"}`).

Both presume a site that publishes as the Desk does.

**Packet LAN.** `OwnerInv`: what a tablet has of a connection, in its copy or in a
request, it owns. `CopyInv`: a request for the feed continues the copy it will be
added to. `ArchiveInv` bounds what is published between the check of an archiving
and its transaction, and `ReachInv` says that no connected copy is behind what is
archived or is about to be. `ConnectedNotExpired` assumes `MaxConn <= ListLimit`:
the check goes over the listed connections, and the code lists the newest 100 of
an event. With more, an older tablet can be passed over, and the property does
not hold.

**Packet delivery.** A club stays with its person because on both sides the owner
of a registration is the one that the last applied operation left (`LastLeft`),
and operations on one registration are applied in their order (`Closed`), however
they arrive. `SyncInv` says what a synchronisation carries from one step to the
next, above all that a receipt it is about to store is the site's. A batch is
handled by the site in the order of the journal, a recursive function
(`SiteAfter`); that it is defined, and what the site has applied after each of its
steps (`SiteAfterSteps` and the lemma on `Follows`), are shown by the least
counterexample.

The lemma `LeastNat` serves as induction on numbers wherever one is needed: an
assertion that fails somewhere fails at a least number. The modules that need it
have it each.

### Only model-checked

* Liveness: `EventuallySettled`, `EventuallyRelayed`, `CatchesUp` (twice),
  `StreamsCatchUp`, `Delivered`, `ClubsAgree`. Fairness and `ENABLED` are out of
  the prover's reach.
* `Converged` of `PacketRelay`. It compares the results of two histories, the
  Desk's and the site's, that merge the same changes in different orders. A proof
  would need that merges of changes that do not conflict commute, over whole
  histories, which is an induction over data.
* `FeedNeverBlocks` without its two conditions, for the commands of the run.

## Disagreements with the documents

What the code does, where a document or a comment says something else. The named
properties are defined in the modules and are violated: added to the cfg, they
make TLC print the behaviour.

* `StoredIsProcessed` (`EventProjection.cfg`). `livePublisher.Publish` commits
  the raw read (`live.go:373`) and processes it in a second transaction
  (`live.go:384`). If that fails, the read has no result, and its retransmission
  returns at `live.go:380` under the comment "reader retransmit — already
  processed". `docs/snapshot-recount.md:68`: "A new reader observation is
  persisted and processed once for its participant".
* `SyncPullRebuildsUnion` (`EventProjectionManual.cfg`). `handleSyncPull` imports
  the snapshot, pulls the feed, and recounts everything only if the feed asked
  for no recount of its own (`sync_handlers.go:215`). A feed page about one
  member leaves the rest of the snapshot unprojected, and nothing marks it as
  pending. `docs/site-sync-multi-point.md:7`: "Synchronization must merge their
  raw observations and then rebuild the derived results from that union."
* `SiteStateWins` (`EventProjectionManual.cfg`). The snapshot is downloaded and
  imported outside the mutex of the pulls (`sync_handlers.go:205`). A background
  pull in between is undone for an observation, and its cursor has passed the
  item. `docs/architecture.md:221`: "Manual and background pulls share one
  per-event mutex, so cursor application and compatibility recount never
  overlap. Site stays the source of truth."
* `ReceiptsPublished` (`PacketRelay.cfg`, a `PROPERTY`). An operation waits at
  the Desk for another; the site's feed brings both, and a later site edit of
  the same field. The stored outcome of the operation stays
  `waiting_dependency`, so a repetition by the tablet is decided once more and
  applied over the edit, while `PublishPacketOperation` finds the action in the
  feed and publishes nothing. `docs/architecture.md:247`: "Projection +
  operation + feed commit atomically".
* `RunningResumes` (`PacketLAN.cfg`). `Stop` gives up the mutex while it waits
  for requests (`server.go:183`); an event started meanwhile is marked as
  disabled by `DisableLAN` and is not resumed. `docs/releases/0.6.0.md:40`: "a
  previously enabled event resumes after a Desk restart".
* `AlwaysDelivered` (`PacketPush.cfg`, a `PROPERTY`). While a club edit waits,
  operations are sent one at a time, oldest first (`packet_issuance_site.go:159`).
  If the oldest waits on the site for an operation that was recorded later, it
  is sent for ever. `docs/architecture.md:286`, of decisions: "no arrival-time
  LWW or infinite retry blocks unrelated work".
* `EditBeforeMove` (`PacketPush.cfg`). A club edit and then an operation that
  changes the owner arrive after a synchronisation has found no pending club
  edit and before it lists the operations: the operation is sent first, and the
  edit ends in a conflict. `packet_club_relay.go:79`: "backoff of an
  already-ready Club blocks a later owner-changing packet command".

Seen while modelling, without a property of their own:

* The site returns an operation that was published here and archived since:
  `RelayPacketSiteAction` looks only at the live feed
  (`packet_issuance_store.go:1003`) and publishes it again, although its comment
  says that it "is not duplicated"; the next archiving that covers the second
  occurrence fails on the archive's key. The guard of `Compact` has this.
* A rebase changes registrations without an action in the local feed
  (`packet_issuance_rebase.go`), so tablets on the LAN see the result only with
  their next bootstrap.
* A rebase that skips the occurrence of a conflict blocks the site's feed when
  its decision follows (`packet_resolution_input_missing`): `FeedNeverBlocks` is
  stated without rebases for this reason. A registration created here and not
  yet known to the site leaves the baseline incomplete and refuses the rebase.
* One conflict whose registration is gone makes the whole page of conflicts fail
  (`packet_issuance_resolution.go:38`), the others on it included; `Show` has
  this guard.

## Plan

Done: the journal, the relay to Hubs, the projection, the presenter stream,
packet issuance with its relay, its LAN and the clubs, and proofs for all of
them. Left, in this order:

1. `EditJournal`: local edits of all fields, manual finishes, undo, their push,
   and reapplication after an import (hazard at `observation_import.go:86`).
2. `Sessions`: reader, photo and pull sessions under their managers.
3. `Processor`: checkpoint selection and laps for one member, against a
   reference definition.

## Not modelled

* Enrollment and credentials of the packet relay, the limiter of claims, mDNS,
  TLS and CORS: short request-and-answer code without interleavings of its own.
* Identity conflicts (one id with two contents): the model has one content per
  id, as the code refuses the second.
* Formatting and exports, photo files, migrations, certificates, the user
  interface: pure input and output.
* The rules inside timing-core and on the site, which are not part of the
  repository.
