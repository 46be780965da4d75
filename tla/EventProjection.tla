--------------------------- MODULE EventProjection ---------------------------
(***************************************************************************)
(* Raw observations, the results derived from them, and the pulls that     *)
(* bring observations of other timing points (sitesync_pull.go,            *)
(* sync_pull_manager.go, sync_store.go, recount.go, processor.go, live.go, *)
(* edge_live.go, handleSyncPull of sync_handlers.go).                      *)
(*                                                                         *)
(* Every transaction of the event database is one step.  Between them live *)
(* reads are stored and processed, the judge edits identities, the site    *)
(* changes, a background and a manual pull take turns, calls fail and the  *)
(* application crashes.  A read is tracked by the member whose progress    *)
(* accounts for it; which checkpoint it counts for is not modelled.        *)
(***************************************************************************)
EXTENDS Integers, Sequences, FiniteSetsExt

CONSTANTS
    Log,         \* observations
    Member,      \* participants
    None,        \* nobody: no participant has the bib or tag
    Many,        \* more than one has it
    MaxFeed,     \* bound on the changes the site publishes
    MaxTargeted, \* maxTargetedMembersPerPlan
    Writers      \* which writers exist: native, edge, edit, manual pull

ASSUME ProjectionAssumption ==
    /\ None \notin Member /\ Many \notin Member /\ None # Many
    /\ MaxFeed \in Nat
    /\ MaxTargeted \in Nat
    /\ Writers \subseteq {"native", "edge", "edit", "manual"}

VARIABLES
    raw,       \* rfid_logs: absent, on, or off (disabled_at is set)
    holder,    \* whose bib or tag an observation carries, under the present roster
    result,    \* results: the member an observation counts for
    feed,      \* the site's change feed: <<observation, state>>
    cursor,    \* sync_config.pull_cursor: items consumed
    pending,   \* sync_config.projection_pending
    pull,      \* PullNow, under the event's mutex
    fence,     \* the evidence a pull has read is still that of the database
    manual,    \* handleSyncPull: its phase
    snapshot,  \* the event export it has downloaded
    inflight,  \* native reads stored and not yet processed
    stranded,  \* history: native reads whose processing was lost
    owed       \* history: replays of the whole event that are due

vars == <<raw, holder, result, feed, cursor, pending, pull, fence, manual, snapshot, inflight, stranded, owed>>
inputs == <<raw, holder, cursor>>

State == {"absent", "on", "off"}
Identity == Member \cup {None, Many}

Pull == [phase : {"idle", "pages", "fetched", "last", "fenced", "planned"}, by : {"timer", "manual"},
         recovery : BOOLEAN, some : BOOLEAN, upto : 0 .. MaxFeed, more : BOOLEAN,
         mutated : SUBSET Log, members : SUBSET Member, event : BOOLEAN]

NoPull == [phase |-> "idle", by |-> "timer", recovery |-> FALSE, some |-> FALSE,
           upto |-> 0, more |-> FALSE, mutated |-> {}, members |-> {}, event |-> FALSE]
NoSnapshot == [l \in Log |-> "absent"]

TypeOK ==
    /\ raw \in [Log -> State]
    /\ holder \in [Log -> Identity]
    /\ result \in [Log -> Member \cup {None}]
    /\ feed \in Seq(Log \X {"on", "off"})
    /\ cursor \in 0 .. Len(feed)
    /\ pending \in BOOLEAN
    /\ pull \in Pull
    /\ fence \in BOOLEAN
    /\ manual \in {"idle", "fetched", "applied", "imported", "pulling", "recount", "done"}
    /\ snapshot \in [Log -> State]
    /\ inflight \subseteq Log
    /\ stranded \subseteq Log
    /\ owed \subseteq {"edit", "import"}

Init ==
    /\ raw = [l \in Log |-> "absent"]
    /\ holder \in [Log -> Identity]
    /\ result = [l \in Log |-> None]
    /\ feed = <<>>
    /\ cursor = 0
    /\ pending = FALSE
    /\ pull = NoPull
    /\ fence = FALSE
    /\ manual = "idle"
    /\ snapshot = NoSnapshot
    /\ inflight = {}
    /\ stranded = {}
    /\ owed = {}

\* What the site holds: the last state it has published.
Site == [l \in Log |->
    LET S == {n \in 1 .. Len(feed) : feed[n][1] = l}
    IN  IF S = {} THEN "absent" ELSE feed[Max(S)][2]]

\* The evidence covers members with their start and finish times, observations
\* and the cursor, but no result of a chip read: it ends with a step that changes
\* these inputs, and with one that changes results only if a time goes with it.
KeepFence ==
    /\ fence' \in {fence, FALSE}
    /\ fence' => UNCHANGED inputs
    /\ UNCHANGED <<inputs, result>> => fence' = fence

-----------------------------------------------------------------------------
(* Deriving results.                                                       *)

\* Processor.Process: a result that exists stays, a disabled or unknown read
\* has none; more than one holder is an error of the caller's transaction.
Processed(l) ==
    IF result[l] # None THEN result[l]
    ELSE IF raw[l] = "on" /\ holder[l] \in Member THEN holder[l] ELSE None

\* What a replay of all observations derives.
Ideal(l) == IF raw[l] = "on" /\ holder[l] \in Member THEN holder[l] ELSE None

Unambiguous == \A l \in Log : raw[l] = "on" => holder[l] # Many

\* recount of the whole event: wipe and replay in one transaction.
ReplayEvent ==
    /\ Unambiguous
    /\ result' = [l \in Log |-> Ideal(l)]
    /\ stranded' = {}
    /\ owed' = {}

\* recountMembers: the results of M are wiped and the observations of M are
\* processed again, unless another member's result reserves them.
ReplayMembers(M) ==
    /\ result' = [l \in Log |->
          LET kept == IF result[l] \in M THEN None ELSE result[l]
          IN  IF holder[l] \in M /\ raw[l] = "on" /\ kept = None THEN holder[l] ELSE kept]
    /\ stranded' = {l \in stranded : holder[l] \notin M}
    /\ UNCHANGED owed

-----------------------------------------------------------------------------
(* Live input.                                                             *)

\* livePublisher.Publish, first transaction: InsertOwnedRfidLogs.
NativeInsert(l) ==
    /\ "native" \in Writers
    /\ raw[l] = "absent"
    /\ raw' = [raw EXCEPT ![l] = "on"]
    /\ inflight' = inflight \cup {l}
    /\ UNCHANGED <<holder, result, feed, cursor, pending, pull, manual, snapshot, stranded, owed>>
    /\ KeepFence

\* Second transaction: Process.
NativeProcess(l) ==
    /\ l \in inflight
    /\ holder[l] # Many
    /\ result' = [result EXCEPT ![l] = Processed(l)]
    /\ inflight' = inflight \ {l}
    /\ UNCHANGED <<raw, holder, feed, cursor, pending, pull, manual, snapshot, stranded, owed>>
    /\ KeepFence

\* Process fails: the read stays stored, and a retransmission of it is
\* answered as a duplicate from now on.
NativeFails(l) ==
    /\ l \in inflight
    /\ inflight' = inflight \ {l}
    /\ stranded' = stranded \cup {l}
    /\ UNCHANGED <<raw, holder, result, feed, cursor, pending, pull, fence, manual, snapshot, owed>>

\* edgePublisher.Publish: acceptance and processing in one transaction.
EdgePublish(l) ==
    /\ "edge" \in Writers
    /\ raw[l] = "absent"
    /\ holder[l] # Many
    /\ raw' = [raw EXCEPT ![l] = "on"]
    /\ result' = [result EXCEPT ![l] = IF holder[l] \in Member THEN holder[l] ELSE None]
    /\ UNCHANGED <<holder, feed, cursor, pending, pull, manual, snapshot, inflight, stranded, owed>>
    /\ KeepFence

\* applyEdit of a member's number or EPC: the page is told to recount.
EditIdentity(l, who) ==
    /\ "edit" \in Writers
    /\ who # holder[l]
    /\ holder' = [holder EXCEPT ![l] = who]
    /\ owed' = owed \cup {"edit"}
    /\ UNCHANGED <<raw, result, feed, cursor, pending, pull, manual, snapshot, inflight, stranded>>
    /\ KeepFence

\* handleRecount: Recount of the whole event.
Recount ==
    /\ ReplayEvent
    /\ UNCHANGED <<raw, holder, feed, cursor, pending, pull, manual, snapshot, inflight>>
    /\ KeepFence

-----------------------------------------------------------------------------
(* The site, external: it creates observations and changes their state.    *)
SiteChange(l) ==
    /\ Len(feed) < MaxFeed
    /\ \E s \in {"on", "off"} : s # Site[l] /\ feed' = Append(feed, <<l, s>>)
    /\ UNCHANGED <<raw, holder, result, cursor, pending, pull, fence, manual, snapshot, inflight, stranded, owed>>

-----------------------------------------------------------------------------
(* PullNow.                                                                *)

\* The mutex is taken and projection_pending read.
PullBegin(by) ==
    /\ pull.phase = "idle"
    /\ by = "manual" => manual = "imported"
    /\ pull' = [NoPull EXCEPT !.phase = "pages", !.by = by, !.recovery = pending]
    /\ manual' = IF by = "manual" THEN "pulling" ELSE manual
    /\ UNCHANGED <<raw, holder, result, feed, cursor, pending, fence, snapshot, inflight, stranded, owed>>

\* Mutant: the page's own value is stored, without MAX.
PendingAfter_Last(changed) == changed

\* projection_pending = MAX(old, changed)
PendingAfter(changed) == pending \/ changed

\* PullChangeFeedPage: some of the items after the cursor, and whether the site
\* has more of them at that moment.  Without an item there is nothing to apply.
PullFetch ==
    /\ pull.phase = "pages"
    /\ IF cursor = Len(feed)
       THEN pull' = [pull EXCEPT !.phase = "last"]
       ELSE \E n \in cursor + 1 .. Len(feed) :
                pull' = [pull EXCEPT !.phase = "fetched", !.upto = n, !.more = n < Len(feed)]
    /\ UNCHANGED <<raw, holder, result, feed, cursor, pending, fence, manual, snapshot, inflight, stranded, owed>>

\* The fetched items of an observation, in the order of the feed.
PageOf(l) == {n \in cursor + 1 .. pull.upto : feed[n][1] = l}

\* importObservation: the row is inserted or its state changed, else a duplicate.
ChangedBy(l) == \E n \in PageOf(l) : feed[n][2] # raw[l]

NextCursor == pull.upto

\* ApplyObservationFeedPageWithMutations: import, cursor and pending bit in one
\* transaction.
PullPage ==
    /\ pull.phase = "fetched"
    /\ LET changed == {l \in Log : ChangedBy(l)}
       IN  /\ raw' = [l \in Log |-> IF PageOf(l) = {} THEN raw[l] ELSE feed[Max(PageOf(l))][2]]
           /\ pending' = PendingAfter(changed # {})
           /\ pull' = [pull EXCEPT !.phase = IF pull.more THEN "pages" ELSE "last", !.some = TRUE,
                          !.upto = 0, !.more = FALSE, !.mutated = @ \cup changed]
    /\ cursor' = NextCursor
    /\ UNCHANGED <<holder, result, feed, manual, snapshot, inflight, stranded, owed>>
    /\ KeepFence

\* finalizePullProjectionPlan: first the evidence is read,
PullEvidence ==
    /\ pull.phase = "last"
    /\ pull' = [pull EXCEPT !.phase = "fenced"]
    /\ fence' = TRUE
    /\ UNCHANGED <<raw, holder, result, feed, cursor, pending, manual, snapshot, inflight, stranded, owed>>

\* then the holders of what has changed are looked up.
PullPlan ==
    /\ pull.phase = "fenced"
    /\ LET members == {holder[l] : l \in pull.mutated} \cap Member
       IN  pull' = [pull EXCEPT !.phase = "planned", !.mutated = {},
              !.members = members,
              !.event = \/ pull.recovery
                        \/ \E l \in pull.mutated : holder[l] = Many
                        \/ Cardinality(members) > MaxTargeted]
    /\ UNCHANGED <<raw, holder, result, feed, cursor, pending, fence, manual, snapshot, inflight, stranded, owed>>

\* How handleSyncPull goes on: it is content with any executed plan.
AfterPull(executed) ==
    IF pull.by = "timer" THEN manual ELSE IF executed THEN "done" ELSE "recount"

\* Mutant: the pull is over when the feed has nothing new.
NothingToDo_NoRecovery == ~pull.some

\* No page had items and nothing is pending: there is no plan to execute.
NothingToDo == ~pull.some /\ ~pull.event

PullNothing ==
    /\ pull.phase = "planned"
    /\ NothingToDo
    /\ pull' = NoPull
    /\ manual' = AfterPull(FALSE)
    /\ fence' = FALSE
    /\ UNCHANGED <<raw, holder, result, feed, cursor, pending, snapshot, inflight, stranded, owed>>

\* Mutant: the evidence is not compared again.
EvidenceHolds_Unchecked == TRUE

EvidenceHolds == fence

\* RecountPlan: one transaction that compares the evidence, replays what the
\* plan names, or the event if the evidence has changed, and clears the bit.
PullRecount ==
    /\ pull.phase = "planned"
    /\ ~NothingToDo
    /\ IF EvidenceHolds /\ ~pull.event THEN ReplayMembers(pull.members) ELSE ReplayEvent
    /\ pending' = FALSE
    /\ pull' = NoPull
    /\ manual' = AfterPull(pull.event \/ pull.members # {})
    /\ fence' = FALSE
    /\ UNCHANGED <<raw, holder, feed, cursor, snapshot, inflight>>

\* Every error return of PullNow: a page that cannot be fetched or applied, a
\* replay that fails and is rolled back.
PullFails ==
    /\ pull.phase # "idle"
    /\ pull' = NoPull
    /\ manual' = IF pull.by = "manual" THEN "idle" ELSE manual
    /\ fence' = FALSE
    /\ UNCHANGED <<raw, holder, result, feed, cursor, pending, snapshot, inflight, stranded, owed>>

-----------------------------------------------------------------------------
(* handleSyncPull.                                                         *)

\* PullExport, outside the mutex.
ManualFetch ==
    /\ "manual" \in Writers
    /\ manual = "idle"
    /\ manual' = "fetched"
    /\ snapshot' = Site
    /\ UNCHANGED <<raw, holder, result, feed, cursor, pending, pull, fence, inflight, stranded, owed>>

\* ApplyEventImport, upsertRfidLogs: observations take the state of the export,
\* one that it does not have stays.
Imported(l) == IF snapshot[l] = "absent" THEN raw[l] ELSE snapshot[l]

\* Import: members take their identities as well.
ManualApply ==
    /\ manual = "fetched"
    /\ manual' = "applied"
    /\ raw' = [l \in Log |-> Imported(l)]
    /\ snapshot' = NoSnapshot
    /\ holder' \in {holder} \cup (IF "edit" \in Writers THEN [Log -> Identity] ELSE {})
    /\ owed' = owed \cup {"import"}
    /\ UNCHANGED <<result, feed, cursor, pending, pull, inflight, stranded>>
    /\ KeepFence

\* ReapplyLocalEdits puts local identities back, unless the site wins.
ManualReapply ==
    /\ manual = "applied"
    /\ manual' = "imported"
    /\ holder' \in {holder} \cup (IF "edit" \in Writers THEN [Log -> Identity] ELSE {})
    /\ owed' = IF holder' = holder THEN owed ELSE owed \cup {"import"}
    /\ UNCHANGED <<raw, result, feed, cursor, pending, pull, snapshot, inflight, stranded>>
    /\ KeepFence

\* pulled.Recount == nil: Recount of the whole event.
ManualRecount ==
    /\ manual = "recount"
    /\ ReplayEvent
    /\ manual' = "done"
    /\ UNCHANGED <<raw, holder, feed, cursor, pending, pull, snapshot, inflight>>
    /\ KeepFence

\* Any other error of the handler, of the packet feed for instance, or its
\* answer to the page.
ManualEnds ==
    /\ manual \notin {"idle", "pulling"}
    /\ manual' = "idle"
    /\ snapshot' = NoSnapshot
    /\ UNCHANGED <<raw, holder, result, feed, cursor, pending, pull, fence, inflight, stranded, owed>>

Crash ==
    /\ pull' = NoPull
    /\ fence' = FALSE
    /\ manual' = "idle"
    /\ snapshot' = NoSnapshot
    /\ inflight' = {}
    /\ stranded' = stranded \cup inflight
    /\ UNCHANGED <<raw, holder, result, feed, cursor, pending, owed>>

-----------------------------------------------------------------------------
Next ==
    \/ \E l \in Log : NativeInsert(l)
    \/ \E l \in Log : NativeProcess(l)
    \/ \E l \in Log : NativeFails(l)
    \/ \E l \in Log : EdgePublish(l)
    \/ \E l \in Log, who \in Identity : EditIdentity(l, who)
    \/ Recount
    \/ \E l \in Log : SiteChange(l)
    \/ \E by \in {"timer", "manual"} : PullBegin(by)
    \/ PullFetch
    \/ PullPage
    \/ PullEvidence
    \/ PullPlan
    \/ PullNothing
    \/ PullRecount
    \/ PullFails
    \/ ManualFetch
    \/ ManualApply
    \/ ManualReapply
    \/ ManualRecount
    \/ ManualEnds
    \/ Crash

Spec == Init /\ [][Next]_vars

-----------------------------------------------------------------------------
(* Safety.                                                                 *)

\* Whenever no work is recorded as outstanding (projection_pending is clear, no
\* edit or import waits for its recount) every observation counts for the member
\* a replay of the whole event would give it to: no interleaving of pages,
\* plans, live reads, edits, failures and crashes loses a change
\* (ApplyObservationFeedPageWithMutations, RecountPlan).
ProjectionCurrent ==
    ~pending /\ owed = {} => \A l \in Log \ (inflight \cup stranded) : result[l] = Ideal(l)

\* A plan is not executed on a database that has changed under it: when a pull
\* succeeds although an import, an edit or a live read came between its evidence
\* and its recount, the results are those of a full replay, what the import has
\* brought included (RecountPlan compares the evidence in its transaction).
StalePlanReplays ==
    [][pull.phase = "planned" /\ ~fence /\ pending /\ ~pending' =>
         \A l \in Log \ inflight : result'[l] = Ideal(l)]_vars

\* The same without excusing reads whose processing was lost: livePublisher
\* takes a stored read for one that has been processed.
StoredIsProcessed ==
    ~pending /\ owed = {} => \A l \in Log \ inflight : result[l] = Ideal(l)

\* When a manual pull has succeeded the results are those of the union of the
\* local and the imported observations (handleSyncPull).
SyncPullRebuildsUnion ==
    manual = "done" /\ ~pending /\ "edit" \notin owed =>
        \A l \in Log \ (inflight \cup stranded) : result[l] = Ideal(l)

\* The site is the source of truth: between pulls, when its feed is consumed,
\* its state of an observation is the local one (PullNow, ApplyEventImport).
SiteStateWins ==
    manual = "idle" /\ pull.phase = "idle" /\ cursor = Len(feed) =>
        \A l \in Log : Site[l] # "absent" => raw[l] = Site[l]

-----------------------------------------------------------------------------
(* Liveness.  The background session pulls at every tick and a pull runs to *)
(* its end.  Calls fail, the roster is edited and the process dies any      *)
(* number of times, but not for ever.                                       *)

\* A failure that changes nothing is no different from a pull with nothing to do.
Interrupted == (PullFails \/ Crash) /\ ~PullNothing /\ ~PullRecount

Disturbance ==
    \/ Interrupted
    \/ ManualApply \/ ManualReapply
    \/ \E l \in Log, who \in Identity : EditIdentity(l, who)

Fairness ==
    /\ WF_vars(PullBegin("timer"))
    /\ WF_vars(PullFetch)
    /\ WF_vars(PullPage)
    /\ WF_vars(PullEvidence)
    /\ WF_vars(PullPlan)
    /\ WF_vars(PullNothing)
    /\ WF_vars(PullRecount)
    /\ <>[][~Disturbance]_vars

FairSpec == Spec /\ Fairness

\* Once the roster is unambiguous the Desk catches up with the site: the feed is
\* consumed, no projection stays pending and the site's states are the local
\* ones, whatever failed or crashed on the way and however many live reads
\* invalidate the evidence of a pull.
CatchesUp ==
    <>[]Unambiguous =>
        <>[](/\ ~pending
             /\ cursor = Len(feed)
             /\ \A l \in Log : Site[l] # "absent" => raw[l] = Site[l])
=============================================================================
