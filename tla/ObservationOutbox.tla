------------------------- MODULE ObservationOutbox -------------------------
(***************************************************************************)
(* The ownership journal of one event database and its push to the site.   *)
(*                                                                         *)
(* A read captured by this Desk is stored together with a row of           *)
(* observation_outbox, numbered by the installation-wide origin sequence   *)
(* (store.go, origin_identity.go).  Push requests, several of which may be *)
(* running, put the oldest pending rows into one numbered batch, send it   *)
(* over HTTP and settle the batch from the site's item-level               *)
(* acknowledgement (sync_store.go, sync_handlers.go).  Requests and        *)
(* answers are lost, requests arrive after their sender has given up, and  *)
(* the application crashes at any point.                                   *)
(***************************************************************************)
EXTENDS Integers, FiniteSets

CONSTANTS
    Obs,          \* observation ids: md5 of board, epc, time and antenna
    Pusher,       \* concurrent runs of handleSyncPush for the event
    Limit,        \* syncObservationBatchSize
    MaxSequence   \* bound on the origin sequence, 2^63 - 1 in the code

ASSUME OutboxAssumption ==
    /\ IsFiniteSet(Obs)
    /\ Limit \in Nat \ {0}
    /\ MaxSequence \in Nat

VARIABLES
    lastSequence, \* observation_origin.last_sequence, a database of its own
    row,          \* rfid_logs: absent, foreign (imported) or owned
    seq,          \* observation_outbox.origin_sequence, 0 where there is no row
    state,        \* observation_outbox.state, "none" where there is no row
    batch,        \* observation_outbox.batch_id: {first, last} sequence, {} for none
    txOpen,       \* an InsertOwnedRfidLogs transaction holds the writer
    tx,           \* the sequences it has given out, 0 for none
    push,         \* handleSyncPush: the phase of each run and what it holds
    orphans,      \* requests on the wire whose sender no longer waits
    site          \* the observations the site has stored

deskVars == <<row, seq, state, batch>>
vars == <<lastSequence, row, seq, state, batch, txOpen, tx, push, orphans, site>>

NoBatch == {}
BatchId == SUBSET Nat

Pending == {o \in Obs : state[o] = "pending"}
Sent == {o \in Obs : state[o] = "sent"}

\* loadObservationBatch: the rows of a batch that are still sent
SentIn(b) == {o \in Obs : state[o] = "sent" /\ batch[o] = b}

\* ORDER BY origin_sequence LIMIT ?
FirstPending ==
    {o \in Pending : Cardinality({x \in Pending : seq[x] < seq[o]}) < Limit}

\* "%s:%d-%d": the first and the last sequence of the rows
BatchOf(S) ==
    {n \in {seq[o] : o \in S} : (\A o \in S : n <= seq[o]) \/ (\A o \in S : n >= seq[o])}

Idle == [phase |-> "idle", batch |-> NoBatch, items |-> {}, stored |-> {}, refused |-> {}]

PushState ==
    [phase : {"idle", "prepared", "waiting", "answered"}, batch : BatchId,
     items : SUBSET Obs, stored : SUBSET Obs, refused : SUBSET Obs]

TypeOK ==
    /\ lastSequence \in Nat
    /\ row \in [Obs -> {"absent", "foreign", "owned"}]
    /\ seq \in [Obs -> Nat]
    /\ state \in [Obs -> {"none", "pending", "sent", "acked", "rejected"}]
    /\ batch \in [Obs -> BatchId]
    /\ txOpen \in BOOLEAN
    /\ tx \in [Obs -> Nat]
    /\ push \in [Pusher -> PushState]
    /\ orphans \subseteq SUBSET Obs
    /\ site \subseteq Obs

Init ==
    /\ lastSequence = 0
    /\ row = [o \in Obs |-> "absent"]
    /\ seq = [o \in Obs |-> 0]
    /\ state = [o \in Obs |-> "none"]
    /\ batch = [o \in Obs |-> NoBatch]
    /\ txOpen = FALSE
    /\ tx = [o \in Obs |-> 0]
    /\ push = [p \in Pusher |-> Idle]
    /\ orphans = {}
    /\ site = {}

-----------------------------------------------------------------------------
(* Capture: InsertOwnedRfidLogs for a live read or a Feibot CSV.           *)

CaptureBegin ==
    /\ ~txOpen
    /\ txOpen' = TRUE
    /\ UNCHANGED <<lastSequence, tx, deskVars, push, orphans, site>>

\* Mutant: the sequence is advanced with the commit of the event's transaction only.
CaptureLog_Unadvanced(o) ==
    /\ txOpen
    /\ row[o] = "absent"
    /\ tx[o] = 0
    /\ lastSequence < MaxSequence
    /\ tx' = [tx EXCEPT ![o] = lastSequence + 1]
    /\ UNCHANGED <<lastSequence, txOpen, deskVars, push, orphans, site>>

\* The row is inserted, then the sequence is taken, which commits at once in
\* the origin database.  An id that is already stored is skipped.
CaptureLog(o) ==
    /\ txOpen
    /\ row[o] = "absent"
    /\ tx[o] = 0
    /\ lastSequence < MaxSequence
    /\ lastSequence' = lastSequence + 1
    /\ tx' = [tx EXCEPT ![o] = lastSequence + 1]
    /\ UNCHANGED <<txOpen, deskVars, push, orphans, site>>

CaptureCommit ==
    /\ txOpen
    /\ row' = [o \in Obs |-> IF tx[o] > 0 THEN "owned" ELSE row[o]]
    /\ seq' = [o \in Obs |-> IF tx[o] > 0 THEN tx[o] ELSE seq[o]]
    /\ state' = [o \in Obs |-> IF tx[o] > 0 THEN "pending" ELSE state[o]]
    /\ txOpen' = FALSE
    /\ tx' = [o \in Obs |-> 0]
    /\ UNCHANGED <<lastSequence, batch, push, orphans, site>>

\* An error of any statement: the event rows vanish, the sequences stay used.
CaptureRollback ==
    /\ txOpen
    /\ txOpen' = FALSE
    /\ tx' = [o \in Obs |-> 0]
    /\ UNCHANGED <<lastSequence, deskVars, push, orphans, site>>

\* The other event databases of the installation draw from the same sequence.
CaptureElsewhere ==
    /\ lastSequence < MaxSequence
    /\ lastSequence' = lastSequence + 1
    /\ UNCHANGED <<txOpen, tx, deskVars, push, orphans, site>>

\* Mutant: the import goes through the owning insert.
ImportObservation_Owning(o) ==
    /\ ~txOpen
    /\ o \in site
    /\ row[o] = "absent"
    /\ row' = [row EXCEPT ![o] = "foreign"]
    /\ state' = [state EXCEPT ![o] = "pending"]
    /\ UNCHANGED <<lastSequence, txOpen, tx, seq, batch, push, orphans, site>>

\* importObservation: an unknown observation of the site is stored without an
\* outbox row; one that is known already, owned or not, keeps its ownership.
ImportObservation(o) ==
    /\ ~txOpen
    /\ o \in site
    /\ row[o] = "absent"
    /\ row' = [row EXCEPT ![o] = "foreign"]
    /\ UNCHANGED <<lastSequence, txOpen, tx, seq, state, batch, push, orphans, site>>

-----------------------------------------------------------------------------
(* Push: handleSyncPush.                                                   *)

\* Mutant: the first row is compared with itself too.
RetryRow_Strict(o) == o \in Sent /\ \A x \in Sent : seq[o] < seq[x]

\* WHERE state = 'sent' ORDER BY origin_sequence LIMIT 1
RetryRow(o) == o \in Sent /\ \A x \in Sent : seq[o] <= seq[x]

\* Mutant: a new batch is cut without looking for an outstanding one.
NoneOutstanding_Unchecked == TRUE

NoneOutstanding == Sent = {}

\* PrepareObservationBatch finds an outstanding batch: it is sent again.
PrepareRetry(p) ==
    /\ ~txOpen
    /\ push[p].phase = "idle"
    /\ \E o \in Obs :
          /\ RetryRow(o)
          /\ push' = [push EXCEPT ![p] =
                [Idle EXCEPT !.phase = "prepared", !.batch = batch[o], !.items = SentIn(batch[o])]]
    /\ UNCHANGED <<lastSequence, txOpen, tx, deskVars, orphans, site>>

\* PrepareObservationBatch finds none: the oldest pending rows become one.
PrepareNew(p) ==
    /\ ~txOpen
    /\ push[p].phase = "idle"
    /\ NoneOutstanding
    /\ Pending # {}
    /\ state' = [o \in Obs |-> IF o \in FirstPending THEN "sent" ELSE state[o]]
    /\ batch' = [o \in Obs |-> IF o \in FirstPending THEN BatchOf(FirstPending) ELSE batch[o]]
    /\ push' = [push EXCEPT ![p] =
          [Idle EXCEPT !.phase = "prepared", !.batch = BatchOf(FirstPending), !.items = FirstPending]]
    /\ UNCHANGED <<lastSequence, txOpen, tx, row, seq, orphans, site>>

\* PushSync, once the site has advertised the schema: the request leaves.
Send(p) ==
    /\ push[p].phase = "prepared"
    /\ push' = [push EXCEPT ![p].phase = "waiting"]
    /\ UNCHANGED <<lastSequence, txOpen, tx, deskVars, orphans, site>>

\* Every error return of the handler before the acknowledgement is applied: a
\* failed preflight, no connection, a timeout, an error status.  A request
\* that is under way stays under way.
GiveUp(p) ==
    /\ push[p].phase # "idle"
    /\ push' = [push EXCEPT ![p] = Idle]
    /\ orphans' = IF push[p].phase = "waiting" THEN orphans \cup {push[p].items} ELSE orphans
    /\ UNCHANGED <<lastSequence, txOpen, tx, deskVars, site>>

\* Mutant: the number of items is not compared.
AckCovers_Partial(p) ==
    /\ push[p].stored \cup push[p].refused # {}
    /\ push[p].stored \cup push[p].refused \subseteq SentIn(push[p].batch)

\* Mutant: the answer is compared with the request, not with the journal.
AckCovers_Stale(p) == push[p].stored \cup push[p].refused = push[p].items

\* applyObservationAck and ApplyObservationAck accept an answer that names
\* exactly the rows of the batch that are still sent.
AckCovers(p) ==
    /\ SentIn(push[p].batch) # {}
    /\ push[p].stored \cup push[p].refused = SentIn(push[p].batch)

\* Mutant: the site's word is stored as the state.
AckState_Verbatim(p, o) ==
    IF o \in push[p].stored THEN "inserted" ELSE IF o \in push[p].refused THEN "rejected" ELSE state[o]

\* Mutant: a rejection counts as an answer.
AckState_AllAcked(p, o) ==
    IF o \in push[p].stored \cup push[p].refused THEN "acked" ELSE state[o]

\* "inserted" and "duplicate" settle a row as acked, "rejected" as rejected.
AckState(p, o) ==
    IF o \in push[p].stored THEN "acked" ELSE IF o \in push[p].refused THEN "rejected" ELSE state[o]

ApplyAck(p) ==
    /\ ~txOpen
    /\ push[p].phase = "answered"
    /\ AckCovers(p)
    /\ state' = [o \in Obs |-> AckState(p, o)]
    /\ push' = [push EXCEPT ![p] = Idle]
    /\ UNCHANGED <<lastSequence, txOpen, tx, row, seq, batch, orphans, site>>

\* Any other answer is an error return; the batch stays sent for a retry.
AckMismatch(p) ==
    /\ push[p].phase = "answered"
    /\ ~AckCovers(p)
    /\ push' = [push EXCEPT ![p] = Idle]
    /\ UNCHANGED <<lastSequence, txOpen, tx, deskVars, orphans, site>>

\* The process dies: open transactions and running handlers are gone, what
\* they have sent is not.
Crash ==
    /\ txOpen' = FALSE
    /\ tx' = [o \in Obs |-> 0]
    /\ push' = [p \in Pusher |-> Idle]
    /\ orphans' = orphans \cup {push[p].items : p \in {q \in Pusher : push[q].phase = "waiting"}}
    /\ UNCHANGED <<lastSequence, deskVars, site>>

-----------------------------------------------------------------------------
(* The site, external: an item it holds is a duplicate, any other one is   *)
(* inserted or rejected, and the answer may leave items out.               *)

SiteStore(o) ==
    /\ site' = site \cup {o}
    /\ UNCHANGED <<lastSequence, txOpen, tx, deskVars, push, orphans>>

SiteAnswer(p) ==
    /\ push[p].phase = "waiting"
    /\ \E refused \in SUBSET (push[p].items \ site), cover \in SUBSET push[p].items :
          /\ site' = site \cup (push[p].items \ refused)
          /\ push' = [push EXCEPT ![p] =
                [@ EXCEPT !.phase = "answered", !.stored = cover \ refused, !.refused = cover \cap refused]]
    /\ UNCHANGED <<lastSequence, txOpen, tx, deskVars, orphans>>

SiteLate(r) ==
    /\ \E refused \in SUBSET (r \ site) : site' = site \cup (r \ refused)
    /\ orphans' = orphans \ {r}
    /\ UNCHANGED <<lastSequence, txOpen, tx, deskVars, push>>

-----------------------------------------------------------------------------
Next ==
    \/ CaptureBegin
    \/ \E o \in Obs : CaptureLog(o)
    \/ CaptureCommit
    \/ CaptureRollback
    \/ CaptureElsewhere
    \/ \E o \in Obs : ImportObservation(o)
    \/ \E p \in Pusher : PrepareRetry(p)
    \/ \E p \in Pusher : PrepareNew(p)
    \/ \E p \in Pusher : Send(p)
    \/ \E p \in Pusher : GiveUp(p)
    \/ \E p \in Pusher : ApplyAck(p)
    \/ \E p \in Pusher : AckMismatch(p)
    \/ Crash
    \/ \E o \in Obs : SiteStore(o)
    \/ \E p \in Pusher : SiteAnswer(p)
    \/ \E r \in orphans : SiteLate(r)

Spec == Init /\ [][Next]_vars

-----------------------------------------------------------------------------
(* Safety.                                                                 *)

\* An outbox row says "acked" only for an observation the site holds, whatever
\* was lost, sent twice or answered late (ApplyObservationAck).
AckedIsStored == \A o \in Obs : state[o] = "acked" => o \in site

\* Only reads captured here are journaled and put on the wire: an imported row
\* never gains an outbox row, so the Desk never sends back what it pulled
\* (InsertOwnedRfidLogs, importObservation, PrepareObservationBatch).
OnlyOwnedPushed ==
    /\ \A o \in Obs : state[o] # "none" <=> row[o] = "owned"
    /\ \A p \in Pusher : \A o \in push[p].items : row[o] = "owned"
    /\ \A r \in orphans : \A o \in r : row[o] = "owned"

\* However many pushes run, at most one batch is outstanding
\* (PrepareObservationBatch prefers the sent batch to a new one).
OneOutstandingBatch == \A a, b \in Sent : batch[a] = batch[b]

\* The journal is a queue: no two rows share a sequence, in particular not
\* after a rollback or a crash, and a pending row is younger than every row
\* that has left the queue (installationOrigin.Next inside the transaction).
JournalOrder ==
    /\ \A a, b \in Obs : state[a] # "none" /\ seq[a] = seq[b] => a = b
    /\ \A a \in Pending, b \in Obs : state[b] \in {"sent", "acked", "rejected"} => seq[b] < seq[a]

\* An outstanding batch neither grows nor shrinks until it is settled, and then
\* all of it is: a partial or stale acknowledgement changes no row.
BatchSettlesWhole ==
    [][\A o \in Sent :
         LET rest == {x \in SentIn(batch[o]) : state'[x] = "sent"}
         IN  /\ rest \in {{}, SentIn(batch[o])}
             /\ rest # {} => SentIn(batch[o])' = SentIn(batch[o])]_vars

\* The journal implements the promise of OwnedDelivery: the order of capture is
\* the origin sequence, an observation is open until its row is settled.
Delivery == INSTANCE OwnedDelivery WITH
    rank <- seq,
    verdict <- [o \in Obs |-> IF state[o] \in {"acked", "rejected"} THEN state[o] ELSE "open"],
    stored <- site
ImplementsDelivery == Delivery!Spec

-----------------------------------------------------------------------------
(* Liveness.  A push that has started runs to an end, and the operator      *)
(* keeps starting one while observations remain (drain-sync.js loops over  *)
(* has_more).  The network and the process may misbehave for as long as    *)
(* they like, but not for ever.                                            *)

PartialAnswer(p) ==
    /\ SiteAnswer(p)
    /\ push'[p].stored \cup push'[p].refused # push[p].items

\* To give up on an answer that is refused anyway is no disturbance.
Abandoned ==
    /\ Crash \/ \E p \in Pusher : GiveUp(p)
    /\ \A p \in Pusher : ~AckMismatch(p)

Disturbance == Abandoned \/ \E p \in Pusher : PartialAnswer(p)

Fairness ==
    /\ WF_vars(CaptureCommit)
    /\ \A p \in Pusher :
          /\ SF_vars(PrepareRetry(p) \/ PrepareNew(p))
          /\ SF_vars(ApplyAck(p))
          /\ WF_vars(Send(p))
          /\ WF_vars(SiteAnswer(p))
          /\ WF_vars(AckMismatch(p))
    /\ <>[][~Disturbance]_vars

FairSpec == Spec /\ Fairness

\* Every journaled observation is accepted or refused in the end: no schedule
\* of overlapping pushes, lost, late or partial answers and crashes leaves the
\* journal stuck behind a batch that can no longer be acknowledged.
EventuallySettled ==
    \A o \in Obs : state[o] = "pending" ~> state[o] \in {"acked", "rejected"}
=============================================================================
