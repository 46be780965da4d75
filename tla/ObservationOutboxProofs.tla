----------------------- MODULE ObservationOutboxProofs -----------------------
(***************************************************************************)
(* The ownership journal for every set of observations, any number of      *)
(* overlapping pushes and any batch size: its safety properties, and that  *)
(* it implements OwnedDelivery.                                            *)
(***************************************************************************)
EXTENDS ObservationOutbox, FiniteSetTheorems, TLAPS

\* Rows of the outbox are exactly the owned observations; their sequences have
\* been given out.
OwnershipInv ==
    \A o \in Obs :
        /\ state[o] # "none" <=> row[o] = "owned"
        /\ row[o] = "owned" <=> seq[o] > 0
        /\ seq[o] <= lastSequence

\* The open capture transaction holds fresh sequences for unknown observations.
CaptureInv ==
    /\ \A o \in Obs : tx[o] > 0 => txOpen /\ row[o] = "absent" /\ tx[o] <= lastSequence
    /\ \A a, b \in Obs : tx[a] > 0 => seq[b] < tx[a]
    /\ \A a, b \in Obs : tx[a] > 0 /\ tx[a] = tx[b] => a = b

\* What is on the wire is owned, and an answer tells the truth about the site.
WireInv ==
    /\ \A p \in Pusher :
          /\ \A o \in push[p].items : row[o] = "owned"
          /\ push[p].stored \subseteq push[p].items
          /\ push[p].refused \subseteq push[p].items
          /\ push[p].stored \subseteq site
    /\ \A r \in orphans : \A o \in r : row[o] = "owned"

IInv ==
    /\ TypeOK
    /\ OwnershipInv
    /\ CaptureInv
    /\ WireInv
    /\ AckedIsStored
    /\ OneOutstandingBatch
    /\ JournalOrder

-----------------------------------------------------------------------------
(* ORDER BY ... LIMIT takes the oldest rows of the queue.                  *)

\* A pending row older than a chosen one is chosen too (PrepareObservationBatch).
LEMMA FirstPendingIsOldest ==
    ASSUME TypeOK, NEW a \in FirstPending, NEW b \in Pending, seq[b] <= seq[a]
    PROVE  b \in FirstPending
<1> DEFINE Below(o) == {x \in Pending : seq[x] < seq[o]}
<1>1. a \in Pending /\ Cardinality(Below(a)) < Limit
  BY DEF FirstPending
<1>2. IsFiniteSet(Below(a))
  BY OutboxAssumption, FS_Subset, Below(a) \subseteq Obs DEF Pending
<1>3. Below(b) \subseteq Below(a)
  BY <1>1 DEF Pending, TypeOK
<1>4. IsFiniteSet(Below(b)) /\ Cardinality(Below(b)) <= Cardinality(Below(a))
  BY <1>2, <1>3, FS_Subset
<1>5. Cardinality(Below(a)) \in Nat /\ Cardinality(Below(b)) \in Nat /\ Limit \in Nat
  BY <1>2, <1>4, FS_CardinalityType, OutboxAssumption
<1>6. Cardinality(Below(b)) < Limit
  <2> HIDE DEF Below
  <2> QED BY <1>1, <1>4, <1>5
<1> QED
  BY <1>6 DEF FirstPending

\* Only pending rows are chosen (PrepareObservationBatch).
LEMMA FirstPendingInPending == FirstPending \subseteq Pending
BY DEF FirstPending

\* The name of a batch is a set of sequences (PrepareObservationBatch).
LEMMA BatchIdType ==
    ASSUME TypeOK, NEW S \in SUBSET Obs
    PROVE  BatchOf(S) \in BatchId
BY DEF BatchOf, BatchId, TypeOK

-----------------------------------------------------------------------------
(* The inductive invariant holds initially and is kept by every action.    *)

\* An empty event database satisfies the invariant.
LEMMA InitInv == Init => IInv
<1> SUFFICES ASSUME Init PROVE IInv
  OBVIOUS
<1>1. TypeOK
  BY DEF Init, TypeOK, Idle, PushState, NoBatch, BatchId
<1>2. OwnershipInv /\ CaptureInv /\ AckedIsStored /\ OneOutstandingBatch /\ JournalOrder
  BY DEF Init, OwnershipInv, CaptureInv, AckedIsStored, OneOutstandingBatch, JournalOrder, Sent, Pending
<1>3. WireInv
  BY DEF Init, WireInv, Idle
<1> QED
  BY <1>1, <1>2, <1>3 DEF IInv

\* Opening a capture transaction keeps the invariant (InsertOwnedRfidLogs).
LEMMA CaptureBeginInv == IInv /\ CaptureBegin => IInv'
BY DEF IInv, TypeOK, OwnershipInv, CaptureInv, WireInv, AckedIsStored, OneOutstandingBatch,
       JournalOrder, Sent, Pending, CaptureBegin, deskVars

\* So does taking a sequence for a new read (installationOrigin.Next).
LEMMA CaptureLogInv == ASSUME IInv, NEW c \in Obs, CaptureLog(c) PROVE IInv'
<1> USE DEF IInv, CaptureLog, deskVars
<1>1. TypeOK'
  BY DEF TypeOK
<1>2. OwnershipInv'
  BY DEF OwnershipInv, TypeOK
<1>3. CaptureInv'
  BY DEF CaptureInv, OwnershipInv, TypeOK
<1>4. WireInv'
  BY DEF WireInv
<1>5. AckedIsStored' /\ OneOutstandingBatch' /\ JournalOrder'
  BY DEF AckedIsStored, OneOutstandingBatch, JournalOrder, Sent, Pending
<1> QED
  BY <1>1, <1>2, <1>3, <1>4, <1>5

\* So does the commit, which makes the reads owned (InsertOwnedRfidLogs).
LEMMA CaptureCommitInv == IInv /\ CaptureCommit => IInv'
<1> SUFFICES ASSUME IInv, CaptureCommit PROVE IInv'
  OBVIOUS
<1> USE DEF IInv, CaptureCommit
<1>1. TypeOK'
  BY DEF TypeOK
<1>2. OwnershipInv'
  BY DEF OwnershipInv, CaptureInv, TypeOK
<1>3. CaptureInv'
  BY DEF CaptureInv, TypeOK
<1>4. WireInv'
  <2>1. \A o \in Obs : row[o] = "owned" => row'[o] = "owned"
    BY DEF TypeOK
  <2>2. \A p \in Pusher : push[p].items \subseteq Obs
    BY DEF TypeOK, PushState
  <2>3. \A r \in orphans : r \subseteq Obs
    BY DEF TypeOK
  <2> QED
    BY <2>1, <2>2, <2>3 DEF WireInv
<1>5. AckedIsStored' /\ OneOutstandingBatch'
  BY DEF AckedIsStored, OneOutstandingBatch, Sent, TypeOK
<1>6. JournalOrder'
  BY DEF JournalOrder, Pending, CaptureInv, OwnershipInv, TypeOK
<1> QED
  BY <1>1, <1>2, <1>3, <1>4, <1>5, <1>6

\* So does a rollback, which leaves a gap in the sequence.
LEMMA CaptureRollbackInv == IInv /\ CaptureRollback => IInv'
<1> SUFFICES ASSUME IInv, CaptureRollback PROVE IInv'
  OBVIOUS
<1> USE DEF IInv, CaptureRollback, deskVars
<1>1. TypeOK'
  BY DEF TypeOK
<1>2. CaptureInv'
  BY DEF CaptureInv, TypeOK
<1> QED
  BY <1>1, <1>2 DEF OwnershipInv, WireInv, AckedIsStored, OneOutstandingBatch, JournalOrder, Sent, Pending

\* So does a sequence another event of the installation takes.
LEMMA CaptureElsewhereInv == IInv /\ CaptureElsewhere => IInv'
BY DEF IInv, TypeOK, OwnershipInv, CaptureInv, WireInv, AckedIsStored, OneOutstandingBatch,
       JournalOrder, Sent, Pending, CaptureElsewhere, deskVars

\* So does an import, which owns nothing (importObservation).
LEMMA ImportObservationInv == ASSUME IInv, NEW c \in Obs, ImportObservation(c) PROVE IInv'
<1> USE DEF IInv, ImportObservation
<1>1. TypeOK'
  BY DEF TypeOK
<1>2. OwnershipInv' /\ CaptureInv'
  BY DEF OwnershipInv, CaptureInv, TypeOK
<1>3. WireInv'
  BY DEF WireInv, TypeOK
<1>4. AckedIsStored' /\ OneOutstandingBatch' /\ JournalOrder'
  BY DEF AckedIsStored, OneOutstandingBatch, JournalOrder, Sent, Pending
<1> QED
  BY <1>1, <1>2, <1>3, <1>4

\* So does repeating the outstanding batch (PrepareObservationBatch).
LEMMA PrepareRetryInv == ASSUME IInv, NEW p \in Pusher, PrepareRetry(p) PROVE IInv'
<1> USE DEF IInv, deskVars
<1>1. PICK o \in Obs : push' = [push EXCEPT ![p] =
        [Idle EXCEPT !.phase = "prepared", !.batch = batch[o], !.items = SentIn(batch[o])]]
  BY DEF PrepareRetry
<1> USE DEF PrepareRetry
<1>2. TypeOK'
  BY <1>1 DEF TypeOK, PushState, Idle, SentIn
<1>3. OwnershipInv' /\ CaptureInv'
  BY DEF OwnershipInv, CaptureInv
<1>4. WireInv'
  BY <1>1 DEF WireInv, OwnershipInv, Idle, SentIn, TypeOK
<1>5. AckedIsStored' /\ OneOutstandingBatch' /\ JournalOrder'
  BY DEF AckedIsStored, OneOutstandingBatch, JournalOrder, Sent, Pending
<1> QED
  BY <1>2, <1>3, <1>4, <1>5

\* So does cutting a new batch, as none is outstanding (PrepareObservationBatch).
LEMMA PrepareNewInv == ASSUME IInv, NEW p \in Pusher, PrepareNew(p) PROVE IInv'
<1> USE DEF IInv
<1>1. FirstPending \subseteq Pending /\ FirstPending \subseteq Obs
  BY DEF FirstPending, Pending
<1>2. BatchOf(FirstPending) \in BatchId
  BY <1>1, BatchIdType
<1>3. state' = [o \in Obs |-> IF o \in FirstPending THEN "sent" ELSE state[o]]
  BY DEF PrepareNew
<1>4. TypeOK'
  BY <1>1, <1>2 DEF TypeOK, PushState, Idle, PrepareNew
<1>5. OwnershipInv'
  BY <1>1, <1>3 DEF OwnershipInv, PrepareNew, Pending
<1>6. CaptureInv'
  BY DEF CaptureInv, PrepareNew
<1>7. WireInv'
  BY <1>1 DEF WireInv, OwnershipInv, Idle, Pending, PrepareNew, TypeOK
<1>8. AckedIsStored'
  BY <1>3 DEF AckedIsStored, PrepareNew
<1>9. OneOutstandingBatch'
  BY <1>3 DEF OneOutstandingBatch, PrepareNew, NoneOutstanding, Sent
<1>10. JournalOrder'
  <2>1. ASSUME NEW a \in Obs, NEW b \in Obs, state'[a] # "none", seq'[a] = seq'[b]
        PROVE  a = b
    BY <1>1, <1>3, <2>1 DEF JournalOrder, PrepareNew, Pending
  <2>2. ASSUME NEW a \in Obs, NEW b \in Obs, state'[a] = "pending",
               state'[b] \in {"sent", "acked", "rejected"}
        PROVE  seq[b] < seq[a]
    <3>1. a \in Pending /\ a \notin FirstPending
      BY <1>3, <2>2 DEF Pending
    <3>2. CASE b \in FirstPending
      <4>1. ~(seq[a] <= seq[b])
        BY <3>1, <3>2, FirstPendingIsOldest
      <4> QED
        BY <4>1 DEF TypeOK
    <3>3. CASE b \notin FirstPending
      BY <1>3, <2>2, <3>1, <3>3 DEF JournalOrder
    <3> QED
      BY <3>2, <3>3
  <2> QED
    BY <2>1, <2>2 DEF JournalOrder, Pending, PrepareNew
<1> QED
  BY <1>4, <1>5, <1>6, <1>7, <1>8, <1>9, <1>10

\* So does the request that leaves (PushSync).
LEMMA SendInv == ASSUME IInv, NEW p \in Pusher, Send(p) PROVE IInv'
<1> USE DEF IInv, Send, deskVars
<1>1. TypeOK'
  BY DEF TypeOK, PushState
<1>2. WireInv'
  BY DEF WireInv, TypeOK, PushState
<1> QED
  BY <1>1, <1>2 DEF OwnershipInv, CaptureInv, AckedIsStored, OneOutstandingBatch, JournalOrder, Sent, Pending

\* So does a push that gives up with its request under way (handleSyncPush).
LEMMA GiveUpInv == ASSUME IInv, NEW p \in Pusher, GiveUp(p) PROVE IInv'
<1> USE DEF IInv, GiveUp, deskVars
<1>1. TypeOK'
  BY DEF TypeOK, PushState, Idle, BatchId, NoBatch
<1>2. WireInv'
  BY DEF WireInv, TypeOK, PushState, Idle
<1> QED
  BY <1>1, <1>2 DEF OwnershipInv, CaptureInv, AckedIsStored, OneOutstandingBatch, JournalOrder, Sent, Pending

\* So does settling a batch (ApplyObservationAck).
LEMMA ApplyAckInv == ASSUME IInv, NEW p \in Pusher, ApplyAck(p) PROVE IInv'
<1> USE DEF IInv
<1>1. state' = [o \in Obs |-> AckState(p, o)]
  BY DEF ApplyAck
<1>2. \A o \in Obs : \/ state'[o] = state[o]
                     \/ state[o] = "sent" /\ state'[o] = "rejected"
                     \/ state[o] = "sent" /\ state'[o] = "acked" /\ o \in site
  BY <1>1 DEF AckState, AckCovers, ApplyAck, SentIn, WireInv
<1>3. TypeOK'
  BY <1>1, <1>2 DEF TypeOK, PushState, Idle, BatchId, NoBatch, ApplyAck
<1>4. OwnershipInv' /\ CaptureInv'
  BY <1>2 DEF OwnershipInv, CaptureInv, ApplyAck
<1>5. WireInv'
  BY DEF WireInv, TypeOK, PushState, Idle, ApplyAck
<1>6. AckedIsStored' /\ OneOutstandingBatch'
  BY <1>2 DEF AckedIsStored, OneOutstandingBatch, Sent, ApplyAck
<1>7. JournalOrder'
  BY <1>2 DEF JournalOrder, Pending, ApplyAck
<1> QED
  BY <1>3, <1>4, <1>5, <1>6, <1>7

\* So does refusing an answer (applyObservationAck).
LEMMA AckMismatchInv == ASSUME IInv, NEW p \in Pusher, AckMismatch(p) PROVE IInv'
<1> USE DEF IInv, AckMismatch, deskVars
<1>1. TypeOK'
  BY DEF TypeOK, PushState, Idle, BatchId, NoBatch
<1>2. WireInv'
  BY DEF WireInv, TypeOK, PushState, Idle
<1> QED
  BY <1>1, <1>2 DEF OwnershipInv, CaptureInv, AckedIsStored, OneOutstandingBatch, JournalOrder, Sent, Pending

\* So does the end of the process, with its requests still under way.
LEMMA CrashInv == IInv /\ Crash => IInv'
<1> SUFFICES ASSUME IInv, Crash PROVE IInv'
  OBVIOUS
<1> USE DEF IInv, Crash, deskVars
<1>1. TypeOK'
  <2>1. \A p \in Pusher : push[p].items \in SUBSET Obs
    BY DEF TypeOK, PushState
  <2>2. orphans' \subseteq SUBSET Obs
    BY <2>1 DEF TypeOK
  <2>3. push' \in [Pusher -> PushState]
    BY DEF PushState, Idle, BatchId, NoBatch
  <2> QED
    BY <2>2, <2>3 DEF TypeOK
<1>2. WireInv'
  BY DEF WireInv, TypeOK, PushState, Idle
<1>3. OwnershipInv' /\ CaptureInv'
  BY DEF OwnershipInv, CaptureInv, TypeOK
<1> QED
  BY <1>1, <1>2, <1>3 DEF AckedIsStored, OneOutstandingBatch, JournalOrder, Sent, Pending

\* So does an observation the site has from another producer.
LEMMA SiteStoreInv == ASSUME IInv, NEW c \in Obs, SiteStore(c) PROVE IInv'
BY DEF IInv, TypeOK, OwnershipInv, CaptureInv, WireInv, AckedIsStored, OneOutstandingBatch,
       JournalOrder, Sent, Pending, SiteStore, deskVars

\* So does an answer of the site, complete or not.
LEMMA SiteAnswerInv == ASSUME IInv, NEW p \in Pusher, SiteAnswer(p) PROVE IInv'
<1> USE DEF IInv, deskVars
<1>1. PICK refused \in SUBSET (push[p].items \ site), cover \in SUBSET push[p].items :
          /\ site' = site \cup (push[p].items \ refused)
          /\ push' = [push EXCEPT ![p] =
                [@ EXCEPT !.phase = "answered", !.stored = cover \ refused, !.refused = cover \cap refused]]
  BY DEF SiteAnswer
<1> USE DEF SiteAnswer
<1>2. TypeOK'
  <2>1. push[p] \in PushState /\ push[p].items \subseteq Obs
    BY DEF TypeOK, PushState
  <2>2. [push[p] EXCEPT !.phase = "answered", !.stored = cover \ refused, !.refused = cover \cap refused]
          \in PushState
    BY <2>1 DEF PushState
  <2>3. push' \in [Pusher -> PushState]
    BY <1>1, <2>2 DEF TypeOK
  <2>4. site' \subseteq Obs
    BY <1>1, <2>1 DEF TypeOK
  <2> QED
    BY <2>3, <2>4 DEF TypeOK
<1>3. WireInv'
  BY <1>1 DEF WireInv, TypeOK, PushState
<1>4. AckedIsStored'
  BY <1>1 DEF AckedIsStored
<1> QED
  BY <1>2, <1>3, <1>4 DEF OwnershipInv, CaptureInv, OneOutstandingBatch, JournalOrder, Sent, Pending

\* So does a request that arrives after its sender has gone.
LEMMA SiteLateInv == ASSUME IInv, NEW r \in orphans, SiteLate(r) PROVE IInv'
<1> USE DEF IInv, deskVars
<1>1. PICK refused \in SUBSET (r \ site) : site' = site \cup (r \ refused)
  BY DEF SiteLate
<1> USE DEF SiteLate
<1>2. TypeOK'
  BY <1>1 DEF TypeOK
<1>3. WireInv' /\ AckedIsStored'
  BY <1>1 DEF WireInv, AckedIsStored
<1> QED
  BY <1>2, <1>3 DEF OwnershipInv, CaptureInv, OneOutstandingBatch, JournalOrder, Sent, Pending

\* So does a step that changes nothing.
LEMMA StutterInv == IInv /\ UNCHANGED vars => IInv'
BY DEF IInv, TypeOK, OwnershipInv, CaptureInv, WireInv, AckedIsStored, OneOutstandingBatch,
       JournalOrder, Sent, Pending, vars

\* Every step keeps the invariant.
LEMMA NextInv == IInv /\ [Next]_vars => IInv'
<1> SUFFICES ASSUME IInv, [Next]_vars PROVE IInv'
  OBVIOUS
<1>1. CASE CaptureBegin BY <1>1, CaptureBeginInv
<1>2. CASE \E o \in Obs : CaptureLog(o) BY <1>2, CaptureLogInv
<1>3. CASE CaptureCommit BY <1>3, CaptureCommitInv
<1>4. CASE CaptureRollback BY <1>4, CaptureRollbackInv
<1>5. CASE CaptureElsewhere BY <1>5, CaptureElsewhereInv
<1>6. CASE \E o \in Obs : ImportObservation(o) BY <1>6, ImportObservationInv
<1>7. CASE \E p \in Pusher : PrepareRetry(p) BY <1>7, PrepareRetryInv
<1>8. CASE \E p \in Pusher : PrepareNew(p) BY <1>8, PrepareNewInv
<1>9. CASE \E p \in Pusher : Send(p) BY <1>9, SendInv
<1>10. CASE \E p \in Pusher : GiveUp(p) BY <1>10, GiveUpInv
<1>11. CASE \E p \in Pusher : ApplyAck(p) BY <1>11, ApplyAckInv
<1>12. CASE \E p \in Pusher : AckMismatch(p) BY <1>12, AckMismatchInv
<1>13. CASE Crash BY <1>13, CrashInv
<1>14. CASE \E o \in Obs : SiteStore(o) BY <1>14, SiteStoreInv
<1>15. CASE \E p \in Pusher : SiteAnswer(p) BY <1>15, SiteAnswerInv
<1>16. CASE \E r \in orphans : SiteLate(r) BY <1>16, SiteLateInv
<1>17. CASE UNCHANGED vars BY <1>17, StutterInv
<1> QED
  BY <1>1, <1>2, <1>3, <1>4, <1>5, <1>6, <1>7, <1>8, <1>9, <1>10, <1>11, <1>12, <1>13, <1>14,
     <1>15, <1>16, <1>17 DEF Next

\* The inductive invariant of the journal holds in every reachable state: the
\* facts about ownership, open transactions and the wire that the properties of
\* ApplyObservationAck and PrepareObservationBatch rest on.
THEOREM InvariantHolds == Spec => []IInv
BY InitInv, NextInv, PTL DEF Spec

-----------------------------------------------------------------------------
(* The properties of the runs, for every value of the constants.           *)

\* Every reachable state of the journal is well formed.
THEOREM TypeCorrect == Spec => []TypeOK
<1>1. IInv => TypeOK
  BY DEF IInv
<1> QED
  BY <1>1, InvariantHolds, PTL

\* A row that says "acked" is stored by the site (ApplyObservationAck).
THEOREM AckIsSound == Spec => []AckedIsStored
<1>1. IInv => AckedIsStored
  BY DEF IInv
<1> QED
  BY <1>1, InvariantHolds, PTL

\* What the Desk journals and sends it has captured itself
\* (InsertOwnedRfidLogs, importObservation).
THEOREM OwnershipIsKept == Spec => []OnlyOwnedPushed
<1>1. IInv => OnlyOwnedPushed
  BY DEF IInv, OwnershipInv, WireInv, OnlyOwnedPushed
<1> QED
  BY <1>1, InvariantHolds, PTL

\* At most one batch is outstanding (PrepareObservationBatch).
THEOREM BatchesAreSerial == Spec => []OneOutstandingBatch
<1>1. IInv => OneOutstandingBatch
  BY DEF IInv
<1> QED
  BY <1>1, InvariantHolds, PTL

\* The journal is drained in the order of capture (installationOrigin.Next,
\* PrepareObservationBatch).
THEOREM JournalIsFifo == Spec => []JournalOrder
<1>1. IInv => JournalOrder
  BY DEF IInv
<1> QED
  BY <1>1, InvariantHolds, PTL

-----------------------------------------------------------------------------
(* Batches settle whole.                                                   *)

\* Under the invariant an acknowledgement that is applied covers every row
\* that is still sent.
LEMMA AckCoversSent ==
    ASSUME IInv, NEW p \in Pusher, ApplyAck(p)
    PROVE  /\ Sent = push[p].stored \cup push[p].refused
           /\ \A o \in Sent : SentIn(batch[o]) = Sent
           /\ \A o \in Sent : state'[o] \in {"acked", "rejected"}
           /\ \A o \in Sent : state'[o] = "acked" => o \in site
           /\ \A o \in Obs \ Sent : state'[o] = state[o]
<1>1. \A a, b \in Sent : batch[a] = batch[b]
  BY DEF IInv, OneOutstandingBatch
<1>2. \A o \in Sent : SentIn(batch[o]) = Sent
  BY <1>1 DEF Sent, SentIn
<1>3. SentIn(push[p].batch) # {} /\ push[p].stored \cup push[p].refused = SentIn(push[p].batch)
  BY DEF ApplyAck, AckCovers
<1>4. Sent = push[p].stored \cup push[p].refused
  BY <1>1, <1>3 DEF Sent, SentIn
<1>5. state' = [o \in Obs |-> AckState(p, o)]
  BY DEF ApplyAck
<1>6. push[p].stored \subseteq site
  BY DEF IInv, WireInv
<1>7. Sent \subseteq Obs
  BY DEF Sent
<1> QED
  BY <1>2, <1>4, <1>5, <1>6, <1>7 DEF AckState

\* A step settles all of an outstanding batch or leaves all of it as it is
\* (ApplyObservationAck, PrepareObservationBatch).
LEMMA BatchStep ==
    ASSUME IInv, [Next]_vars, NEW o \in Sent,
           NEW rest, rest = {x \in SentIn(batch[o]) : state'[x] = "sent"}
    PROVE  /\ rest \in {{}, SentIn(batch[o])}
           /\ rest # {} => SentIn(batch[o])' = SentIn(batch[o])
<1>1. CASE UNCHANGED <<state, batch>>
  BY <1>1 DEF SentIn
<1>2. CASE CaptureCommit
  <2>1. \A x \in Obs : state'[x] = IF tx[x] > 0 THEN "pending" ELSE state[x]
    BY <1>2 DEF CaptureCommit
  <2>2. \A x \in Obs : tx[x] > 0 => state[x] = "none"
    BY DEF IInv, CaptureInv, OwnershipInv
  <2>3. batch' = batch
    BY <1>2 DEF CaptureCommit
  <2> QED
    BY <2>1, <2>2, <2>3 DEF SentIn
<1>3. CASE \E p \in Pusher : PrepareNew(p)
  BY <1>3 DEF PrepareNew, NoneOutstanding
<1>4. CASE \E p \in Pusher : ApplyAck(p)
  <2>1. \A x \in Sent : state'[x] # "sent"
    BY <1>4, AckCoversSent
  <2>2. SentIn(batch[o]) \subseteq Sent
    BY DEF SentIn, Sent
  <2> QED
    BY <2>1, <2>2
<1> QED
  BY <1>1, <1>2, <1>3, <1>4 DEF Next, vars, deskVars, CaptureBegin, CaptureLog, CaptureRollback,
     CaptureElsewhere, ImportObservation, PrepareRetry, Send, GiveUp, AckMismatch, Crash, SiteStore,
     SiteAnswer, SiteLate

\* An outstanding batch stays as it is until one acknowledgement settles all
\* of it (ApplyObservationAck).
THEOREM BatchesSettleWhole == Spec => BatchSettlesWhole
<1>1. IInv /\ [Next]_vars =>
        [\A o \in Sent :
           LET rest == {x \in SentIn(batch[o]) : state'[x] = "sent"}
           IN  /\ rest \in {{}, SentIn(batch[o])}
               /\ rest # {} => SentIn(batch[o])' = SentIn(batch[o])]_vars
  BY BatchStep
<1> QED
  BY <1>1, InvariantHolds, PTL DEF Spec, BatchSettlesWhole

-----------------------------------------------------------------------------
(* The journal implements OwnedDelivery.                                   *)

\* An empty journal is an empty delivery.
LEMMA DeliveryInit == Init => Delivery!Init
BY DEF Init, Delivery!Init

\* The commit of a capture is the abstract Capture.
LEMMA CommitIsCapture == IInv /\ CaptureCommit => Delivery!Capture
<1> SUFFICES ASSUME IInv, CaptureCommit PROVE Delivery!Capture
  OBVIOUS
<1>1. seq' \in [Obs -> Nat]
  BY DEF IInv, TypeOK, CaptureCommit
<1>2. \A o \in Obs : seq'[o] = IF tx[o] > 0 THEN tx[o] ELSE seq[o]
  BY DEF CaptureCommit
<1>3. \A o \in Obs : seq[o] > 0 => seq'[o] = seq[o]
  BY <1>2 DEF IInv, CaptureInv, OwnershipInv
<1>4. \A o, n \in Obs : ~(seq[n] > 0) /\ seq'[n] > 0 => seq[o] < seq'[n]
  BY <1>2 DEF IInv, CaptureInv, TypeOK
<1>5. \A o \in Obs : tx[o] > 0 => state[o] = "none"
  BY DEF IInv, CaptureInv, OwnershipInv
<1>6. \A o \in Obs : (state'[o] \in {"acked", "rejected"}) = (state[o] \in {"acked", "rejected"})
                     /\ (state[o] \in {"acked", "rejected"} => state'[o] = state[o])
  BY <1>5 DEF CaptureCommit, IInv, TypeOK
<1>7. [o \in Obs |-> IF state[o] \in {"acked", "rejected"} THEN state[o] ELSE "open"]'
        = [o \in Obs |-> IF state[o] \in {"acked", "rejected"} THEN state[o] ELSE "open"]
  BY <1>6
<1>8. site' = site
  BY DEF CaptureCommit
<1> QED
  BY <1>1, <1>3, <1>4, <1>7, <1>8 DEF Delivery!Capture, Delivery!Captured

\* Settling the outstanding batch is the abstract Settle.
LEMMA AckIsSettle == ASSUME IInv, NEW p \in Pusher, ApplyAck(p)
                     PROVE  Sent \in SUBSET Delivery!Captured /\ Delivery!Settle(Sent)
<1> DEFINE Verdict == [o \in Obs |-> IF state[o] \in {"acked", "rejected"} THEN state[o] ELSE "open"]
<1>1. Sent \subseteq Obs /\ \A o \in Sent : state[o] = "sent" /\ seq[o] > 0
  BY DEF Sent, IInv, OwnershipInv
<1>2. Sent \in SUBSET Delivery!Captured
  BY <1>1 DEF Delivery!Captured
<1>3. Sent \cap Delivery!Settled = {}
  BY <1>1 DEF Delivery!Settled, Delivery!Captured
<1>4. ASSUME NEW o \in Sent, NEW x \in Delivery!Captured \ Sent, seq[x] < seq[o]
      PROVE  x \in Delivery!Settled
  <2>1. x \in Obs /\ state[x] # "none" /\ state[x] # "sent"
    BY DEF Delivery!Captured, IInv, OwnershipInv, Sent
  <2>2. state[x] # "pending"
    BY <1>1, <1>4, <2>1 DEF IInv, JournalOrder, Pending, TypeOK
  <2>3. state[x] \in {"acked", "rejected"}
    BY <2>1, <2>2 DEF IInv, TypeOK
  <2> QED
    BY <2>1, <2>3 DEF Delivery!Settled
<1>5. \A o \in Sent : state'[o] = "rejected" \/ (state'[o] = "acked" /\ o \in site)
  BY AckCoversSent
<1>6. \A o \in Obs \ Sent : state'[o] = state[o]
  BY AckCoversSent
<1>7. Verdict' \in [Obs -> {"open", "acked", "rejected"}]
  OBVIOUS
<1>8. \A o \in Sent : Verdict'[o] = "rejected" \/ (Verdict'[o] = "acked" /\ o \in site)
  BY <1>1, <1>5
<1>9. \A o \in Obs \ Sent : Verdict'[o] = Verdict[o]
  BY <1>6
<1>10. seq' = seq /\ site' = site
  BY DEF ApplyAck
<1> QED
  BY <1>2, <1>3, <1>4, <1>7, <1>8, <1>9, <1>10 DEF Delivery!Settle

\* Every step of the journal is a step of OwnedDelivery or changes nothing of it.
LEMMA DeliveryStep == IInv /\ [Next]_vars => [Delivery!Next]_(Delivery!vars)
<1> SUFFICES ASSUME IInv, [Next]_vars PROVE [Delivery!Next]_(Delivery!vars)
  OBVIOUS
<1> USE DEF Delivery!vars
<1>1. CASE UNCHANGED <<seq, state, site>>
  BY <1>1
<1>2. CASE CaptureCommit
  BY <1>2, CommitIsCapture DEF Delivery!Next
<1>3. CASE \E p \in Pusher : PrepareNew(p)
  <2>1. PICK p \in Pusher : PrepareNew(p)
    BY <1>3
  <2>2. seq' = seq /\ site' = site
    BY <2>1 DEF PrepareNew
  <2>3. \A o \in Obs : state'[o] = state[o] \/ (state[o] = "pending" /\ state'[o] = "sent")
    BY <2>1 DEF PrepareNew, FirstPending, Pending
  <2>4. [o \in Obs |-> IF state[o] \in {"acked", "rejected"} THEN state[o] ELSE "open"]'
          = [o \in Obs |-> IF state[o] \in {"acked", "rejected"} THEN state[o] ELSE "open"]
    BY <2>3
  <2> QED
    BY <2>2, <2>4
<1>4. CASE \E p \in Pusher : ApplyAck(p)
  <2>1. Sent \in SUBSET Delivery!Captured /\ Delivery!Settle(Sent)
    BY <1>4, AckIsSettle
  <2>2. \E S \in SUBSET Delivery!Captured : Delivery!Settle(S)
    BY <2>1 DEF Delivery!Settle
  <2> QED
    BY <2>2 DEF Delivery!Next
<1>5. CASE UNCHANGED <<seq, state>> /\ site \subseteq site' /\ site' \in SUBSET Obs
  BY <1>5 DEF Delivery!Next, Delivery!Store
<1>6. \/ UNCHANGED <<seq, state>>
      \/ CaptureCommit
      \/ \E p \in Pusher : PrepareNew(p)
      \/ \E p \in Pusher : ApplyAck(p)
  BY DEF Next, vars, deskVars, CaptureBegin, CaptureLog, CaptureRollback, CaptureElsewhere,
     ImportObservation, PrepareRetry, Send, GiveUp, AckMismatch, Crash, SiteStore, SiteAnswer, SiteLate
<1>7. site \subseteq site'
  BY DEF Next, vars, CaptureBegin, CaptureLog, CaptureCommit, CaptureRollback, CaptureElsewhere,
     ImportObservation, PrepareRetry, PrepareNew, Send, GiveUp, ApplyAck, AckMismatch, Crash,
     SiteStore, SiteAnswer, SiteLate
<1>8. site' \in SUBSET Obs
  BY NextInv DEF IInv, TypeOK
<1> QED
  BY <1>2, <1>3, <1>4, <1>5, <1>6, <1>7, <1>8

\* The journal with its batches, retries and crashes keeps the promise of
\* OwnedDelivery: settled in the order of capture, each once, and acknowledged
\* only when stored.
THEOREM JournalImplementsDelivery == Spec => ImplementsDelivery
<1>1. Init => Delivery!Init
  BY DeliveryInit
<1>2. IInv /\ [Next]_vars => [Delivery!Next]_(Delivery!vars)
  BY DeliveryStep
<1> QED
  BY <1>1, <1>2, InvariantHolds, PTL DEF Spec, ImplementsDelivery, Delivery!Spec
=============================================================================
