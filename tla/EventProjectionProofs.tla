------------------------ MODULE EventProjectionProofs ------------------------
(***************************************************************************)
(* The projection of results for every set of observations and members and *)
(* a feed of any length: whenever no work is recorded as outstanding, the  *)
(* results are those of a replay of the whole event.                       *)
(***************************************************************************)
EXTENDS EventProjection, WellFoundedInduction, TLAPS

\* Every set of natural numbers that is not empty has a smallest member (the
\* first row of an ORDER BY, the first pending edit).
LEMMA LeastNat ==
    ASSUME NEW T \in SUBSET Nat, T # {}
    PROVE  Min(T) \in T /\ \A y \in T : Min(T) <= y
<1>1. PICK x \in T : \A y \in T : ~(<<y, x>> \in OpToRel(<, Nat))
  BY WFMin, NatLessThanWellFounded, Zenon
<1>2. \A y \in T : ~(y < x)
  BY <1>1 DEF OpToRel
<1>3. \A y \in T : x <= y
  BY <1>2
<1> QED
  BY <1>3 DEF Min

\* If it has a bound it has a greatest member (the last change of a page, the
\* next cursor).
LEMMA GreatestNat ==
    ASSUME NEW T \in SUBSET Nat, T # {}, NEW b \in Nat, \A x \in T : x <= b
    PROVE  Max(T) \in T /\ \A y \in T : y <= Max(T)
<1> DEFINE U == {n \in Nat : \E x \in T : n = b - x}
<1>1. PICK z \in T : TRUE
  OBVIOUS
<1>2. b - z \in U
  BY <1>1
<1>3. U \in SUBSET Nat /\ U # {}
  BY <1>2
<1>4. PICK u \in U : \A y \in U : u <= y
  <2> HIDE DEF U
  <2> QED BY <1>3, LeastNat
<1>5. PICK x \in T : u = b - x
  OBVIOUS
<1>6. \A y \in T : x >= y
  <2> TAKE y \in T
  <2>1. b - y \in U
    OBVIOUS
  <2>2. u <= b - y
    BY <1>4, <2>1
  <2> HIDE DEF U
  <2> QED BY <2>2, <1>5
<1> HIDE DEF U
<1> QED
  BY <1>6 DEF Max


\* The feed is bounded, and the page in hand lies between the cursor and its end.
FeedInv ==
    /\ Len(feed) <= MaxFeed
    /\ pull.phase = "fetched" => cursor < pull.upto /\ pull.upto <= Len(feed)

\* An observation that is not stored counts for nobody.
AbsentInv == \A l \in Log : raw[l] = "absent" => result[l] = None

\* Unless a replay of the event is due, a result belongs to the holder.
HolderInv == owed = {} => \A l \in Log : result[l] \in {None, holder[l]}

\* A result that a replay would change; a native read that is not processed
\* yet, or lost, is no more than missing.
Stale(l) == result[l] # Ideal(l) /\ (l \in inflight \cup stranded => result[l] # None)

\* Unless a replay of the event is due, a stale result is announced by
\* projection_pending, and a pull that is under way will repair it: it has found
\* the bit set when it began, or the observation is among its changes, or the
\* holder is among the members of its plan, if the plan is to be executed.
StaleInv ==
    owed = {} => \A l \in Log : Stale(l) =>
        /\ pending
        /\ pull.phase \in {"pages", "fetched", "last", "fenced"} /\ ~pull.recovery => l \in pull.mutated
        /\ pull.phase = "planned" /\ fence /\ ~pull.event => holder[l] \in pull.members

IInv ==
    /\ TypeOK
    /\ FeedInv
    /\ AbsentInv
    /\ HolderInv
    /\ StaleInv

-----------------------------------------------------------------------------
(* The record of a pull.                                                   *)

\* The record of no pull (PullNow has returned).
LEMMA NoPullValid == NoPull \in Pull /\ NoPull.phase = "idle"
<1>1. 0 \in 0 .. MaxFeed
  BY ProjectionAssumption
<1> QED
  BY <1>1 DEF NoPull, Pull

\* A pull that has begun knows whether the bit was set and has no changes yet
\* (PullNow).
LEMMA BegunPull ==
    ASSUME NEW by \in {"timer", "manual"}, NEW recovery \in BOOLEAN
    PROVE  LET new == [NoPull EXCEPT !.phase = "pages", !.by = by, !.recovery = recovery]
           IN  new \in Pull /\ new.phase = "pages" /\ new.recovery = recovery
<1>1. ASSUME NEW p \in Pull
      PROVE  LET new == [p EXCEPT !.phase = "pages", !.by = by, !.recovery = recovery]
             IN  new \in Pull /\ new.phase = "pages" /\ new.recovery = recovery
  BY DEF Pull
<1> QED
  BY <1>1, NoPullValid, Zenon

\* The pull has seen the end of the feed, or has read its evidence (PullNow).
LEMMA AdvancedPull ==
    ASSUME NEW p \in Pull, NEW phase \in {"last", "fenced"}
    PROVE  LET new == [p EXCEPT !.phase = phase]
           IN  /\ new \in Pull /\ new.phase = phase
               /\ new.recovery = p.recovery /\ new.mutated = p.mutated
BY DEF Pull

\* It has fetched a page (PullChangeFeedPage).
WithPage(p, n, b) == [p EXCEPT !.phase = "fetched", !.upto = n, !.more = b]

\* The pull then has the page, and the changes it knew before.
LEMMA FetchedPull ==
    ASSUME NEW p \in Pull, NEW n \in 0 .. MaxFeed, NEW b \in BOOLEAN
    PROVE  /\ WithPage(p, n, b) \in Pull
           /\ WithPage(p, n, b).phase = "fetched" /\ WithPage(p, n, b).upto = n
           /\ WithPage(p, n, b).recovery = p.recovery /\ WithPage(p, n, b).mutated = p.mutated
BY DEF Pull, WithPage

\* It has made a plan (finalizePullProjectionPlan).
WithPlan(p, M, b) == [p EXCEPT !.phase = "planned", !.mutated = {}, !.members = M, !.event = b]

\* The pull then has the members and the kind of its plan, and no changes left to plan.
LEMMA PlannedPull ==
    ASSUME NEW p \in Pull, NEW M \in SUBSET Member, NEW b \in BOOLEAN
    PROVE  /\ WithPlan(p, M, b) \in Pull
           /\ WithPlan(p, M, b).phase = "planned"
           /\ WithPlan(p, M, b).members = M /\ WithPlan(p, M, b).event = b
BY DEF Pull, WithPlan

\* It has applied a page, whose changes join those it knows
\* (ApplyObservationFeedPageWithMutations).
WithChanges(p, ph, n, L) ==
    [p EXCEPT !.phase = ph, !.some = TRUE, !.upto = n, !.more = FALSE, !.mutated = p.mutated \cup L]

\* The pull then has the changes of the page beside those it knew.
LEMMA AppliedPull ==
    ASSUME NEW p \in Pull, NEW ph, ph = "pages" \/ ph = "last", NEW L \in SUBSET Log,
           NEW n \in 0 .. MaxFeed
    PROVE  /\ WithChanges(p, ph, n, L) \in Pull
           /\ WithChanges(p, ph, n, L).phase = ph
           /\ WithChanges(p, ph, n, L).recovery = p.recovery
           /\ WithChanges(p, ph, n, L).mutated = p.mutated \cup L
BY DEF Pull, WithChanges

-----------------------------------------------------------------------------
(* Kinds of steps.                                                         *)

\* The parts of the invariant that speak of results.
DerivedInv == AbsentInv /\ HolderInv /\ StaleInv

\* A database that is left alone stays as it is for a pull that ends, or that
\* goes on with the same record and no newer evidence.
LEMMA DatabaseKept ==
    ASSUME DerivedInv,
           UNCHANGED <<raw, holder, result, pending, owed>>,
           inflight' \cup stranded' = inflight \cup stranded,
           pull'.phase = "idle" \/ (pull' = pull /\ (fence' => fence))
    PROVE  DerivedInv'
<1>1. AbsentInv' /\ HolderInv'
  BY DEF DerivedInv, AbsentInv, HolderInv
<1>2. \A l \in Log : Stale(l)' <=> Stale(l)
  BY DEF Stale, Ideal
<1>3. StaleInv'
  BY <1>2 DEF DerivedInv, StaleInv
<1> QED
  BY <1>1, <1>3 DEF DerivedInv

\* A replay of the event leaves nothing stale (recount).
LEMMA EventReplayed ==
    ASSUME UNCHANGED <<raw, holder>>, ReplayEvent
    PROVE  DerivedInv'
<1>1. \A l \in Log : result'[l] = Ideal(l) /\ Ideal(l)' = Ideal(l)
  BY DEF ReplayEvent, Ideal
<1>2. AbsentInv' /\ HolderInv'
  BY <1>1 DEF AbsentInv, HolderInv, Ideal
<1>3. StaleInv'
  BY <1>1 DEF StaleInv, Stale
<1> QED
  BY <1>2, <1>3 DEF DerivedInv

\* A change of identities makes a replay of the event due (applyEdit,
\* ApplyEventImport), and nothing is said until then.
LEMMA ReplayDue ==
    ASSUME AbsentInv', owed' # {}
    PROVE  DerivedInv'
BY DEF DerivedInv, HolderInv, StaleInv

\* A stale observation has a holder.
LEMMA StaleHasHolder ==
    ASSUME TypeOK, HolderInv, owed = {}, NEW l \in Log, Stale(l)
    PROVE  holder[l] \in Member
<1>1. result[l] \in {None, holder[l]} /\ result[l] # Ideal(l)
  BY DEF HolderInv, Stale
<1>2. result[l] \in Member \cup {None}
  BY DEF TypeOK
<1> QED
  BY <1>1, <1>2 DEF Ideal

\* The replay of the holders of all stale observations leaves nothing stale,
\* and takes nothing away from anybody else (recountMembers).
LEMMA MembersReplayed ==
    ASSUME TypeOK, AbsentInv, HolderInv, NEW M \in SUBSET Member,
           owed = {} => \A l \in Log : Stale(l) => holder[l] \in M,
           UNCHANGED <<raw, holder, inflight>>, ReplayMembers(M)
    PROVE  DerivedInv'
<1> DEFINE kept(l) == IF result[l] \in M THEN None ELSE result[l]
<1>1. \A l \in Log : result'[l] = IF holder[l] \in M /\ raw[l] = "on" /\ kept(l) = None THEN holder[l] ELSE kept(l)
  BY DEF ReplayMembers
<1>2. stranded' = {l \in stranded : holder[l] \notin M} /\ owed' = owed
  BY DEF ReplayMembers
<1>3. None \notin M
  BY ProjectionAssumption
<1>4. AbsentInv'
  BY <1>1, <1>3 DEF AbsentInv
<1>5. ASSUME owed = {}, NEW l \in Log
      PROVE  result'[l] \in {None, holder[l]} /\ ~Stale(l)'
  <2>1. result[l] \in {None, holder[l]} /\ result[l] \in Member \cup {None}
    BY <1>5 DEF HolderInv, TypeOK
  <2>2. CASE holder[l] \in M
    <3>1. kept(l) = None
      BY <2>1, <2>2
    <3>2. result'[l] = Ideal(l)
      BY <1>1, <2>2, <3>1 DEF Ideal
    <3> QED
      BY <3>2 DEF Ideal, Stale
  <2>3. CASE holder[l] \notin M
    <3>1. result'[l] = result[l] /\ Ideal(l)' = Ideal(l)
      BY <1>1, <1>3, <2>1, <2>3 DEF Ideal
    <3>2. ~Stale(l)
      BY <1>5, <2>3
    <3>3. l \in inflight' \cup stranded' <=> l \in inflight \cup stranded
      BY <1>2, <2>3
    <3> QED
      BY <2>1, <3>1, <3>2, <3>3 DEF Stale
  <2> QED
    BY <2>2, <2>3
<1>6. HolderInv' /\ StaleInv'
  BY <1>2, <1>5 DEF HolderInv, StaleInv
<1> QED
  BY <1>4, <1>6 DEF DerivedInv

-----------------------------------------------------------------------------
(* The inductive invariant holds initially and is kept by every action.    *)

\* An event without observations satisfies the invariant.
LEMMA InitInv == Init => IInv
<1> SUFFICES ASSUME Init PROVE IInv
  OBVIOUS
<1>1. TypeOK
  <2>1. feed \in Seq(Log \X {"on", "off"}) /\ cursor \in 0 .. Len(feed)
    BY DEF Init
  <2>2. raw \in [Log -> State] /\ snapshot \in [Log -> State] /\ result \in [Log -> Member \cup {None}]
    BY DEF Init, State, NoSnapshot
  <2>3. pull \in Pull
    BY NoPullValid DEF Init
  <2> QED
    BY <2>1, <2>2, <2>3 DEF Init, TypeOK
<1>2. FeedInv
  BY ProjectionAssumption, NoPullValid DEF Init, FeedInv
<1>3. AbsentInv /\ HolderInv /\ StaleInv
  BY DEF Init, AbsentInv, HolderInv, StaleInv, Stale, Ideal
<1> QED
  BY <1>1, <1>2, <1>3 DEF IInv

\* A native read that is stored keeps it: nothing counts for it yet
\* (InsertOwnedRfidLogs).
LEMMA NativeInsertInv == ASSUME IInv, NEW k \in Log, NativeInsert(k) PROVE IInv'
<1> USE DEF IInv, NativeInsert, KeepFence
<1>1. TypeOK'
  BY DEF TypeOK, State
<1>2. FeedInv'
  BY DEF FeedInv
<1>3. AbsentInv' /\ HolderInv'
  BY DEF AbsentInv, HolderInv, TypeOK
<1>4. \A l \in Log : Stale(l)' => Stale(l)
  <2> TAKE l \in Log
  <2>1. CASE l = k
    BY <2>1 DEF Stale, AbsentInv, TypeOK
  <2>2. CASE l # k
    BY <2>2 DEF Stale, Ideal, TypeOK
  <2> QED
    BY <2>1, <2>2
<1>5. StaleInv'
  BY <1>4 DEF StaleInv
<1> QED
  BY <1>1, <1>2, <1>3, <1>5

\* So does the processing of the read (Process).
LEMMA NativeProcessInv == ASSUME IInv, NEW k \in Log, NativeProcess(k) PROVE IInv'
<1> USE DEF IInv, NativeProcess, KeepFence
<1>1. TypeOK'
  BY DEF TypeOK, Processed
<1>2. FeedInv'
  BY DEF FeedInv
<1>3. AbsentInv' /\ HolderInv'
  BY DEF AbsentInv, HolderInv, TypeOK, Processed
<1>4. \A l \in Log : Stale(l)' => Stale(l)
  <2> TAKE l \in Log
  <2>1. CASE l = k
    BY <2>1 DEF Stale, Ideal, TypeOK, Processed
  <2>2. CASE l # k
    BY <2>2 DEF Stale, Ideal, TypeOK
  <2> QED
    BY <2>1, <2>2
<1>5. StaleInv'
  BY <1>4 DEF StaleInv
<1> QED
  BY <1>1, <1>2, <1>3, <1>5

\* A failure to process it leaves the database alone.
LEMMA NativeFailsInv == ASSUME IInv, NEW k \in Log, NativeFails(k) PROVE IInv'
<1>1. TypeOK' /\ FeedInv'
  BY DEF IInv, NativeFails, TypeOK, FeedInv
<1>2. inflight' \cup stranded' = inflight \cup stranded
  BY DEF NativeFails
<1>3. DerivedInv'
  BY <1>2, DatabaseKept DEF IInv, DerivedInv, NativeFails
<1> QED
  BY <1>1, <1>3 DEF IInv, DerivedInv

\* An edge read is stored and processed at once (edgePublisher.Publish).
LEMMA EdgePublishInv == ASSUME IInv, NEW k \in Log, EdgePublish(k) PROVE IInv'
<1> USE DEF IInv, EdgePublish, KeepFence
<1>1. TypeOK'
  BY DEF TypeOK, State
<1>2. FeedInv'
  BY DEF FeedInv
<1>3. AbsentInv' /\ HolderInv'
  BY DEF AbsentInv, HolderInv, TypeOK
<1>4. \A l \in Log : Stale(l)' => Stale(l)
  <2> TAKE l \in Log
  <2>1. CASE l = k
    BY <2>1 DEF Stale, Ideal, TypeOK
  <2>2. CASE l # k
    BY <2>2 DEF Stale, Ideal, TypeOK
  <2> QED
    BY <2>1, <2>2
<1>5. StaleInv'
  BY <1>4 DEF StaleInv
<1> QED
  BY <1>1, <1>2, <1>3, <1>5

\* An edit of an identity makes a replay due (applyEdit).
LEMMA EditIdentityInv ==
    ASSUME IInv, NEW k \in Log, NEW who \in Identity, EditIdentity(k, who)
    PROVE  IInv'
<1> USE DEF IInv, EditIdentity, KeepFence
<1>1. TypeOK' /\ FeedInv'
  BY DEF TypeOK, FeedInv
<1>2. AbsentInv' /\ owed' # {}
  BY DEF AbsentInv
<1> QED
  BY <1>1, <1>2, ReplayDue DEF DerivedInv

\* A replay of the event, at the page's request or at the end of a manual pull
\* (handleRecount, handleSyncPull).
LEMMA RecountInv == ASSUME IInv, Recount \/ ManualRecount PROVE IInv'
<1>1. /\ ReplayEvent
      /\ UNCHANGED <<raw, holder, feed, cursor, pending, pull, snapshot, inflight>>
      /\ fence' \in {fence, FALSE} /\ manual' \in {manual, "done"}
  BY DEF Recount, ManualRecount, KeepFence
<1>2. TypeOK' /\ FeedInv'
  BY <1>1 DEF IInv, TypeOK, FeedInv, ReplayEvent, Ideal
<1> QED
  BY <1>1, <1>2, EventReplayed DEF IInv, DerivedInv

\* The site publishes a change.
LEMMA SiteChangeInv == ASSUME IInv, NEW k \in Log, SiteChange(k) PROVE IInv'
<1>1. PICK s \in {"on", "off"} : feed' = Append(feed, <<k, s>>)
  BY DEF SiteChange
<1>2. /\ Len(feed) < MaxFeed
      /\ UNCHANGED <<raw, holder, result, cursor, pending, pull, fence, manual, snapshot, inflight, stranded, owed>>
  BY DEF SiteChange
<1>3. /\ feed' \in Seq(Log \X {"on", "off"})
      /\ Len(feed') = Len(feed) + 1
  BY <1>1 DEF IInv, TypeOK
<1>4. Len(feed) \in Nat /\ cursor \in 0 .. Len(feed)
  BY DEF IInv, TypeOK
<1>5. TypeOK'
  <2>1. cursor' \in 0 .. Len(feed')
    BY <1>2, <1>3, <1>4
  <2> QED
    BY <1>2, <1>3, <2>1 DEF IInv, TypeOK
<1>6. FeedInv'
  <2>1. pull.phase = "fetched" => cursor < pull.upto /\ pull.upto <= Len(feed) /\ pull.upto \in Int
    BY DEF IInv, FeedInv, TypeOK, Pull
  <2> QED
    BY <1>2, <1>3, <1>4, <2>1, ProjectionAssumption DEF FeedInv
<1>7. DerivedInv'
  BY <1>2, DatabaseKept DEF IInv, DerivedInv
<1> QED
  BY <1>5, <1>6, <1>7 DEF IInv, DerivedInv

\* A pull begins: if something is stale it finds the bit set (PullNow).
LEMMA PullBeginInv == ASSUME IInv, NEW by \in {"timer", "manual"}, PullBegin(by) PROVE IInv'
<1>1. /\ pull' \in Pull /\ pull'.phase = "pages" /\ pull'.recovery = pending
  BY BegunPull DEF PullBegin, IInv, TypeOK
<1>2. /\ UNCHANGED <<raw, holder, result, feed, cursor, pending, fence, snapshot, inflight, stranded, owed>>
      /\ manual' \in {manual, "pulling"}
  BY DEF PullBegin
<1>3. TypeOK' /\ FeedInv'
  BY <1>1, <1>2 DEF IInv, TypeOK, FeedInv
<1>4. AbsentInv' /\ HolderInv'
  BY <1>2 DEF IInv, AbsentInv, HolderInv
<1>5. \A l \in Log : Stale(l)' <=> Stale(l)
  BY <1>2 DEF Stale, Ideal
<1>6. StaleInv'
  BY <1>1, <1>2, <1>5 DEF IInv, StaleInv
<1> QED
  BY <1>3, <1>4, <1>6 DEF IInv

\* A page is fetched, or the feed has nothing new (PullChangeFeedPage); then the
\* evidence is read (finalizePullProjectionPlan).  The changes are kept.
LEMMA PullFetchInv == ASSUME IInv, PullFetch \/ PullEvidence PROVE IInv'
<1>1. pull \in Pull /\ cursor \in 0 .. Len(feed) /\ Len(feed) \in Nat /\ Len(feed) <= MaxFeed
  BY DEF IInv, TypeOK, FeedInv
<1>2. /\ UNCHANGED <<raw, holder, result, feed, cursor, pending, manual, snapshot, inflight, stranded, owed>>
      /\ pull.phase \in {"pages", "last"}
      /\ fence' \in {fence, TRUE}
  BY DEF PullFetch, PullEvidence
<1>3. /\ pull' \in Pull
      /\ pull'.phase \in {"fetched", "last", "fenced"}
      /\ pull'.recovery = pull.recovery /\ pull'.mutated = pull.mutated
      /\ pull'.phase = "fetched" => pull'.upto \in cursor + 1 .. Len(feed)
  <2>1. CASE PullEvidence
    BY <1>1, <2>1, AdvancedPull DEF PullEvidence
  <2>2. CASE PullFetch /\ cursor = Len(feed)
    BY <1>1, <2>2, AdvancedPull DEF PullFetch
  <2>3. CASE PullFetch /\ cursor # Len(feed)
    <3>1. PICK n \in cursor + 1 .. Len(feed) :
              pull' = [pull EXCEPT !.phase = "fetched", !.upto = n, !.more = n < Len(feed)]
      BY <2>3 DEF PullFetch
    <3>2. n \in 0 .. MaxFeed
      BY <1>1, ProjectionAssumption
    <3>4. PICK b \in BOOLEAN : b = (n < Len(feed))
      <4>1. (n < Len(feed)) \in BOOLEAN
        BY <1>1
      <4> QED BY <4>1, Zenon
    <3>5. pull' = WithPage(pull, n, b)
      BY <3>1, <3>4, Zenon DEF WithPage
    <3>3. /\ pull' \in Pull /\ pull'.phase = "fetched" /\ pull'.upto = n
          /\ pull'.recovery = pull.recovery /\ pull'.mutated = pull.mutated
      BY <1>1, <3>2, <3>5, FetchedPull, Zenon
    <3> QED
      BY <3>3
  <2> QED
    BY <2>1, <2>2, <2>3
<1>4. TypeOK'
  BY <1>2, <1>3 DEF IInv, TypeOK
<1>5. FeedInv'
  BY <1>1, <1>2, <1>3 DEF FeedInv
<1>6. AbsentInv' /\ HolderInv'
  BY <1>2 DEF IInv, AbsentInv, HolderInv
<1>7. \A l \in Log : Stale(l)' <=> Stale(l)
  BY <1>2 DEF Stale, Ideal
<1>8. StaleInv'
  BY <1>2, <1>3, <1>7 DEF IInv, StaleInv
<1> QED
  BY <1>4, <1>5, <1>6, <1>8 DEF IInv

\* The page in hand, and what it does to an observation it names.
LEMMA PageItems ==
    ASSUME IInv, pull.phase = "fetched", NEW l \in Log, PageOf(l) # {}
    PROVE  /\ Max(PageOf(l)) \in PageOf(l)
           /\ feed[Max(PageOf(l))][2] \in {"on", "off"}
<1>1. /\ cursor \in Nat /\ pull.upto \in Nat /\ pull.upto <= Len(feed) /\ Len(feed) \in Nat
      /\ feed \in Seq(Log \X {"on", "off"})
  BY DEF IInv, TypeOK, FeedInv, Pull
<1>2. PageOf(l) \in SUBSET Nat /\ \A n \in PageOf(l) : n <= pull.upto
  BY <1>1 DEF PageOf
<1>3. Max(PageOf(l)) \in PageOf(l)
  BY <1>1, <1>2, GreatestNat
<1>4. PageOf(l) \subseteq 1 .. Len(feed)
  BY <1>1 DEF PageOf
<1>5. \A n \in 1 .. Len(feed) : feed[n] \in Log \X {"on", "off"}
  BY <1>1
<1> QED
  BY <1>3, <1>4, <1>5

\* A page is applied: what it changes is among the changes of the pull, and the
\* bit is set with it (ApplyObservationFeedPageWithMutations).
LEMMA PullPageInv == ASSUME IInv, PullPage PROVE IInv'
<1> DEFINE changed == {l \in Log : ChangedBy(l)}
           phase == IF pull.more THEN "pages" ELSE "last"
<1>1. /\ pull.phase = "fetched"
      /\ raw' = [l \in Log |-> IF PageOf(l) = {} THEN raw[l] ELSE feed[Max(PageOf(l))][2]]
      /\ pending' = (pending \/ changed # {})
      /\ pull' = [pull EXCEPT !.phase = phase, !.some = TRUE, !.upto = 0, !.more = FALSE,
                             !.mutated = pull.mutated \cup changed]
      /\ cursor' = pull.upto
      /\ UNCHANGED <<holder, result, feed, manual, snapshot, inflight, stranded, owed>>
      /\ fence' \in {fence, FALSE}
  BY DEF PullPage, NextCursor, PendingAfter, KeepFence
<1>2. phase \in {"pages", "last"} /\ changed \in SUBSET Log /\ pull \in Pull
  BY DEF IInv, TypeOK
<1>3. /\ pull' \in Pull /\ pull'.phase \in {"pages", "last"}
      /\ pull'.recovery = pull.recovery /\ pull'.mutated = pull.mutated \cup changed
  <2> HIDE DEF phase, changed
  <2>1. /\ pull' \in Pull /\ pull'.phase = phase
        /\ pull'.recovery = pull.recovery /\ pull'.mutated = pull.mutated \cup changed
    <3>1. PICK n \in 0 .. MaxFeed : n = 0
      BY ProjectionAssumption
    <3>2. pull' = WithChanges(pull, phase, n, changed)
      BY <1>1, <3>1, Zenon DEF WithChanges
    <3>3. pull \in Pull /\ (phase = "pages" \/ phase = "last") /\ changed \in SUBSET Log
      BY <1>2
    <3>4. /\ WithChanges(pull, phase, n, changed) \in Pull
          /\ WithChanges(pull, phase, n, changed).phase = phase
          /\ WithChanges(pull, phase, n, changed).recovery = pull.recovery
          /\ WithChanges(pull, phase, n, changed).mutated = pull.mutated \cup changed
      BY <3>3, AppliedPull
    <3> QED BY <3>2, <3>4
  <2> QED BY <1>2, <2>1
<1>4. \A l \in Log : PageOf(l) # {} => raw'[l] \in {"on", "off"} /\ (raw'[l] # raw[l] => l \in changed)
  BY <1>1, PageItems DEF ChangedBy
<1>5. \A l \in Log : PageOf(l) = {} => raw'[l] = raw[l]
  BY <1>1
<1> HIDE DEF phase, changed
<1>6. TypeOK'
  <2>1. raw' \in [Log -> State]
    BY <1>1, <1>4, <1>5 DEF IInv, TypeOK, State
  <2>2. cursor' \in 0 .. Len(feed)
    BY <1>1 DEF IInv, FeedInv, TypeOK, Pull
  <2>3. pending' \in BOOLEAN
    BY <1>1
  <2> QED
    BY <1>1, <1>3, <2>1, <2>2, <2>3 DEF IInv, TypeOK
<1>7. FeedInv'
  BY <1>1, <1>3 DEF IInv, FeedInv
<1>8. AbsentInv' /\ HolderInv'
  BY <1>1, <1>4, <1>5 DEF IInv, AbsentInv, HolderInv
<1>9. \A l \in Log : Stale(l)' => Stale(l) \/ l \in changed
  <2> SUFFICES ASSUME NEW l \in Log, l \notin changed PROVE Stale(l)' => Stale(l)
    OBVIOUS
  <2>1. raw'[l] = raw[l]
    BY <1>4, <1>5
  <2> QED
    BY <1>1, <2>1 DEF Stale, Ideal
<1>10. StaleInv'
  BY <1>1, <1>3, <1>9 DEF IInv, StaleInv
<1> QED
  BY <1>6, <1>7, <1>8, <1>10 DEF IInv

\* A plan is made: the holders of the changes are its members, and it is for the
\* whole event if one of them is ambiguous or the bit was set
\* (finalizePullProjectionPlan).
LEMMA PullPlanInv == ASSUME IInv, PullPlan PROVE IInv'
<1> DEFINE members == {holder[l] : l \in pull.mutated} \cap Member
           event == \/ pull.recovery
                    \/ \E l \in pull.mutated : holder[l] = Many
                    \/ Cardinality(members) > MaxTargeted
<1>1. /\ pull.phase = "fenced"
      /\ pull' = [pull EXCEPT !.phase = "planned", !.mutated = {}, !.members = members, !.event = event]
      /\ UNCHANGED <<raw, holder, result, feed, cursor, pending, fence, manual, snapshot, inflight, stranded, owed>>
  BY DEF PullPlan
<1>2. members \in SUBSET Member /\ pull \in Pull
  BY DEF IInv, TypeOK
<1>3. event \in BOOLEAN
  BY DEF IInv, TypeOK, Pull
<1>4. /\ pull' \in Pull /\ pull'.phase = "planned" /\ pull'.members = members /\ pull'.event = event
  <2> HIDE DEF members, event
  <2>1. pull' = WithPlan(pull, members, event)
    BY <1>1, Zenon DEF WithPlan
  <2> QED BY <1>2, <1>3, <2>1, PlannedPull, Zenon
<1>5. TypeOK' /\ FeedInv'
  BY <1>1, <1>4 DEF IInv, TypeOK, FeedInv
<1>6. AbsentInv' /\ HolderInv'
  BY <1>1 DEF IInv, AbsentInv, HolderInv
<1>7. \A l \in Log : Stale(l)' <=> Stale(l)
  BY <1>1 DEF Stale, Ideal
<1>8. ASSUME owed = {}, NEW l \in Log, Stale(l), ~event
      PROVE  holder[l] \in members
  <2>1. l \in pull.mutated
    BY <1>1, <1>8 DEF IInv, StaleInv
  <2>2. holder[l] \in Member
    BY <1>8, StaleHasHolder DEF IInv
  <2> QED
    BY <2>1, <2>2
<1>9. StaleInv'
  <2> HIDE DEF members, event
  <2> QED BY <1>1, <1>4, <1>7, <1>8 DEF IInv, StaleInv
<1> QED
  BY <1>5, <1>6, <1>9 DEF IInv

\* A pull that ends without a replay, a manual pull between its transactions,
\* and a crash leave the database alone.
LEMMA QuietInv ==
    ASSUME IInv, PullNothing \/ PullFails \/ Crash \/ ManualFetch \/ ManualEnds
    PROVE  IInv'
<1>1. /\ UNCHANGED <<raw, holder, result, feed, cursor, pending, owed>>
      /\ pull' \in {pull, NoPull}
      /\ fence' \in {fence, FALSE}
      /\ manual' \in {manual, "idle", "fetched", "done", "recount"}
      /\ inflight' \subseteq inflight
      /\ stranded' \subseteq inflight \cup stranded
      /\ inflight' \cup stranded' = inflight \cup stranded
  BY DEF PullNothing, PullFails, Crash, ManualFetch, ManualEnds, AfterPull
<1>2. snapshot' \in {snapshot, NoSnapshot, Site}
  BY DEF PullNothing, PullFails, Crash, ManualFetch, ManualEnds
<1>3. Site \in [Log -> State]
  <2> SUFFICES ASSUME NEW l \in Log
               PROVE  Site[l] \in State
    BY DEF Site
  <2> DEFINE S == {n \in 1 .. Len(feed) : feed[n][1] = l}
  <2>1. Site[l] = IF S = {} THEN "absent" ELSE feed[Max(S)][2]
    BY DEF Site
  <2>2. feed \in Seq(Log \X {"on", "off"}) /\ Len(feed) \in Nat
    BY DEF IInv, TypeOK
  <2>3. S # {} => Max(S) \in S
    <3>1. S \in SUBSET Nat /\ \A n \in S : n <= Len(feed)
      BY <2>2
    <3> HIDE DEF S
    <3> QED BY <2>2, <3>1, GreatestNat
  <2>4. \A n \in 1 .. Len(feed) : feed[n] \in Log \X {"on", "off"}
    BY <2>2
  <2> QED
    BY <2>1, <2>3, <2>4 DEF State
<1>4. NoSnapshot \in [Log -> State]
  BY DEF NoSnapshot, State
<1>5. TypeOK'
  BY <1>1, <1>2, <1>3, <1>4, NoPullValid DEF IInv, TypeOK
<1>6. FeedInv'
  BY <1>1, NoPullValid DEF IInv, FeedInv
<1>7. DerivedInv'
  <2>1. pull'.phase = "idle" \/ (pull' = pull /\ (fence' => fence))
    BY <1>1, NoPullValid
  <2> QED
    BY <1>1, <2>1, DatabaseKept DEF IInv, DerivedInv
<1> QED
  BY <1>5, <1>6, <1>7 DEF IInv, DerivedInv

\* The replay of a plan, or of the event if the evidence has changed or the plan
\* says so, leaves nothing stale when the bit is cleared (RecountPlan).
LEMMA PullRecountInv == ASSUME IInv, PullRecount PROVE IInv'
<1>1. /\ pull.phase = "planned"
      /\ IF fence /\ ~pull.event THEN ReplayMembers(pull.members) ELSE ReplayEvent
      /\ pending' = FALSE /\ pull' = NoPull /\ fence' = FALSE
      /\ manual' \in {manual, "done", "recount"}
      /\ UNCHANGED <<raw, holder, feed, cursor, snapshot, inflight>>
  BY DEF PullRecount, EvidenceHolds, AfterPull
<1>2. pull.members \in SUBSET Member
  BY DEF IInv, TypeOK, Pull
<1>3. result' \in [Log -> Member \cup {None}] /\ stranded' \subseteq Log /\ owed' \subseteq {"edit", "import"}
  BY <1>1, <1>2 DEF IInv, TypeOK, ReplayMembers, ReplayEvent, Ideal
<1>4. TypeOK'
  BY <1>1, <1>3, NoPullValid DEF IInv, TypeOK
<1>5. FeedInv'
  BY <1>1, NoPullValid DEF IInv, FeedInv
<1>6. DerivedInv'
  <2>1. CASE fence /\ ~pull.event
    <3>1. owed = {} => \A l \in Log : Stale(l) => holder[l] \in pull.members
      BY <1>1, <2>1 DEF IInv, StaleInv
    <3> QED
      BY <1>1, <1>2, <2>1, <3>1, MembersReplayed DEF IInv
  <2>2. CASE ~(fence /\ ~pull.event)
    BY <1>1, <2>2, EventReplayed
  <2> QED
    BY <2>1, <2>2
<1> QED
  BY <1>4, <1>5, <1>6 DEF IInv, DerivedInv

\* The import of a snapshot makes a replay due (ApplyEventImport).
LEMMA ManualApplyInv == ASSUME IInv, ManualApply PROVE IInv'
<1>1. /\ raw' = [l \in Log |-> Imported(l)]
      /\ holder' \in [Log -> Identity]
      /\ owed' = owed \cup {"import"}
      /\ manual' = "applied" /\ snapshot' = NoSnapshot
      /\ UNCHANGED <<result, feed, cursor, pending, pull, inflight, stranded>>
      /\ fence' \in BOOLEAN
  BY DEF ManualApply, KeepFence, IInv, TypeOK
<1>2. TypeOK' /\ FeedInv'
  BY <1>1 DEF IInv, TypeOK, FeedInv, Imported, NoSnapshot, State
<1>3. AbsentInv'
  BY <1>1 DEF IInv, AbsentInv, Imported
<1> QED
  BY <1>1, <1>2, <1>3, ReplayDue DEF IInv, DerivedInv

\* So do local identities that are put back (ReapplyLocalEdits).
LEMMA ManualReapplyInv == ASSUME IInv, ManualReapply PROVE IInv'
<1>1. /\ holder' \in [Log -> Identity]
      /\ owed' = IF holder' = holder THEN owed ELSE owed \cup {"import"}
      /\ manual' = "imported"
      /\ UNCHANGED <<raw, result, feed, cursor, pending, pull, snapshot, inflight, stranded>>
      /\ fence' \in {fence, FALSE}
  BY DEF ManualReapply, KeepFence, IInv, TypeOK
<1>2. fence' \in BOOLEAN
  BY <1>1 DEF IInv, TypeOK
<1>3. TypeOK' /\ FeedInv'
  BY <1>1, <1>2 DEF IInv, TypeOK, FeedInv
<1>4. AbsentInv'
  BY <1>1 DEF IInv, AbsentInv
<1>5. DerivedInv'
  <2>1. CASE holder' = holder
    <3>1. UNCHANGED <<raw, holder, result, pending, owed, stranded, inflight, pull>>
      BY <1>1, <2>1
    <3>2. fence' => fence
      <4>1. fence' = fence \/ fence' = FALSE
        BY <1>1
      <4> QED
        BY <4>1
    <3> QED
      BY <3>1, <3>2, DatabaseKept DEF IInv, DerivedInv
  <2>2. CASE holder' # holder
    BY <1>1, <1>4, <2>2, ReplayDue
  <2> QED
    BY <2>1, <2>2
<1> QED
  BY <1>3, <1>5 DEF IInv, DerivedInv

\* Every step keeps the invariant.
LEMMA NextInv == IInv /\ [Next]_vars => IInv'
<1> SUFFICES ASSUME IInv, [Next]_vars PROVE IInv'
  OBVIOUS
<1>1. CASE UNCHANGED vars
  BY <1>1 DEF vars, IInv, TypeOK, FeedInv, AbsentInv, HolderInv, StaleInv, Stale, Ideal
<1>2. CASE Next
  BY <1>2, NativeInsertInv, NativeProcessInv, NativeFailsInv, EdgePublishInv, EditIdentityInv, RecountInv,
     SiteChangeInv, PullBeginInv, PullFetchInv, PullPageInv, PullPlanInv, QuietInv, PullRecountInv,
     ManualApplyInv, ManualReapplyInv DEF Next
<1> QED
  BY <1>1, <1>2

-----------------------------------------------------------------------------
(* The theorems.                                                           *)

\* The inductive invariant: what is stale is announced and will be repaired.
THEOREM Invariance == Spec => []IInv
BY InitInv, NextInv, PTL DEF Spec

\* Every variable keeps its type (rfid_logs, results, sync_config, PullNow).
THEOREM TypeCorrect == Spec => []TypeOK
<1>1. IInv => TypeOK
  BY DEF IInv
<1> QED
  BY <1>1, Invariance, PTL

\* Whenever no work is recorded as outstanding the results are those of a replay
\* of the whole event, reads that are being processed or were lost excepted
\* (ApplyObservationFeedPageWithMutations, RecountPlan).
THEOREM CurrentWhenNothingIsDue == Spec => []ProjectionCurrent
<1>1. IInv => ProjectionCurrent
  BY DEF IInv, StaleInv, Stale, ProjectionCurrent
<1> QED
  BY <1>1, Invariance, PTL

\* A plan whose evidence has changed is never executed as it stands: the pull
\* that clears the bit has replayed the whole event (RecountPlan).
THEOREM NoStalePlan == Spec => StalePlanReplays
<1>1. ASSUME Next, pull.phase = "planned", ~fence, pending, ~pending', NEW l \in Log
      PROVE  result'[l] = Ideal(l)
  <2>1. PullRecount
    BY <1>1 DEF Next, NativeInsert, NativeProcess, NativeFails, EdgePublish, EditIdentity, Recount, SiteChange,
       PullBegin, PullFetch, PullPage, PullEvidence, PullPlan, PullNothing, PullFails, ManualFetch, ManualApply,
       ManualReapply, ManualRecount, ManualEnds, Crash
  <2> QED
    BY <1>1, <2>1 DEF PullRecount, EvidenceHolds, ReplayEvent
<1>2. [Next]_vars => [pull.phase = "planned" /\ ~fence /\ pending /\ ~pending' =>
                        \A l \in Log \ inflight : result'[l] = Ideal(l)]_vars
  BY <1>1
<1> QED
  BY <1>2, PTL DEF Spec, StalePlanReplays
=============================================================================
