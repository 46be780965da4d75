------------------------------ MODULE PacketPush -------------------------------
(***************************************************************************)
(* The delivery of the Desk's packet journal and of its club edits to the  *)
(* site.  A club is kept beside a registration, not in it, and goes to the *)
(* site in an outbox of its own; it belongs to the person and follows the  *)
(* person from one registration to another.  A synchronisation first sends *)
(* the club edits that are ready, then the operations, and at the end      *)
(* takes over the site's clubs.  Synchronisations are not serialised: two  *)
(* of them may run at the same time.                                       *)
(*                                                                         *)
(* The operations here are those of one tablet that change the person of a *)
(* registration; they may arrive in any order (PacketDesk has the others,  *)
(* PacketRelay what comes back).  The site is not part of this repository  *)
(* and keeps the contract of the Desk.                                     *)
(*                                                                         *)
(* Sources: service/packet_issuance_site.go, packet_club_relay.go,         *)
(* packet_club_affiliations.go, packet_issuance_clubs.go,                  *)
(* native_club_edit.go, infrastructure/sqlite/packet_club_outbox.go,       *)
(* member_clubs_store.go and packet_issuance_store.go.                     *)
(***************************************************************************)
EXTENDS Integers, Sequences, SequencesExt, FiniteSets, FiniteSetsExt

CONSTANTS
    Reg, Person,
    InitOwner,    \* the installed roster: the person of each registration
    MaxOp,        \* bound on the operations of the tablet
    MaxEdit,      \* bound on the club edits
    MaxSiteEdit,  \* bound on the clubs that are changed on the site
    Sync,         \* synchronisations that may run at the same time
    MaxFail,      \* bound on the requests that fail or stay unanswered
    Refusable,    \* operations the site may answer with a conflict
    None

Op == 1 .. MaxOp
Edit == 1 .. MaxEdit
Club == -MaxSiteEdit .. MaxEdit \* every edit enters a club of its own

ASSUME PushAssumption ==
    /\ None \notin Person \cup {"applied", "conflict"}
    /\ InitOwner \in [Reg -> Person \cup {None}]
    /\ {MaxOp, MaxEdit, MaxSiteEdit, MaxFail} \subseteq Nat
    /\ Refusable \subseteq Op

VARIABLES
    op,           \* the tablet's operations in the order they were made
    journal,      \* packet_issuance_operations in the order of recorded_at
    applied,      \* those the Desk has applied; the others wait for a dependency
    ack,          \* site_acknowledged, site_outcome
    owner, heads, \* packet_issuance_registrations: person and heads
    club,         \* member_club_metadata, with the person it was entered for
    edit,         \* packet_club_outbox
    siteOwner, siteClub, siteOp, siteEdit, siteEdits, \* the site
    sync,         \* where a synchronisation is
    fails         \* requests that failed

deskVars == <<op, journal, applied, owner, heads, club>>
siteVars == <<siteOwner, siteClub, siteOp, siteEdit, siteEdits>>
vars == <<deskVars, ack, edit, siteVars, sync, fails>>

Maybe(S) == S \cup {None}

\* SyncPacketOperations has ended, or not begun, or is at the beginning of its loop.
Idle == [at |-> "flush"]

----------------------------------------------------------------------------
(* The tablet and the Desk.                                                *)

\* The last operation of the tablet that changed a registration.
LastOp(r) ==
    LET its == {o \in DOMAIN op : r \in DOMAIN op[o].after}
    IN IF its = {} THEN {} ELSE {Max(its)}

Seen(r) == IF LastOp(r) = {} THEN InitOwner[r] ELSE op[Max(LastOp(r))].after[r]

\* The tablet makes its operations first: one made later is one that arrives later.
Made == Len(op) = MaxOp

Draft(after) ==
    /\ ~Made
    /\ op' = Append(op, [after |-> after, before |-> [r \in DOMAIN after |-> Seen(r)],
                         deps |-> UNION {LastOp(r) : r \in DOMAIN after}])
    /\ UNCHANGED <<journal, applied, owner, heads, club, ack, edit, siteVars, sync, fails>>

\* replace_person makes a new person; a move takes the person to a free registration
Used == Range(InitOwner) \cup UNION {Range(op[o].after) : o \in DOMAIN op}

ReplacePerson(r, x) == Seen(r) # None /\ x \notin Used /\ Draft([q \in {r} |-> x])

MovePerson(r, s) ==
    /\ Seen(r) # None /\ Seen(s) = None
    /\ Draft([q \in {r, s} |-> IF q = r THEN None ELSE Seen(r)])

\* packetClubProjection: the club of r after a change follows the person
Carried(clubs, change, r) ==
    LET x == change.after[r]
        from == {s \in DOMAIN change.before : change.before[s] = x}
    IN IF x = None THEN None
       ELSE IF change.before[r] = x THEN clubs[r]
       ELSE IF Cardinality(from) = 1 THEN clubs[CHOOSE s \in from : TRUE]
       ELSE None

CarriedAll(clubs, change) ==
    [r \in Reg |-> IF r \in DOMAIN change.after THEN Carried(clubs, change, r) ELSE clubs[r]]

\* PutPacketRegistration, for the rows of an operation
Updated(rows, table) == [r \in Reg |-> IF r \in DOMAIN rows THEN rows[r] ELSE table[r]]

\* receiveOne: an operation whose dependencies have not been applied is kept and waits
Receive(o) ==
    /\ Made /\ o \notin applied
    /\ o \in Range(journal) => op[o].deps \subseteq applied
    /\ journal' = IF o \in Range(journal) THEN journal ELSE Append(journal, o)
    /\ IF op[o].deps \subseteq applied
       THEN /\ applied' = applied \cup {o}
            /\ owner' = Updated(op[o].after, owner)
            /\ heads' = Updated([r \in DOMAIN op[o].after |-> {o}], heads)
            /\ club' = CarriedAll(club, op[o])
       ELSE UNCHANGED <<applied, owner, heads, club>>
    /\ UNCHANGED <<op, ack, edit, siteVars, sync, fails>>

\* EnqueuePacketClubEdit
Queued(r) == [reg |-> r, person |-> owner[r], club |-> Len(edit) + 1, heads |-> heads[r],
              state |-> "pending", later |-> FALSE]

ClubEdited(r) ==
    /\ Made /\ Len(edit) < MaxEdit
    /\ club' = [club EXCEPT ![r] = [of |-> owner[r], value |-> Len(edit) + 1]]
    /\ edit' = Append(edit, Queued(r))

\* applyNativeClubEdit, from the card of the person who has the registration
NativeEditClub(r) ==
    /\ owner[r] # None
    /\ ClubEdited(r)
    /\ UNCHANGED <<op, journal, applied, owner, heads, ack, siteVars, sync, fails>>

\* ApplyPacketClubAffiliation, from a tablet that last saw person x; with another owner it is
\* a conflict that changes nothing
TabletEditsClub(r, x) ==
    /\ owner[r] = x
    /\ ClubEdited(r)
    /\ UNCHANGED <<op, journal, applied, owner, heads, ack, siteVars, sync, fails>>

----------------------------------------------------------------------------
(* The site.                                                               *)

SiteEditOutcome(e) ==
    IF siteEdit[e] # None THEN siteEdit[e]
    ELSE IF siteOwner[edit[e].reg] # edit[e].person THEN "conflict" ELSE "applied"

SiteTakesEdit(e) ==
    /\ siteEdit' = [siteEdit EXCEPT ![e] = SiteEditOutcome(e)]
    /\ siteClub' = IF SiteEditOutcome(e) = "applied" /\ siteEdit[e] = None
                   THEN [siteClub EXCEPT ![edit[e].reg] = [of |-> edit[e].person, value |-> edit[e].club]]
                   ELSE siteClub
    /\ UNCHANGED <<siteOwner, siteOp, siteEdits>>

\* One operation after the other; the state of the site is [owner, club, op].
Taken(st, o, refuse) ==
    IF st.op[o] # None THEN st
    ELSE IF \E d \in op[o].deps : st.op[d] = None THEN st
    ELSE IF refuse \/ \E d \in op[o].deps : st.op[d] = "conflict"
    THEN [st EXCEPT !.op[o] = "conflict"]
    ELSE [owner |-> Updated(op[o].after, st.owner), club |-> CarriedAll(st.club, op[o]),
          op |-> [st.op EXCEPT ![o] = "applied"]]

\* A batch is sent, and taken, in the order of the journal.
SiteAfter(batch, refused) ==
    LET st[n \in 0 .. Len(journal)] ==
            IF n = 0 THEN [owner |-> siteOwner, club |-> siteClub, op |-> siteOp]
            ELSE IF journal[n] \in batch THEN Taken(st[n - 1], journal[n], journal[n] \in refused)
            ELSE st[n - 1]
    IN st

SiteTakesOps(batch, refused) ==
    LET st == SiteAfter(batch, refused)[Len(journal)]
    IN /\ siteOwner' = st.owner /\ siteClub' = st.club /\ siteOp' = st.op
       /\ UNCHANGED <<siteEdit, siteEdits>>

SiteEditsClub(r) ==
    /\ Made /\ siteEdits < MaxSiteEdit /\ siteOwner[r] # None
    /\ siteClub' = [siteClub EXCEPT ![r] = [of |-> siteOwner[r], value |-> -siteEdits - 1]]
    /\ siteEdits' = siteEdits + 1
    /\ UNCHANGED <<deskVars, ack, edit, siteOwner, siteOp, siteEdit, sync, fails>>

----------------------------------------------------------------------------
(* SyncPacketOperations.                                                   *)

Goto(s, state) == sync' = [sync EXCEPT ![s] = state]

\* A request is answered, or one more fails.
Answered(yes) == IF yes THEN UNCHANGED fails ELSE fails < MaxFail /\ fails' = fails + 1

\* PendingPacketClubEdits, ListPendingPacketOperations
PendingEdits == {e \in DOMAIN edit : edit[e].state = "pending"}
PendingOps == {o \in applied : ack[o] \notin {"applied", "conflict"}}
FirstPending == journal[Min({n \in DOMAIN journal : journal[n] \in PendingOps})]

\* PacketClubDependencies
Unanswered(e) == \E o \in edit[e].heads : ack[o] \notin {"applied", "conflict"}
Conflicted(e) == \E o \in edit[e].heads : ack[o] = "conflict"

\* flushPacketClubOutbox, for the first edit that is pending
FlushNothing(s) ==
    /\ Made /\ sync[s].at = "flush" /\ PendingEdits = {}
    /\ Goto(s, [at |-> "list", one |-> FALSE])
    /\ UNCHANGED <<deskVars, ack, edit, siteVars, fails>>

FlushEdit(s) ==
    /\ Made /\ sync[s].at = "flush" /\ PendingEdits # {}
    /\ LET e == Min(PendingEdits)
       IN \/ /\ Conflicted(e)
             /\ edit' = [edit EXCEPT ![e].state = "review"]
             /\ UNCHANGED sync
          \/ /\ Unanswered(e)
             /\ Goto(s, [at |-> "list", one |-> TRUE])
             /\ UNCHANGED edit
          \/ /\ ~Conflicted(e) /\ ~Unanswered(e)
             /\ ~edit[e].later
             /\ Goto(s, [at |-> "send", edit |-> e])
             /\ UNCHANGED edit
    /\ UNCHANGED <<deskVars, ack, siteVars, fails>>

\* PushPacketClubEdit: the site answers, or it is not known whether the request arrived
SendEdit(s, answered) ==
    /\ sync[s].at = "send" /\ Answered(answered)
    /\ SiteTakesEdit(sync[s].edit)
    /\ Goto(s, [at |-> "answer", edit |-> sync[s].edit,
                answer |-> IF answered THEN SiteEditOutcome(sync[s].edit) ELSE "failed"])
    /\ UNCHANGED <<deskVars, ack, edit>>

SendEditFails(s, refused) ==
    /\ sync[s].at = "send" /\ Answered(FALSE)
    /\ Goto(s, [at |-> "answer", edit |-> sync[s].edit,
                answer |-> IF refused THEN "review" ELSE "failed"])
    /\ UNCHANGED <<deskVars, ack, edit, siteVars>>

\* AcknowledgePacketClubEdit, DeferPacketClubEdit
AnswerEdit(s) ==
    /\ sync[s].at = "answer"
    /\ edit' = [edit EXCEPT ![sync[s].edit] =
                  IF sync[s].answer = "failed" THEN [@ EXCEPT !.state = "pending", !.later = TRUE]
                  ELSE [@ EXCEPT !.state = sync[s].answer, !.later = FALSE]]
    /\ Goto(s, Idle)
    /\ UNCHANGED <<deskVars, ack, siteVars, fails>>

\* next_attempt_at has come
DelayPasses(e) ==
    /\ e \in PendingEdits /\ edit[e].later
    /\ edit' = [edit EXCEPT ![e].later = FALSE]
    /\ UNCHANGED <<deskVars, ack, siteVars, sync, fails>>

\* Mutant: operations are always sent one by one.
Batch_One(one) == IF PendingOps # {} THEN {FirstPending} ELSE {}

\* One operation only while a club edit waits for one.
Batch(one) == IF one /\ PendingOps # {} THEN {FirstPending} ELSE PendingOps

ListOps(s) ==
    /\ sync[s].at = "list"
    /\ LET batch == Batch(sync[s].one)
       IN Goto(s, IF batch # {} THEN [at |-> "push", batch |-> batch]
                  ELSE IF sync[s].one THEN Idle ELSE [at |-> "fetch"])
    /\ UNCHANGED <<deskVars, ack, edit, siteVars, fails>>

\* PushPacketOperations
PushOps(s, answered, refused) ==
    /\ sync[s].at = "push" /\ Answered(answered)
    /\ SiteTakesOps(sync[s].batch, refused)
    /\ Goto(s, IF answered THEN [at |-> "mark", batch |-> sync[s].batch, receipts |-> siteOp'] ELSE Idle)
    /\ UNCHANGED <<deskVars, ack, edit>>

\* Mutant: an answer is an acknowledgement.
Receipt_Any(receipts, o) == IF receipts[o] = None THEN "applied" ELSE receipts[o]

\* MarkPacketOperationSiteReceipt: a waiting operation is not acknowledged
Receipt(receipts, o) == receipts[o]

MarkOps(s) ==
    /\ sync[s].at = "mark"
    /\ LET batch == sync[s].batch
           receipts == sync[s].receipts
       IN /\ ack' = [o \in Op |-> IF o \in batch THEN Receipt(receipts, o) ELSE ack[o]]
          /\ Goto(s, Idle)
    /\ UNCHANGED <<deskVars, edit, siteVars, fails>>

\* refreshPacketRelayClubs: the site's clubs with their owners, of all registrations.
\* The contract leaves out those no club was ever stored for, without a row of their own in
\* member_club_metadata (ReadPacketClubAffiliations); they would keep what they have ...
FetchClubs(s, answered) ==
    /\ sync[s].at = "fetch" /\ Answered(answered)
    /\ Goto(s, IF answered THEN [at |-> "refresh", owner |-> siteOwner, club |-> siteClub] ELSE Idle)
    /\ UNCHANGED <<deskVars, ack, edit, siteVars>>

\* Mutant: the clubs are taken over whoever has the registration now.
Bound_Any(owners, r) == TRUE

\* ... filterClubOwners ...
Bound(owners, r) == owners[r] = owner[r]

\* Mutant: the site's clubs win.
Protected_Never(owners, r) == FALSE

\* Mutant: also an edit that the site has.
Protected_Delivered(owners, r) ==
    \E e \in DOMAIN edit : edit[e].reg = r /\ edit[e].person = owners[r]

\* ... and protectPendingPacketClubs
Protected(owners, r) ==
    \E e \in PendingEdits : edit[e].reg = r /\ edit[e].person = owners[r]

\* applyMemberClubs: what is not named stays
Refreshed(named, clubs) == [r \in Reg |-> IF r \in named THEN clubs[r] ELSE club[r]]

\* ApplyBoundMemberClubs
RefreshClubs(s) ==
    /\ sync[s].at = "refresh"
    /\ LET owners == sync[s].owner
       IN club' = Refreshed({r \in Reg : Bound(owners, r) /\ ~Protected(owners, r)}, sync[s].club)
    /\ Goto(s, Idle)
    /\ UNCHANGED <<op, journal, applied, owner, heads, ack, edit, siteVars, fails>>

----------------------------------------------------------------------------
Init ==
    /\ op = <<>> /\ journal = <<>> /\ applied = {} /\ ack = [o \in Op |-> None]
    /\ owner = InitOwner /\ heads = [r \in Reg |-> {}] /\ club = [r \in Reg |-> None]
    /\ edit = <<>>
    /\ siteOwner = InitOwner /\ siteClub = club
    /\ siteOp = ack /\ siteEdit = [e \in Edit |-> None] /\ siteEdits = 0
    /\ sync = [s \in Sync |-> Idle] /\ fails = 0

SyncStep(s) ==
    \/ FlushNothing(s) \/ FlushEdit(s) \/ AnswerEdit(s) \/ ListOps(s) \/ MarkOps(s)
    \/ RefreshClubs(s)
    \/ \E answered \in BOOLEAN :
          SendEdit(s, answered) \/ SendEditFails(s, answered) \/ FetchClubs(s, answered)
    \/ \E answered \in BOOLEAN, refused \in SUBSET Refusable : PushOps(s, answered, refused)

Next ==
    \/ \E r \in Reg, x \in Person : ReplacePerson(r, x)
    \/ \E r, s \in Reg : MovePerson(r, s)
    \/ \E o \in Op : Receive(o)
    \/ \E r \in Reg : NativeEditClub(r) \/ SiteEditsClub(r)
    \/ \E r \in Reg, x \in Person : TabletEditsClub(r, x)
    \/ \E s \in Sync : SyncStep(s)
    \/ \E e \in Edit : DelayPasses(e)

Spec == Init /\ [][Next]_vars

\* The tablet repeats what it has not been told is applied, and synchronisation is repeated,
\* by the operator or with the next push.  Only finitely many requests fail.
Fairness ==
    /\ \A o \in Op : WF_vars(Receive(o))
    /\ WF_vars(\E e \in Edit : DelayPasses(e))
    /\ \A s \in Sync : WF_vars(SyncStep(s))

FairSpec == Spec /\ Fairness

----------------------------------------------------------------------------
(* Properties.                                                             *)

Clubs == [of : Person, value : Club]
EditStates == {"pending", "applied", "conflict", "review"}

\* A row of packet_club_outbox.
EditRow == [reg : Reg, person : Person, club : Club, heads : SUBSET Op, state : EditStates,
            later : BOOLEAN]

\* Type invariant.
TypeOK ==
    /\ applied \subseteq Range(journal) /\ Range(journal) \subseteq DOMAIN op
    /\ IsInjective(journal)
    /\ ack \in [Op -> Maybe({"applied", "conflict"})]
    /\ owner \in [Reg -> Maybe(Person)] /\ siteOwner \in [Reg -> Maybe(Person)]
    /\ heads \in [Reg -> SUBSET Op]
    /\ club \in [Reg -> Maybe(Clubs)] /\ siteClub \in [Reg -> Maybe(Clubs)]
    /\ edit \in Seq(EditRow) /\ Len(edit) <= MaxEdit

\* An operation is taken for delivered with an outcome only if that is the outcome it has at
\* the site: no lost, late or overtaken answer of several synchronisations, and no answer that
\* it has to wait, is stored as one (MarkPacketOperationSiteReceipt, PushPacketOperations).
AcksAreTheSites == \A o \in Op : ack[o] # None => siteOp[o] = ack[o]

\* A club is shown only for the person it was entered for, at the Desk and on the site: it
\* follows the person through moves, is not inherited by the next person, and the site's
\* clubs, fetched before an operation changed the owner, do not reach the new one
\* (packetClubProjection, filterClubOwners).
ClubOfOwner ==
    \A r \in Reg : /\ club[r] # None => club[r].of = owner[r]
                   /\ siteClub[r] # None => siteClub[r].of = siteOwner[r]

\* The edit is the last one of its person, who still has the registration.
Newest(e) ==
    /\ owner[edit[e].reg] = edit[e].person
    /\ \A f \in DOMAIN edit : f > e => edit[f].person # edit[e].person

Shown(e) == club[edit[e].reg] = [of |-> edit[e].person, value |-> edit[e].club]

\* What an operator enters is shown until the site has answered: the site's clubs, fetched
\* before or after the edit, never replace it while it is to be delivered
\* (protectPendingPacketClubs).
PendingEditKept ==
    [][\A e \in PendingEdits : Newest(e) /\ Shown(e) /\ Newest(e)' => Shown(e)']_vars

Quiet ==
    /\ \A o \in DOMAIN op : o \in applied /\ ack[o] = "applied"
    /\ \A e \in DOMAIN edit : edit[e].state = "applied"

\* The first operation to be sent waits on the site for one that was recorded after it, and a
\* club edit waits as well, so that operations are sent one at a time.
Starved ==
    /\ PendingEdits # {} /\ PendingOps # {}
    /\ \E d \in op[FirstPending].deps : siteOp[d] = None

\* Every operation the Desk has applied is acknowledged for good, whatever requests are lost,
\* answered late or repeated, unless delivery is starved.
Delivered == \A o \in Op : <>[](o \in applied) => <>[](ack[o] # None) \/ []<>Starved

\* The delivery of an operation does not depend on the club edits: "no arrival-time LWW or
\* infinite retry blocks unrelated work".
AlwaysDelivered == \A o \in Op : <>[](o \in applied) => <>[](ack[o] # None)

\* A club edit that the Desk has taken reaches the site before an operation that came after
\* it changes the owner there: "backoff of an already-ready Club blocks a later
\* owner-changing packet command".
EditBeforeMove == \A e \in DOMAIN edit : edit[e].state # "conflict"

\* Once nothing is left to be looked at, the Desk shows the clubs the site has.
ClubsAgree == <>[]Quiet => <>[](club = siteClub)
=============================================================================
