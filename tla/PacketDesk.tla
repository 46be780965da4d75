------------------------------ MODULE PacketDesk ------------------------------
(***************************************************************************)
(* Packet issuance on one Desk.  Tablets make operations against the       *)
(* roster they last saw, or against their own operations that are still to *)
(* be sent; the Desk receives them in any order and any number of times,   *)
(* decides each in one transaction, and publishes what it did in a feed    *)
(* that tablets follow.  The operator edits registrations, resolves        *)
(* conflicts he has looked at, and archives the old part of the feed;      *)
(* passes of runners are recorded meanwhile.                               *)
(*                                                                         *)
(* Sources: service/packet_issuance.go, packet_issuance_numbers.go,        *)
(* packet_issuance_return.go, packet_issuance_resolution.go,               *)
(* packet_issuance_retention.go, edits.go and                              *)
(* infrastructure/sqlite/packet_issuance_store.go.                         *)
(***************************************************************************)
EXTENDS PacketTransitions, Sequences

CONSTANTS
    Op,          \* ids of operations
    Edit,        \* ids of the changes made with the Desk's editor
    SiteEdit,    \* ids of the changes made on the site, which a Desk that follows it relays
    Commands,    \* the commands tablets use
    EditorFields, \* the fields changed with the Desk's editor
    Timed,       \* the numbers and chips that are read at a checkpoint
    InitRoster   \* the roster installed from the site

\* The ids in a feed.
Action == Op \cup Edit \cup SiteEdit

\* A command as it is parsed: what its type does not carry is absent (parseCommand).
Types == Single \cup Moving \cup {"return_to_reserve", "correct_move", "resolve_conflict"}

Command ==
    [type : Types, id : Maybe(Id), target : Maybe(Id), bib : Maybe(Bib), race : Maybe(Race),
     person : Maybe(Person), fields : SUBSET {"text", "complete"}, flag : BOOLEAN,
     returnSource : BOOLEAN, ref : Maybe(Op)]

\* An operation about the registrations S.
OperationOn(S) ==
    [cmd : Command, before : [S -> Registration], after : [S -> Registration],
     heads : SUBSET Action]

\* Ids are distinct, and an operation enters a person of its own: one the roster cannot have.
ASSUME DeskAssumption ==
    /\ InitRoster \in [Id -> Maybe(Registration)]
    /\ \A i \in Id : InitRoster[i] # None =>
          InitRoster[i].person = None \/ InitRoster[i].person.pid \notin Op
    /\ Op \cap (Edit \cup SiteEdit \cup Id) = {} /\ None \notin Op \cup Person \cup Registration
    /\ Op \cup Id \subseteq PersonId /\ Text # {}
    /\ None \notin [value : Registration, heads : SUBSET Action, deleted : BOOLEAN]
    /\ \A S \in SUBSET Id : None \notin OperationOn(S)

VARIABLES
    op,          \* operations made so far
    proj,        \* packet_issuance_registrations and members
    outcome,     \* packet_issuance_operations.outcome
    feed,        \* packet_issuance_feed_actions and _archives, by sequence
    floor,       \* the sequence up to which the feed is archived
    passed,      \* numbers and chips of rfid_logs
    resolved,    \* packet_issuance_resolutions: input -> resolution
    shown        \* the conflict on the operator's screen

deskVars == <<op, proj, outcome, feed, floor, passed, resolved, shown>>

Accepted == {"applied", "equivalent"}
Final == Accepted \cup {"conflict", "rejected"}

\* parseOperation: one or two rows, each with its base; what is not a correction or a
\* resolution changes its rows as the command does
Operation(c, before, after, heads) ==
    [cmd |-> c, before |-> before, after |-> after, heads |-> heads]

----------------------------------------------------------------------------
(* Reading the projection.                                                 *)

Evidence(r) == r.evidence \/ r.bib \in passed \/ r.epc \in passed

Found(i) == proj[i] # None
Live(i) == Found(i) /\ ~proj[i].deleted

\* Mutant: the evidence stored with the registration is used.
Current_Stored(i) == proj[i].value

\* GetPacketRegistrations, FindPacketRegistration: the stored value with today's evidence
Current(i) == [proj[i].value EXCEPT !.evidence = Evidence(proj[i].value)]

\* Put- and InsertPacketRegistration
Stored(r, heads) == [value |-> r, heads |-> heads, deleted |-> FALSE]

\* Mutant: the numbers of reserve slots are taken for free ones.
Occupied_Assigned(i, b) ==
    \E j \in Id \ {i} : Found(j) /\ proj[j].value.bib = b /\ ~proj[j].value.reserve

\* CheckPacketNumber, on members: a deleted registration still has its member
Occupied(i, b) == \E j \in Id \ {i} : Found(j) /\ proj[j].value.bib = b

\* Mutant: only the live part of the feed is searched.
Archived_Forgotten == {}

\* PacketDependenciesApplied: an operation that was applied or found in place, or an action
\* of the feed, be it archived
Archived == {feed[n].id : n \in {m \in 1 .. floor : feed[m].outcome \in Accepted}}
Listed == {feed[n].id : n \in {m \in floor + 1 .. Len(feed) : feed[m].outcome \in Accepted}}
Admitted == {o \in Op : outcome[o] \in Accepted} \cup Listed \cup Archived

----------------------------------------------------------------------------
(* Receiving an operation.                                                 *)

\* The rows an operation is merged into; a registration it creates is the empty image.
Merged(o) ==
    [i \in DOMAIN op[o].before |->
        IF op[o].cmd.type \in Creating /\ ~Found(i)
        THEN Empty(op[o].before[i].race) ELSE Current(i)]

\* The registration that an operation brings into being.
Created(c) == IF c.type = "create_registration" THEN {c.id}
              ELSE IF c.type = "return_to_reserve" THEN {c.target} ELSE {}

\* packetMergeDecision: Apply or, for a correction, ReverseMove on the rows as they are now
Derivable(o, rows) ==
    LET c == op[o].cmd IN
    IF c.type = "correct_move" THEN Reversible(rows, op[c.ref]) ELSE Allows(rows, c)

Derived(o, rows) ==
    LET c == op[o].cmd IN
    IF c.type = "correct_move" THEN op[c.ref].before ELSE Effect(rows, c)

MergeDecision(o, rows) ==
    IF \E i \in DOMAIN rows : ~Compatible(op[o].before[i], op[o].after[i], rows[i]) THEN "conflict"
    ELSE IF \A i \in DOMAIN rows : Equivalent(op[o].before[i], op[o].after[i], rows[i])
    THEN "equivalent"
    ELSE IF op[o].cmd.type = "correct_move" /\ outcome[op[o].cmd.ref] \notin Accepted
    THEN "waiting"
    ELSE IF /\ Derivable(o, rows)
            /\ \A i \in DOMAIN rows :
                  EffectMatches(op[o].before[i], op[o].after[i], rows[i], Derived(o, rows)[i])
    THEN "applied" ELSE "conflict"

\* CheckPacketNumber, and the id of a registration to be created is taken
Taken(c) ==
    \/ /\ c.type \in Numbering \cup {"return_to_reserve"} /\ c.bib # None
       /\ Occupied(c.id, c.bib) \/ c.bib \in passed
    \/ c.type = "create_registration" /\ Found(c.id)

\* registration_not_found, person_details_required
Unknown(o) ==
    \/ \E i \in DOMAIN op[o].before \ Created(op[o].cmd) : ~Live(i)
    \/ op[o].cmd.type = "create_registration" /\ ~op[o].cmd.person.complete

Disputed(c) ==
    \/ c.type = "return_to_reserve" /\ Found(c.target)
    \/ c.type = "assign_number" /\ Evidence(proj[c.id].value)

\* receiveOne, receiveNumber, receiveReserveReturn: the checks in their order
Decision(o) ==
    IF ~(op[o].heads \subseteq Admitted) THEN "waiting"
    ELSE IF Taken(op[o].cmd) THEN "conflict"
    ELSE IF Unknown(o) THEN "rejected"
    ELSE IF Disputed(op[o].cmd) THEN "conflict"
    ELSE MergeDecision(o, Merged(o))

\* PublishPacketOperation: nothing waiting or refused is published, nor a race change that
\* was not applied; what has been published once is not published again
Published(o, out, changes) ==
    IF \/ out \in {"waiting", "rejected"}
       \/ op[o].cmd.type = "change_race" /\ out # "applied"
       \/ \E n \in 1 .. Len(feed) : feed[n].id = o
    THEN feed
    ELSE Append(feed, [id |-> o, outcome |-> out, changes |-> changes])

\* An action that changes nothing.
NoChanges == [i \in {} |-> None]

\* Mutant: the changes are those the tablet asked for, not those that were made.
Changes_AsAsked(c, rows, after) ==
    LET o == CHOOSE q \in Op : op[q] # None /\ op[q].cmd = c IN
    [i \in DOMAIN rows |-> [before |-> Bare(op[o].before[i]), after |-> Bare(op[o].after[i])]]

\* The published changes: a row the operation creates has no before image.
Changes(c, rows, after) ==
    [i \in DOMAIN rows |->
        [before |-> IF c.type \in Creating /\ IsVirtual(i, rows[i]) THEN None ELSE Bare(rows[i]),
         after |-> Bare(after[i])]]

\* ParseBatch, ParseOperation: a tablet sends operations of the first schema only, which has
\* no resolutions
Sendable(o) == op[o] # None /\ op[o].cmd.type # "resolve_conflict"

Receive(o) ==
    /\ Sendable(o)
    /\ outcome[o] \in {"none", "waiting"}
    /\ LET out == Decision(o)
           rows == Merged(o)
           after == Derived(o, rows)
       IN /\ outcome' = [outcome EXCEPT ![o] = out]
          /\ proj' = IF out = "applied"
                     THEN [i \in Id |-> IF i \in DOMAIN rows THEN Stored(after[i], {o}) ELSE proj[i]]
                     ELSE proj
          /\ feed' = Published(o, out, IF out = "applied" THEN Changes(op[o].cmd, rows, after)
                                       ELSE NoChanges)
    /\ UNCHANGED <<op, floor, passed, resolved, shown>>

----------------------------------------------------------------------------
(* Tablets.                                                                *)

\* What a tablet may hold of a registration: the Desk's value, or what one of the operations
\* it has yet to send leaves.
Views(i, c) ==
    IF i \in Created(c) THEN {[value |-> Empty(c.race), heads |-> {}]}
    ELSE (IF Live(i) THEN {[value |-> Current(i), heads |-> proj[i].heads]} ELSE {})
         \cup {[value |-> op[q].after[i], heads |-> {q}] :
                  q \in {p \in Op : op[p] # None /\ outcome[p] = "none" /\ i \in DOMAIN op[p].after}}

Newcomer(o, b) == [pid |-> o, text |-> CHOOSE t \in Text : TRUE, complete |-> b]

\* The members of S, if it is about a command or a field that is used.
InUse(used, x, S) == IF x \in used THEN S ELSE {}

\* parseCommand: what each type of command carries
SetDns(i, b) == [Blank("set_dns", i) EXCEPT !.flag = b]
EditPerson(o, i, t) ==
    [Blank("edit_person", i) EXCEPT !.fields = {"text"},
                                    !.person = [Newcomer(o, TRUE) EXCEPT !.text = t]]
ChangeRace(i, x) == [Blank("change_race", i) EXCEPT !.race = x]
ReplacePerson(o, i, b) ==
    [Blank("replace_person", i) EXCEPT !.person = Newcomer(o, FALSE), !.flag = b]
AssignNumber(i, n, b) == [Blank("assign_number", i) EXCEPT !.bib = n, !.flag = b]
CreateRegistration(o, i, x, n, b) ==
    [Blank("create_registration", i) EXCEPT
        !.race = x, !.bib = n, !.person = Newcomer(o, b), !.flag = n # None]
ReturnToReserve(i, j, n, x) ==
    [Blank("return_to_reserve", i) EXCEPT !.target = j, !.bib = n, !.race = x]
Move(t, i, j, b) == [Blank(t, i) EXCEPT !.target = j, !.flag = b]
AssignReturning(i, j) ==
    [Blank("assign_reserve", i) EXCEPT !.target = j, !.returnSource = TRUE]
CorrectMove(q) ==
    [Blank("correct_move", op[q].cmd.id) EXCEPT !.target = op[q].cmd.target, !.ref = q]

\* The commands a tablet may send as operation o.
Requests(o) ==
    UNION {
        {Blank(t, i) : t \in Commands \cap {"issue", "undo_issue", "clear_number",
                                           "unassign_number", "release_to_reserve"}, i \in Id},
        InUse(Commands, "set_dns", {SetDns(i, b) : i \in Id, b \in BOOLEAN}),
        InUse(Commands, "edit_person", {EditPerson(o, i, t) : i \in Id, t \in Text}),
        InUse(Commands, "change_race", {ChangeRace(i, x) : i \in Id, x \in Race}),
        InUse(Commands, "replace_person", {ReplacePerson(o, i, b) : i \in Id, b \in BOOLEAN}),
        InUse(Commands, "assign_number",
              {AssignNumber(i, n, b) : i \in Id, n \in Bib, b \in BOOLEAN}),
        InUse(Commands, "create_registration",
              {CreateRegistration(o, i, x, n, b) :
                  i \in Minted, x \in Race, n \in Maybe(Bib), b \in BOOLEAN}),
        InUse(Commands, "return_to_reserve",
              {ReturnToReserve(i, j, n, x) : i \in Id, j \in Minted, n \in Bib, x \in Race}),
        {Move(t, i, j, b) : t \in Commands \cap Moving, i \in Id, j \in Id, b \in BOOLEAN},
        InUse(Commands, "assign_reserve", {AssignReturning(i, j) : i \in Id, j \in Id}),
        InUse(Commands, "correct_move",
              {CorrectMove(q) : q \in {p \in Op : op[p] # None /\ op[p].cmd.type \in Moving}})}

\* parseOperation: a command that changes nothing has no changes and is no operation
Create(o) ==
    /\ op[o] = None
    /\ \E c \in Requests(o) :
         \E view \in [Rows(c) -> UNION {Views(i, c) : i \in Rows(c)}] :
            LET before == [i \in Rows(c) |-> view[i].value]
                heads == UNION {view[i].heads : i \in Rows(c)}
                after == IF c.type = "correct_move" THEN op[c.ref].before ELSE Effect(before, c)
            IN /\ \A i \in Rows(c) : view[i] \in Views(i, c)
               /\ IF c.type = "correct_move" THEN Reversible(before, op[c.ref]) ELSE Allows(before, c)
               /\ after # before
               /\ op' = [op EXCEPT ![o] = Operation(c, before, after, heads)]
    /\ UNCHANGED <<proj, outcome, feed, floor, passed, resolved, shown>>

----------------------------------------------------------------------------
(* The operator.                                                           *)

\* packetRegistrationFromMember: one field of a registration through the Desk's editor
EditedRows(i, r) ==
    UNION {
        InUse(EditorFields, "race", {[r EXCEPT !.race = x] : x \in Race}),
        InUse(EditorFields, "bib", {[r EXCEPT !.bib = n] : n \in Maybe(Bib)}),
        InUse(EditorFields, "epc", {[r EXCEPT !.epc = n] : n \in Maybe(Chip)}),
        InUse(EditorFields, "status", {[r EXCEPT !.status = x] : x \in Status}),
        InUse(EditorFields, "person",
             {[r EXCEPT !.person = None]} \cup
             {[r EXCEPT !.person = IF @ # None THEN [@ EXCEPT !.text = t]
                                   ELSE [pid |-> i, text |-> t, complete |-> FALSE]] : t \in Text})}

\* PublishPacketServerChange
ServerChange(e, i, before, after) ==
    Append(feed, [id |-> e, outcome |-> "applied",
                  changes |-> [j \in {i} |-> [before |-> Bare(before), after |-> Bare(after)]]])

\* preparePacketMemberChange, publishPacketMemberChange
DeskEdit(e, i) ==
    /\ \A n \in 1 .. Len(feed) : feed[n].id # e
    /\ Live(i)
    /\ \E after \in EditedRows(i, Current(i)) :
          /\ Valid(after)
          /\ proj' = [proj EXCEPT ![i] = Stored(after, proj[i].heads \cup {e})]
          /\ feed' = ServerChange(e, i, Current(i), after)
    /\ UNCHANGED <<op, outcome, floor, passed, resolved, shown>>

\* rfid_logs: a number or a chip is read at a checkpoint
Pass(x) ==
    /\ x \notin passed
    /\ passed' = passed \cup {x}
    /\ UNCHANGED <<op, proj, outcome, feed, floor, resolved, shown>>

\* packetConflictCandidate: the rows the decision is taken on
Reviewed(o) ==
    [i \in DOMAIN op[o].before |-> IF Live(i) THEN Current(i) ELSE op[o].before[i]]

Applicable(o) ==
    LET c == op[o].cmd IN
    /\ c.type \in (Single \cup Moving) \ Creating
    /\ Allows(Reviewed(o), c)
    /\ c.type = "assign_number" => ~Taken(c)

\* normalizePacketCandidate, convergencePacketChanges
Candidate(o) ==
    LET rows == Reviewed(o) IN
    [op |-> o, applicable |-> Applicable(o), before |-> rows,
     after |-> IF Applicable(o) THEN Effect(rows, op[o].cmd)
               ELSE [i \in DOMAIN rows |-> Overlay(op[o].before[i], op[o].after[i], rows[i])]]

Reviewable(o) ==
    /\ op[o].cmd.type # "resolve_conflict"
    /\ \A i \in DOMAIN op[o].before :
          Live(i) \/ (op[o].cmd.type \in Creating /\ IsVirtual(i, op[o].before[i]))
    /\ \A i \in DOMAIN op[o].before : Valid(Candidate(o).after[i])

\* ListPacketConflictCandidates: a page shows all its conflicts or none
Conflicts == {o \in Op : outcome[o] = "conflict"}

Show(o) ==
    /\ o \in Conflicts /\ resolved[o] = None
    /\ \A q \in Conflicts : resolved[q] = None => Reviewable(q)
    /\ shown' = Candidate(o)
    /\ UNCHANGED <<op, proj, outcome, feed, floor, passed, resolved>>

\* PublishPacketOperation: what a decision on a conflict publishes
DecidedChanges(from, to) ==
    [i \in DOMAIN to |->
        [before |-> Bare(from[i]), after |-> IF IsVirtual(i, to[i]) THEN None ELSE Bare(to[i])]]

\* ResolvePacketConflict: the decision on a candidate that still is the present one, recorded
\* as operation r.  Keeping the proposal applies it; dropping it publishes its reversal.
Decide(o, r, keep, candidate) ==
    /\ op[r] = None
    /\ o \in Conflicts /\ resolved[o] = None
    /\ Reviewable(o) /\ Candidate(o) = candidate
    /\ keep => candidate.applicable
    /\ \A i \in DOMAIN candidate.before : candidate.before[i].race = candidate.after[i].race
    /\ LET from == IF keep THEN candidate.before ELSE candidate.after
           to == IF keep THEN candidate.after ELSE candidate.before
       IN /\ op' = [op EXCEPT ![r] = Operation([Blank("resolve_conflict", None) EXCEPT
                                                   !.ref = o, !.flag = keep], from, to, {o})]
          /\ proj' = IF keep
                     THEN [i \in Id |-> IF i \in DOMAIN to THEN Stored(to[i], {r}) ELSE proj[i]]
                     ELSE proj
          /\ feed' = Append(feed, [id |-> r, outcome |-> "applied",
                                   changes |-> DecidedChanges(from, to)])
    /\ outcome' = [outcome EXCEPT ![r] = "applied"]
    /\ resolved' = [resolved EXCEPT ![o] = r]
    /\ UNCHANGED <<floor, passed>>

Resolve(r, keep) ==
    /\ shown # None
    /\ Decide(shown.op, r, keep, shown)
    /\ shown' = None

\* CompactPacketIssuanceFeed, ArchivePacketFeedPrefix: the archive has each action once
Compact(n) ==
    /\ n \in floor + 1 .. Len(feed) - 1
    /\ \A m \in floor + 1 .. n, k \in 1 .. floor : feed[m].id # feed[k].id
    /\ floor' = n
    /\ UNCHANGED <<op, proj, outcome, feed, passed, resolved, shown>>

----------------------------------------------------------------------------
\* InstallPacketIssuanceRoster
DeskInit ==
    /\ op = [o \in Op |-> None]
    /\ proj = [i \in Id |-> IF InitRoster[i] = None THEN None ELSE Stored(InitRoster[i], {})]
    /\ outcome = [o \in Op |-> "none"]
    /\ feed = <<>> /\ floor = 0
    /\ passed = {}
    /\ resolved = [o \in Op |-> None]
    /\ shown = None

DeskNext ==
    \/ \E o \in Op : Create(o) \/ Receive(o) \/ Show(o)
    \/ \E r \in Op, keep \in BOOLEAN : Resolve(r, keep)
    \/ \E e \in Edit, i \in Id : DeskEdit(e, i)
    \/ \E x \in Timed : Pass(x)
    \/ \E n \in 1 .. Len(feed) : Compact(n)

DeskSpec == DeskInit /\ [][DeskNext]_deskVars

----------------------------------------------------------------------------
(* Properties.                                                             *)

Change == [before : Maybe(Registration), after : Maybe(Registration)]

\* Type invariant of the Desk's packet issuance tables.
DeskTypeOK ==
    /\ \A o \in Op : op[o] = None \/
          /\ DOMAIN op[o].before = DOMAIN op[o].after /\ DOMAIN op[o].before \subseteq Id
          /\ \A i \in DOMAIN op[o].before :
                op[o].before[i] \in Registration /\ op[o].after[i] \in Registration
          /\ op[o].heads \subseteq Action
    /\ proj \in [Id -> Maybe([value : Registration, heads : SUBSET Action, deleted : BOOLEAN])]
    /\ outcome \in [Op -> Final \cup {"none", "waiting"}]
    /\ \A n \in 1 .. Len(feed) :
          /\ feed[n].id \in Action /\ feed[n].outcome \in Accepted \cup {"conflict"}
          /\ \A i \in DOMAIN feed[n].changes : i \in Id /\ feed[n].changes[i] \in Change
    /\ floor \in 0 .. Len(feed)
    /\ passed \subseteq Timed
    /\ resolved \in [Op -> Maybe(Op)]
    /\ shown = None \/ shown.op \in Op

\* For each registration, what a tablet that follows the feed from the bootstrap arrives at.
LastChange(i) ==
    {n \in 1 .. Len(feed) :
        /\ i \in DOMAIN feed[n].changes
        /\ \A m \in n + 1 .. Len(feed) : i \notin DOMAIN feed[m].changes}

Followed(i) ==
    IF LastChange(i) = {} THEN InitRoster[i]
    ELSE CHOOSE v \in {feed[n].changes[i].after : n \in LastChange(i)} : TRUE

\* An empty registration that a tablet may have minted is not told from an absent one.
Seen(i, r) == IF r = None THEN None ELSE IF IsVirtual(i, Bare(r)) THEN None ELSE Bare(r)

\* A tablet that starts from the installed roster and applies the feed has the Desk's roster,
\* whatever was received out of order or twice, merged, found in conflict, resolved either way
\* or edited at the Desk: the projection is never changed without its feed action, and the
\* action carries the merged result (receiveOne, ResolvePacketConflict, and
\* publishPacketMemberChange write both in one transaction).
FeedReplaysRoster ==
    \A i \in Id : Seen(i, Followed(i)) = Seen(i, IF Live(i) THEN proj[i].value ELSE None)

\* No two registrations have one start number.
NumbersUnique ==
    \A i, j \in Id : i # j /\ Found(i) /\ Found(j) /\ proj[i].value.bib # None
                      => proj[i].value.bib # proj[j].value.bib

\* Where a person is entered, a transfer's source aside.
Places(p) ==
    {i \in Id : /\ Live(i) /\ proj[i].value.person # None
                /\ proj[i].value.person.pid = p /\ proj[i].value.transferredTo = None}

OnePlace == \A p \in PersonId : \A i, j \in Places(p) : i = j

\* A reserve slot is nobody's and has not been handed out.
SlotsFree ==
    \A i \in Id : Live(i) /\ proj[i].value.reserve =>
        proj[i].value.person = None /\ ~proj[i].value.issued /\ proj[i].value.transferredTo = None

\* Receiving or deciding on operations never gives one start number to two registrations, in
\* whatever order assignments, creations, returns and edits of two tablets arrive
\* (CheckPacketNumber in receiveNumber and receiveReserveReturn, Apply for the moves).
NumberedOnce == [][outcome' # outcome /\ NumbersUnique => NumbersUnique']_deskVars

\* Nor does it enter a person twice, or leave a person or a handed-out packet in a reserve
\* slot: two moves of one person, or of two persons to one slot, cannot both be applied
\* (packetMergeDecision applies the command again to the rows as they are).
PlacedOnce == [][outcome' # outcome /\ OnePlace /\ SlotsFree => OnePlace' /\ SlotsFree']_deskVars

\* What stays with a runner who has been timed; a packet may still be handed out.
Kept == Fields \ {"issued", "evidence"}

\* Once a runner's number or chip has been read, no operation of a tablet and no decision on a
\* conflict changes who runs under it, also when it was made before the pass
\* (hasTimingEvidence is looked up when the operation is received, not taken from it).
TimedRowsKept ==
    [][outcome' # outcome =>
          \A i \in Id : Live(i) /\ Evidence(proj[i].value) =>
             Live(i)' /\ \A f \in Kept : proj'[i].value[f] = proj[i].value[f]]_deskVars

\* Archiving the old part of the feed decides nothing: an operation that is still to come, or
\* waits for another, is received as it would have been before (PacketDependenciesApplied
\* searches the archive).
ArchivingKeepsDecisions ==
    [][floor' # floor =>
          \A o \in Op : op[o] # None /\ outcome[o] \in {"none", "waiting"} =>
             Decision(o)' = Decision(o)]_deskVars
=============================================================================
