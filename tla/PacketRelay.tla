------------------------------ MODULE PacketRelay ------------------------------
(***************************************************************************)
(* A Desk and the site that issue packets from one roster.  Tablets send   *)
(* operations to either; the Desk delivers its journal to the site and     *)
(* follows the site's feed, merging every action into its projection with  *)
(* the last known site value as the base.  When the site no longer has the *)
(* part of the feed after the Desk's cursor, the Desk fetches a bootstrap  *)
(* and rebases.                                                            *)
(*                                                                         *)
(* The site is not part of this repository.  It is modelled by the same    *)
(* contract as the Desk, PacketDesk over variables of its own, which is    *)
(* what the Desk's code and documents take it to be.                       *)
(*                                                                         *)
(* Sources: service/packet_issuance_site.go, packet_issuance_feed.go,      *)
(* packet_issuance_rebase.go, infrastructure/sqlite/                       *)
(* packet_issuance_store.go and packetissuance/validation.go.              *)
(***************************************************************************)
EXTENDS PacketDesk

CONSTANTS
    MaxRebase     \* bound on the rebases

\* The site's value of a registration is a record of its own.
ASSUME RelayAssumption ==
    MaxRebase \in Nat /\ None \notin [value : Registration, deleted : BOOLEAN]

VARIABLES
    siteProj, siteOutcome, siteFeed, siteFloor, siteResolved,  \* the site
    base,         \* packet_issuance_site_registrations
    cursor,       \* packet_issuance_scopes.site_feed_cursor
    heard,        \* packet_issuance_site_feed_actions.application
    boot,         \* the bootstrap fetched for a rebase
    rebases,      \* packet_issuance_snapshot_rebases: how many
    again         \* history: an operation was received after the site's feed had brought it

siteVars == <<siteProj, siteOutcome, siteFeed, siteFloor, siteResolved>>
relayVars == <<base, cursor, heard, boot, rebases, again>>
vars == <<deskVars, siteVars, relayVars>>

\* The site's Desk, with what is proved of every Desk.
Site == INSTANCE PacketProofs WITH
    proj <- siteProj, outcome <- siteOutcome, feed <- siteFeed, floor <- siteFloor,
    resolved <- siteResolved, Edit <- SiteEdit, SiteEdit <- Edit

IsResolution(o) == IF o \in Op THEN op[o] # None /\ op[o].cmd.type = "resolve_conflict" ELSE FALSE

\* A race change is published as a change of the server, without its operation.
IsOperation(a) == IF a.id \in Op THEN op[a.id].cmd.type # "change_race" ELSE FALSE

----------------------------------------------------------------------------
(* The site.                                                               *)

\* A tablet, or PushPacketOperations, delivers an operation; an answer may be lost.
SiteReceive(o) ==
    /\ Site!Receive(o)
    /\ UNCHANGED <<proj, outcome, feed, floor, passed, resolved, shown, relayVars>>

\* The Desk's decision on a conflict is taken over if the site has that conflict undecided.
SiteResolve(r) ==
    /\ IsResolution(r) /\ outcome[r] = "applied" /\ siteOutcome[r] = "none"
    /\ LET o == op[r].cmd.ref
           to == op[r].after
       IN IF siteOutcome[o] = "conflict" /\ siteResolved[o] = None
          THEN /\ siteOutcome' = [siteOutcome EXCEPT ![r] = "applied"]
               /\ siteResolved' = [siteResolved EXCEPT ![o] = r]
               /\ siteProj' = [i \in Id |->
                     IF i \notin DOMAIN to THEN siteProj[i]
                     ELSE IF ~IsVirtual(i, to[i]) THEN Stored(Bare(to[i]), {r})
                     ELSE IF siteProj[i] = None THEN None
                     ELSE [siteProj[i] EXCEPT !.deleted = TRUE]]
               /\ siteFeed' = Append(siteFeed, [id |-> r, outcome |-> "applied",
                                                changes |-> DecidedChanges(op[r].before, to)])
          ELSE /\ siteOutcome' = [siteOutcome EXCEPT ![r] =
                     IF siteOutcome[o] = "conflict" THEN "conflict" ELSE "rejected"]
               /\ siteFeed' = IF siteOutcome[o] = "conflict"
                              THEN Append(siteFeed, [id |-> r, outcome |-> "conflict",
                                                     changes |-> NoChanges])
                              ELSE siteFeed
               /\ UNCHANGED <<siteProj, siteResolved>>
    /\ UNCHANGED <<siteFloor, deskVars, relayVars>>

\* A decision made on the site.
SiteDecide(o, r, keep) ==
    /\ op[r] = None /\ siteOutcome[o] = "conflict"
    /\ Site!Decide(o, r, keep, Site!Candidate(o))
    /\ UNCHANGED <<proj, outcome, feed, floor, passed, resolved, shown, relayVars>>

SiteChange(e, i) ==
    /\ Site!DeskEdit(e, i)
    /\ UNCHANGED <<proj, outcome, feed, floor, passed, resolved, shown, relayVars>>

SiteCompact(n) ==
    /\ Site!Compact(n)
    /\ UNCHANGED <<proj, outcome, feed, floor, passed, resolved, shown, relayVars>>

----------------------------------------------------------------------------
(* Following the site.                                                     *)

\* FindPacketSiteRegistration
Baseline(i) == IF base[i] = None \/ base[i].deleted THEN None ELSE base[i].value

\* mergePacketFeedChange
Present(i) == IF Live(i) THEN Current(i) ELSE None

Mergeable(i, ch) ==
    IF ch.before = None THEN Present(i) = None \/ Bare(Present(i)) = ch.after
    ELSE IF ch.after = None THEN Present(i) = None \/ Bare(Present(i)) = ch.before
    ELSE Present(i) # None /\ Compatible(ch.before, ch.after, Bare(Present(i)))

\* Mutant: the site's value replaces the local one.
MergedWith_Site(i, ch) == ch.after

MergedWith(i, ch) ==
    IF ch.after = None THEN None
    ELSE IF Present(i) = None THEN ch.after
    ELSE IF ch.before = None THEN Present(i)
    ELSE Overlay(ch.before, ch.after, Present(i))

\* DeletePacketRegistration
Deleted(i, heads) == [proj[i] EXCEPT !.deleted = TRUE, !.heads = heads]

\* applyPacketFeedPlans
Planned(i, value, heads) ==
    IF value # None THEN Stored(value, heads)
    ELSE IF Live(i) THEN Deleted(i, heads)
    ELSE proj[i]

Heads(i) == IF Found(i) THEN proj[i].heads ELSE {}

AllMergeable(changes) == \A i \in DOMAIN changes : Mergeable(i, changes[i])

\* Mutant: a row with local operations is left alone.
AppliedChanges_Clean(changes, gone, a) ==
    [i \in Id |-> IF i \in DOMAIN changes /\ Heads(i) = {}
                  THEN Planned(i, MergedWith(i, changes[i]), {a}) ELSE proj[i]]

AppliedChanges(changes, gone, a) ==
    [i \in Id |-> IF i \in DOMAIN changes
                  THEN Planned(i, MergedWith(i, changes[i]), (Heads(i) \ gone) \cup {a})
                  ELSE proj[i]]

\* validatePacketSiteBaseline
Trusted(a) == a.outcome \in Accepted

ValidBaseline(a) ==
    Trusted(a) /\ ~IsResolution(a.id) =>
        \A i \in DOMAIN a.changes : Baseline(i) = a.changes[i].before

\* Mutant: only a conflict the Desk has as well can be decided.
KnownInput_Local(r) == outcome[op[r].cmd.ref] = "conflict"

\* applyPacketResolution: the conflict it decides must have been seen in the site's feed
KnownInput(r) ==
    LET o == op[r].cmd.ref IN
    /\ outcome[o] # "none" /\ heard[o] # "none"
    /\ \E n \in 1 .. cursor : siteFeed[n].id = o /\ siteFeed[n].outcome = "conflict"

\* advancePacketSiteBaseline
AdvancedBase(changes) ==
    [i \in Id |->
        IF i \notin DOMAIN changes THEN base[i]
        ELSE IF changes[i].after # None THEN [value |-> changes[i].after, deleted |-> FALSE]
        ELSE [value |-> IF base[i] # None THEN base[i].value ELSE changes[i].before,
              deleted |-> TRUE]]

\* Mutant: the baseline follows only what could be merged.
BaseAfter_Merged(a, application) == IF application = "applied" THEN AdvancedBase(a.changes) ELSE base

BaseAfter(a, application) == IF Trusted(a) THEN AdvancedBase(a.changes) ELSE base

\* RelayPacketSiteAction
Relayed(a) ==
    IF \E n \in floor + 1 .. Len(feed) : feed[n].id = a.id THEN feed ELSE Append(feed, a)

\* SaveReceivedPacketOperation, packetLocalOperationOutcome
ReceivedOutcome(a, application) ==
    IF outcome[a.id] # "none" THEN outcome[a.id]
    ELSE IF application = "applied" THEN "applied"
    ELSE IF application = "observed" /\ a.outcome = "equivalent" THEN "equivalent"
    ELSE "conflict"

\* The resolution that the Desk already follows comes back from the site.
OwnDecision(r) == IsResolution(r) /\ resolved[op[r].cmd.ref] = r

Application(a) ==
    IF a.outcome = "conflict" THEN "review"
    ELSE IF a.outcome = "equivalent" \/ OwnDecision(a.id) THEN "observed"
    ELSE IF \/ IsResolution(a.id) /\ resolved[op[a.id].cmd.ref] # None
            \/ ~AllMergeable(a.changes)
    THEN "review" ELSE "applied"

\* PullPacketFeedPage: the site still has what follows the cursor, or answers cursor_expired
Expired == cursor < siteFloor

\* ParseFeedPage, one action at a time
NextAction == siteFeed[cursor + 1]

Acceptable(a) ==
    \/ heard[a.id] # "none"
    \/ ValidBaseline(a) /\ (IsResolution(a.id) => KnownInput(a.id))

\* ApplyPacketFeedPage for the action after the cursor
ApplyAction ==
    /\ boot = None
    /\ ~Expired /\ cursor < Len(siteFeed)
    /\ LET a == NextAction
           application == Application(a)
       IN /\ heard[a.id] = "none"
          /\ Acceptable(a)
          /\ heard' = [heard EXCEPT ![a.id] = application]
          /\ proj' = IF application = "applied"
                     THEN AppliedChanges(a.changes,
                            IF IsResolution(a.id) THEN {op[a.id].cmd.ref} ELSE {}, a.id)
                     ELSE proj
          /\ base' = BaseAfter(a, application)
          /\ outcome' = IF IsOperation(a)
                        THEN [outcome EXCEPT ![a.id] = ReceivedOutcome(a, application)] ELSE outcome
          /\ resolved' = IF IsResolution(a.id) /\ a.outcome # "conflict"
                            /\ resolved[op[a.id].cmd.ref] = None
                         THEN [resolved EXCEPT ![op[a.id].cmd.ref] = a.id] ELSE resolved
          /\ feed' = Relayed(a)
    /\ cursor' = cursor + 1
    /\ UNCHANGED <<op, floor, passed, shown, siteVars, boot, rebases, again>>

\* ParseBootstrap: the site's roster and the cursor it is current at
SiteSnapshot ==
    [rows |-> [i \in Id |-> IF siteProj[i] = None THEN None
                            ELSE IF siteProj[i].deleted THEN None ELSE Site!Current(i)],
     cursor |-> Len(siteFeed)]

\* SyncPacketFeed, FetchPacketBootstrap.  The code also rebases on cursor_ahead, which a site
\* answers that has lost a part of its feed; this one never does.
FetchBootstrap ==
    /\ boot = None /\ Expired
    /\ boot' = SiteSnapshot
    /\ UNCHANGED <<deskVars, siteVars, base, cursor, heard, rebases, again>>

BaselineComplete == \A i \in Id : Found(i) => base[i] # None

\* RebasePacketIssuanceRoster: the rows that the site has changed since the baseline
Changed == {i \in Id : boot.rows[i] # None /\ Baseline(i) # Bare(boot.rows[i])}

Incoming(i) == [before |-> Baseline(i), after |-> Bare(boot.rows[i])]

\* Timing evidence the site has is taken over, also where the value is left for review.
Timing(i, r) == [r EXCEPT !.evidence = @ \/ boot.rows[i].evidence]

Rebased(i) ==
    IF Mergeable(i, Incoming(i))
    THEN Stored(Timing(i, MergedWith(i, Incoming(i))), Heads(i))
    ELSE IF Live(i) /\ boot.rows[i].evidence /\ ~Current(i).evidence
    THEN Stored(Timing(i, Current(i)), Heads(i))
    ELSE proj[i]

Rebase ==
    /\ boot # None
    /\ boot' = None
    /\ IF BaselineComplete /\ rebases < MaxRebase
       THEN /\ proj' = [i \in Id |-> IF i \in Changed THEN Rebased(i) ELSE proj[i]]
            /\ base' = [i \in Id |-> IF i \in Changed
                                      THEN [value |-> Bare(boot.rows[i]), deleted |-> FALSE]
                                      ELSE base[i]]
            /\ cursor' = boot.cursor
            /\ rebases' = rebases + 1
       ELSE UNCHANGED <<proj, base, cursor, rebases>>
    /\ UNCHANGED <<op, outcome, feed, floor, passed, resolved, shown, siteVars, heard,
                   again>>

----------------------------------------------------------------------------
Init ==
    /\ DeskInit
    /\ siteProj = proj /\ siteOutcome = outcome /\ siteFeed = <<>> /\ siteFloor = 0
    /\ siteResolved = resolved
    /\ base = [i \in Id |-> IF InitRoster[i] = None THEN None
                            ELSE [value |-> Bare(InitRoster[i]), deleted |-> FALSE]]
    /\ cursor = 0
    /\ heard = [a \in Op \cup SiteEdit |-> "none"]
    /\ boot = None /\ rebases = 0 /\ again = FALSE

\* The Desk's own operations.
DeskStep ==
    /\ DeskNext
    /\ again' = (again \/ \E o \in Op : heard[o] # "none" /\ outcome'[o] # outcome[o])
    /\ UNCHANGED <<siteVars, base, cursor, heard, boot, rebases>>

Next ==
    \/ DeskStep
    \/ \E o \in Op : SiteReceive(o) \/ SiteResolve(o)
    \/ \E o \in Op, r \in Op, keep \in BOOLEAN : SiteDecide(o, r, keep)
    \/ \E e \in SiteEdit, i \in Id : SiteChange(e, i)
    \/ \E n \in 1 .. Len(siteFeed) : SiteCompact(n)
    \/ ApplyAction
    \/ FetchBootstrap
    \/ Rebase

Spec == Init /\ [][Next]_vars

----------------------------------------------------------------------------
(* Properties.                                                             *)

\* Type invariant of the Desk's view of the site.
TypeOK ==
    /\ outcome \in [Op -> Final \cup {"none", "waiting"}]
    /\ proj \in [Id -> Maybe([value : Registration, heads : SUBSET Action,
                              deleted : BOOLEAN])]
    /\ base \in [Id -> Maybe([value : Registration, deleted : BOOLEAN])]
    /\ cursor \in 0 .. Len(siteFeed)
    /\ heard \in [Op \cup SiteEdit -> {"none", "applied", "observed", "review"}]
    /\ rebases \in 0 .. MaxRebase /\ again \in BOOLEAN

\* What the site's feed says of registration i up to sequence n.
SiteAt(i, n) ==
    LET last == {m \in 1 .. n : /\ i \in DOMAIN siteFeed[m].changes
                                /\ \A k \in m + 1 .. n : i \notin DOMAIN siteFeed[k].changes}
    IN IF last # {} THEN CHOOSE v \in {siteFeed[m].changes[i].after : m \in last} : TRUE
       ELSE IF InitRoster[i] = None THEN None ELSE Bare(InitRoster[i])

\* The separately kept site value of a registration is the one the site had at the Desk's
\* cursor, whatever the Desk could merge, has in conflict or skipped with a rebase: it is the
\* base of every later merge (advancePacketSiteBaseline, RebasePacketIssuanceRoster).
BaselineTracksSite == \A i \in Id : SiteAt(i, cursor) # None => Baseline(i) = SiteAt(i, cursor)

\* As long as no rebase has skipped a part of the site's feed, its next action can be taken
\* over: neither local work, nor conflicts of either side, nor decisions taken on both sides
\* stop the feed (ApplyPacketFeedPage fails as a whole when one action is refused).  It holds
\* where the site leaves no registration empty and decides no race change, of each of which
\* its feed tells less than it has; the commands of the run and the hypotheses of
\* FeedDoesNotBlock in PacketRelayProofs are restricted to that.
FeedNeverBlocks ==
    rebases = 0 /\ ~Expired /\ cursor < Len(siteFeed) => Acceptable(NextAction)

\* Nothing is under way and nothing is left to be looked at by an operator.
Quiet ==
    /\ cursor = Len(siteFeed) /\ boot = None
    /\ \A o \in Op : /\ outcome[o] \in {"none"} \cup Accepted
                     /\ siteOutcome[o] \in {"none"} \cup Accepted
                     /\ outcome[o] # "none" => siteOutcome[o] # "none"
    /\ \A a \in DOMAIN heard : heard[a] # "review"

\* Two rosters that were changed on both sides in different orders are the same once
\* operations and feed have been exchanged and no conflict is left.  Rebases are left out (a
\* value that the site took back in the skipped part stays on the Desk), and so is an
\* operation received again after the site's feed has brought it (see ReceiptsPublished).
\* What is deleted or unknown at the Desk is so on the site, and the other way about.
Converged ==
    Quiet /\ rebases = 0 /\ ~again =>
        \A i \in Id : SiteAt(i, cursor) = IF Live(i) THEN Bare(proj[i].value) ELSE None

\* A site action and a rebase change only fields in which the Desk had the site's last value:
\* what was changed at the Desk in the meantime is merged or left for review, never
\* overwritten (mergePacketFeedValue).  A decision on a conflict replaces what it decides.
LocalChangesKept ==
    [][cursor' # cursor /\ (rebases' = rebases => ~IsResolution(NextAction.id)) =>
          \A i \in Id : Live(i) /\ Bare(proj'[i].value) # Bare(proj[i].value) =>
             /\ Baseline(i) # None
             /\ \A p \in Paths({proj[i].value, proj'[i].value, Baseline(i)}) \ {"evidence"} :
                   At(proj[i].value, p) \in {At(Baseline(i), p), At(proj'[i].value, p)}]_vars

\* A receipt changes the roster together with the feed ("Projection + operation + feed commit
\* atomically; a retry after a lost response returns the existing outcome").
ReceiptsPublished == [][proj' # proj /\ cursor' = cursor => feed' # feed]_vars
=============================================================================
