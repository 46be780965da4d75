------------------------------- MODULE FinishHub -------------------------------
(***************************************************************************)
(* The presenter's live stream of finishes (finishchange/signal.go,        *)
(* publicweb/finish_hub.go, publicweb/finish_stream.go).                   *)
(*                                                                         *)
(* A writer commits, then advances the generation of the store's Signal    *)
(* and leaves at most one wake-up.  One hub per publication epoch consumes *)
(* the wake-ups and asks every group (one per race with viewers) for a     *)
(* rebuild.  A group's worker loads a snapshot and offers the frame to its *)
(* subscribers; the HTTP handler of each writes the newest frame it was    *)
(* offered.  Viewers come and go, builds fail, and the operator publishes, *)
(* unpublishes and publishes again while all of this is under way.         *)
(*                                                                         *)
(* A frame is the revision of the view it was loaded from.  Hubs and       *)
(* groups come from pools whose members are used again once nothing refers *)
(* to them.                                                                *)
(***************************************************************************)
EXTENDS Integers, FiniteSets

CONSTANTS
    Event,        \* events that can be published
    Race,         \* filters a viewer can ask for
    Client,       \* viewers
    Hub, Group,   \* pools of hubs and of groups
    None,         \* no event, no hub, no group
    MaxClients,   \* maxFinishClients
    BuildSlots,   \* capacity of buildSlots
    MaxCommit,    \* bound on the commits of an event
    MaxEpoch      \* bound on the publication changes

ASSUME HubAssumption ==
    /\ None \notin Event \cup Hub \cup Group
    /\ MaxClients \in Nat \ {0}
    /\ BuildSlots \in Nat \ {0}
    /\ MaxCommit \in Nat
    /\ MaxEpoch \in Nat

VARIABLES
    view,      \* revision of the committed view of each event
    writers,   \* commits of each event that have not called Notify yet
    signal,    \* finishchange.Signal of each event's store
    server,    \* publishedID, publicationEpoch, finishHub, and the stop under way
    hub,       \* finishHub
    group,     \* finishGroup and its worker
    client     \* handleFinishStream and its finishSubscription

vars == <<view, writers, signal, server, hub, group, client>>

NoFrame == 0

NoHub == [event |-> None, epoch |-> 0, cancelled |-> TRUE, stopped |-> TRUE, done |-> TRUE,
          groups |-> [r \in Race |-> None]]

NoGroup == [hub |-> None, race |-> None, cancelled |-> TRUE, wake |-> FALSE, pc |-> "exited",
            generation |-> 0, frame |-> NoFrame]

NoClient == [pc |-> "idle", event |-> None, hub |-> None, group |-> None, ripe |-> FALSE,
             wake |-> FALSE, pending |-> NoFrame, last |-> NoFrame, shown |-> NoFrame, base |-> NoFrame]

Frame == NoFrame .. MaxCommit + 1

\* The fields of a hub, of a group and of a handler.
HubRecord == [event : Event \cup {None}, epoch : 0 .. MaxEpoch, cancelled : BOOLEAN,
              stopped : BOOLEAN, done : BOOLEAN, groups : [Race -> Group \cup {None}]]

GroupRecord == [hub : Hub \cup {None}, race : Race \cup {None}, cancelled : BOOLEAN, wake : BOOLEAN,
                generation : 0 .. MaxCommit, frame : Frame,
                pc : {"wait", "sampled", "load", "loaded", "check", "exited"}]

ClientRecord == [pc : {"idle", "lookup", "await", "create", "subscribe", "stream", "take"},
                 event : Event \cup {None}, hub : Hub \cup {None}, group : Group \cup {None},
                 ripe : BOOLEAN, wake : BOOLEAN, pending : Frame, last : Frame,
                 shown : Frame, base : Frame]

TypeOK ==
    /\ view \in [Event -> 1 .. MaxCommit + 1]
    /\ writers \in [Event -> 0 .. MaxCommit]
    /\ signal \in [Event -> [generation : 0 .. MaxCommit, wake : BOOLEAN]]
    /\ server \in [published : Event \cup {None}, epoch : 0 .. MaxEpoch, hub : Hub \cup {None},
                   stopping : BOOLEAN]
    /\ hub \in [Hub -> HubRecord]
    /\ group \in [Group -> GroupRecord]
    /\ client \in [Client -> ClientRecord]

Init ==
    /\ view = [e \in Event |-> 1]
    /\ writers = [e \in Event |-> 0]
    /\ signal = [e \in Event |-> [generation |-> 0, wake |-> FALSE]]
    /\ server = [published |-> None, epoch |-> 0, hub |-> None, stopping |-> FALSE]
    /\ hub = [h \in Hub |-> NoHub]
    /\ group = [g \in Group |-> NoGroup]
    /\ client = [c \in Client |-> NoClient]

\* A handler with a subscription: it is in its group's clients until it closes.
Open(c) == client[c].pc \in {"stream", "take"}

Clients(g) == {c \in Client : Open(c) /\ client[c].group = g}

\* The context of a group ends with its hub's, that of a subscription with its group's.
Ended(g) == group[g].cancelled \/ hub[group[g].hub].cancelled

FreeHub(h) == hub[h] = NoHub /\ server.hub # h /\ \A c \in Client : client[c].hub # h

\* A cancelled group gets no more viewers and offers no more frames: all that
\* counts is how far its worker has come, and nothing is left when the worker
\* has exited and the last viewer has closed.
Grouped(g, rec, viewers) ==
    [group EXCEPT ![g] =
        IF rec.pc = "exited" /\ viewers = {} THEN NoGroup
        ELSE IF rec.cancelled \/ hub[rec.hub].cancelled
        THEN [NoGroup EXCEPT !.hub = rec.hub, !.race = rec.race, !.pc = rec.pc]
        ELSE rec]

Work(g, rec) == group' = Grouped(g, rec, Clients(g))

-----------------------------------------------------------------------------
(* The store: COMMIT, then committedFinishes.                              *)

Commit(e) ==
    /\ signal[e].generation + writers[e] < MaxCommit
    /\ writers' = [writers EXCEPT ![e] = @ + 1]
    /\ view' = [view EXCEPT ![e] = @ + 1]
    /\ UNCHANGED <<signal, server, hub, group, client>>

\* committedFinishes: however many writes were marked, one step per commit.
Advanced(n) == n + 1

Notify(e) ==
    /\ writers[e] > 0
    /\ writers' = [writers EXCEPT ![e] = @ - 1]
    /\ signal' = [signal EXCEPT ![e] = [generation |-> Advanced(@.generation), wake |-> TRUE]]
    /\ UNCHANGED <<view, server, hub, group, client>>

-----------------------------------------------------------------------------
(* Publication.                                                            *)

Cancelled(h) == IF h = None THEN hub ELSE [hub EXCEPT ![h].cancelled = TRUE]

\* setPublishedLocked, with another event or none
SetPublished(e) ==
    [server EXCEPT !.published = e, !.epoch = @ + 1]

Publish(e) ==
    /\ e # server.published /\ server.epoch < MaxEpoch
    /\ server' = SetPublished(e)
    /\ hub' = Cancelled(server.hub)
    /\ UNCHANGED <<view, writers, signal, group, client>>

\* The first publication finds the port taken and is withdrawn under the same mutex.
PublishFails ==
    /\ server.published = None /\ server.epoch + 1 < MaxEpoch
    /\ server' = [server EXCEPT !.epoch = @ + 2]
    /\ hub' = Cancelled(server.hub)
    /\ UNCHANGED <<view, writers, signal, group, client>>

\* Unpublish and Shutdown go on to stop the hub after they have given up the mutex.  A call
\* with nothing published does the same as one that was overtaken by the next publication.
Unpublish ==
    /\ server.published # None
    /\ ~server.stopping /\ server.epoch < MaxEpoch
    /\ server' = [SetPublished(None) EXCEPT !.stopping = TRUE]
    /\ hub' = Cancelled(server.hub)
    /\ UNCHANGED <<view, writers, signal, group, client>>

\* stopFinishHub: the hub of this moment, which a newer publication may own.
StopFinishHub ==
    /\ server.stopping
    /\ server' = [server EXCEPT !.stopping = FALSE]
    /\ hub' = Cancelled(server.hub)
    /\ UNCHANGED <<view, writers, signal, group, client>>

-----------------------------------------------------------------------------
(* The hub's dispatcher, finishHub.run.                                    *)

\* A cancelled hub may still take a wake-up: select chooses among what is ready.
Dispatch(h) ==
    /\ ~hub[h].stopped
    /\ signal[hub[h].event].wake
    /\ signal' = [signal EXCEPT ![hub[h].event].wake = FALSE]
    /\ group' = [g \in Group |-> IF group[g].pc # "exited" /\ \E r \in Race : hub[h].groups[r] = g
                                 THEN [group[g] EXCEPT !.wake = TRUE] ELSE group[g]]
    /\ UNCHANGED <<view, writers, server, hub, client>>

HubStop(h) ==
    /\ hub[h].cancelled /\ ~hub[h].stopped
    /\ hub' = [hub EXCEPT ![h].stopped = TRUE]
    /\ UNCHANGED <<view, writers, signal, server, group, client>>

Workers(h) == {g \in Group : group[g].hub = h /\ group[g].pc # "exited"}

HubDone(h) ==
    /\ hub[h].stopped /\ ~hub[h].done
    /\ Workers(h) = {}
    /\ hub' = [hub EXCEPT ![h] = NoHub]
    /\ UNCHANGED <<view, writers, signal, server, group, client>>

-----------------------------------------------------------------------------
(* finishHubFor: the handler finds the hub of the publication, waits for   *)
(* an outdated one to end, or creates it.                                  *)

Go(c, rec) == client' = [client EXCEPT ![c] = rec]

Request(c) ==
    /\ client[c].pc = "idle"
    /\ Go(c, [NoClient EXCEPT !.pc = "lookup", !.event = server.published])
    /\ UNCHANGED <<view, writers, signal, server, hub, group>>

\* The hub is of this event and of this epoch, and has not been cancelled.
Matches(h, e) ==
    h # None /\ hub[h].event = e /\ hub[h].epoch = server.epoch /\ ~hub[h].cancelled

Lookup(c) ==
    LET e == client[c].event
        h == server.hub
    IN  /\ client[c].pc = "lookup"
        /\ \/ /\ server.published # e \/ e = None
              /\ Go(c, NoClient)
              /\ UNCHANGED hub
           \/ /\ server.published = e /\ e # None /\ Matches(h, e)
              /\ Go(c, [client[c] EXCEPT !.pc = "subscribe", !.hub = h])
              /\ UNCHANGED hub
           \/ /\ server.published = e /\ e # None /\ h # None /\ ~Matches(h, e)
              /\ Go(c, [client[c] EXCEPT !.pc = "await", !.hub = h])
              /\ hub' = Cancelled(h)
           \/ /\ server.published = e /\ e # None /\ h = None
              /\ Go(c, [client[c] EXCEPT !.pc = "create"])
              /\ UNCHANGED hub
        /\ UNCHANGED <<view, writers, signal, server, group>>

\* Mutant: the hub that replaced h meanwhile is forgotten.
HubAfter_Always(h) == None

\* What is left of the server's hub once the handler has seen h end.
HubAfter(h) == IF server.hub = h THEN None ELSE server.hub

Awaited(c) ==
    /\ client[c].pc = "await"
    /\ hub[client[c].hub].done
    /\ server' = [server EXCEPT !.hub = HubAfter(client[c].hub)]
    /\ Go(c, [client[c] EXCEPT !.pc = "lookup", !.hub = None])
    /\ UNCHANGED <<view, writers, signal, hub, group>>

\* newFinishHub drops a wake-up that no viewer of this hub needs.
Create(c) ==
    LET e == client[c].event
    IN  /\ client[c].pc = "create"
        /\ \/ /\ server.hub = None /\ server.published = e
              /\ \E h \in Hub :
                    /\ FreeHub(h)
                    /\ hub' = [hub EXCEPT ![h] = [event |-> e, epoch |-> server.epoch, cancelled |-> FALSE,
                                  stopped |-> FALSE, done |-> FALSE, groups |-> [r \in Race |-> None]]]
                    /\ server' = [server EXCEPT !.hub = h]
                    /\ Go(c, [client[c] EXCEPT !.pc = "subscribe", !.hub = h])
              /\ signal' = [signal EXCEPT ![e].wake = FALSE]
           \/ /\ server.hub # None \/ server.published # e
              /\ Go(c, [client[c] EXCEPT !.pc = "lookup"])
              /\ UNCHANGED <<signal, server, hub>>
        /\ UNCHANGED <<view, writers, group>>

-----------------------------------------------------------------------------
(* subscribe and close, under the hub's mutex.                             *)

HubClients(h) == {c \in Client : Open(c) /\ client[c].hub = h}

NeedsGroup(h, r) == hub[h].groups[r] \notin {g \in Group : ~Ended(g)}

\* Mutant: the workers of groups nobody watches any more are not counted.
Refuses_ClientsOnly(h, r) ==
    \/ hub[h].stopped \/ hub[h].cancelled
    \/ Cardinality(HubClients(h)) >= MaxClients

\* A stopped or cancelled hub, or one at its limits, takes no viewer.
Refuses(h, r) ==
    \/ hub[h].stopped \/ hub[h].cancelled
    \/ Cardinality(HubClients(h)) >= MaxClients
    \/ NeedsGroup(h, r) /\ Cardinality(Workers(h)) >= MaxClients

\* Mutant: the build under way is accepted.
RipeAtOnce_Yes == TRUE

\* minBuild: the subscription accepts builds that begin after it.
RipeAtOnce == FALSE

\* Mutant: a group that has viewers already is not asked.
RequestOnSubscribe_NewGroup(new) == new

\* Every subscription asks for a build of its own.
RequestOnSubscribe(new) == TRUE

Subscribed(c, g) ==
    Go(c, [client[c] EXCEPT !.pc = "stream", !.group = g, !.ripe = RipeAtOnce,
                            !.base = view[client[c].event]])

Subscribe(c) ==
    /\ client[c].pc = "subscribe"
    /\ LET h == client[c].hub
       IN  \E r \in Race :
              \/ /\ Refuses(h, r)
                 /\ Go(c, NoClient)
                 /\ UNCHANGED <<hub, group>>
              \/ /\ ~Refuses(h, r) /\ ~NeedsGroup(h, r)
                 /\ Subscribed(c, hub[h].groups[r])
                 /\ group' = [group EXCEPT ![hub[h].groups[r]].wake = @ \/ RequestOnSubscribe(FALSE)]
                 /\ UNCHANGED hub
              \/ /\ ~Refuses(h, r) /\ NeedsGroup(h, r)
                 /\ \E g \in Group :
                       /\ group[g] = NoGroup
                       /\ group' = [group EXCEPT ![g] = [NoGroup EXCEPT !.hub = h, !.race = r,
                              !.cancelled = FALSE, !.pc = "wait", !.wake = RequestOnSubscribe(TRUE)]]
                       /\ hub' = [hub EXCEPT ![h].groups[r] = g]
                       /\ Subscribed(c, g)
    /\ UNCHANGED <<view, writers, signal, server>>

\* Mutant: whatever group is there is removed.
Unlisted_ByRace(h, r, g) == [hub EXCEPT ![h].groups[r] = None]

\* The last viewer takes the group off the map, unless a newer group is there.
Unlisted(h, r, g) == [hub EXCEPT ![h].groups[r] = IF @ = g THEN None ELSE @]

\* close: the viewer is gone, a write failed, or the subscription has ended.
Close(c) ==
    LET g == client[c].group
        h == client[c].hub
    IN  /\ Open(c)
        /\ Go(c, NoClient)
        /\ IF Clients(g) = {c}
           THEN /\ group' = Grouped(g, [group[g] EXCEPT !.cancelled = TRUE], {})
                /\ hub' = Unlisted(h, group[g].race, g)
           ELSE UNCHANGED <<group, hub>>
        /\ UNCHANGED <<view, writers, signal, server>>

\* The request ends before it has a subscription.
GiveUp(c) ==
    /\ client[c].pc \in {"lookup", "await", "create", "subscribe"}
    /\ Go(c, NoClient)
    /\ UNCHANGED <<view, writers, signal, server, hub, group>>

-----------------------------------------------------------------------------
(* The worker of a group, finishGroup.run.                                 *)

\* buildSerial advances: the subscriptions there are accept this build.  The
\* generation is sampled after that; a notification in between, taken here to
\* come later, would make no more than one build too many.
BuildBegin(g) ==
    /\ group[g].pc = "wait" /\ group[g].wake
    /\ Work(g, [group[g] EXCEPT !.pc = "sampled", !.wake = FALSE,
                                !.generation = signal[hub[group[g].hub].event].generation])
    /\ client' = [c \in Client |-> [client[c] EXCEPT !.ripe = @ \/ c \in Clients(g)]]
    /\ UNCHANGED <<view, writers, signal, server, hub>>

Building(h) == {g \in Group : group[g].hub = h /\ group[g].pc = "load"}

BuildSlot(g) ==
    /\ group[g].pc = "sampled"
    /\ Cardinality(Building(group[g].hub)) < BuildSlots
    /\ Work(g, [group[g] EXCEPT !.pc = "load"])
    /\ UNCHANGED <<view, writers, signal, server, hub, client>>

BuildLoad(g) ==
    /\ group[g].pc = "load"
    /\ Work(g, [group[g] EXCEPT !.pc = "loaded", !.frame = view[hub[group[g].hub].event]])
    /\ UNCHANGED <<view, writers, signal, server, hub, client>>

\* A failed build ends the group; its viewers end with it, and it stays on the
\* map until the last of them closes or a newer group takes its place.
BuildFails(g) ==
    /\ group[g].pc = "load"
    /\ Work(g, [NoGroup EXCEPT !.hub = group[g].hub, !.race = group[g].race])
    /\ UNCHANGED <<view, writers, signal, server, hub, client>>

\* offer: a frame the subscription has not been offered yet replaces the pending one.
Offered(s, f) ==
    IF s.ripe /\ s.last # f THEN [s EXCEPT !.pending = f, !.last = f, !.wake = TRUE] ELSE s

BuildPublish(g) ==
    /\ group[g].pc = "loaded"
    /\ Work(g, [group[g] EXCEPT !.pc = "check"])
    /\ client' = [c \in Client |-> IF c \in Clients(g) /\ ~Ended(g)
                                   THEN Offered(client[c], group[g].frame) ELSE client[c]]
    /\ UNCHANGED <<view, writers, signal, server, hub>>

BuildCheck(g) ==
    /\ group[g].pc = "check"
    /\ Work(g, [group[g] EXCEPT !.pc = "wait", !.generation = 0, !.frame = NoFrame,
          !.wake = @ \/ group[g].generation # signal[hub[group[g].hub].event].generation])
    /\ UNCHANGED <<view, writers, signal, server, hub, client>>

WorkerExit(g) ==
    /\ group[g].pc \in {"wait", "sampled"}
    /\ Ended(g)
    /\ Work(g, [NoGroup EXCEPT !.hub = group[g].hub, !.race = group[g].race])
    /\ UNCHANGED <<view, writers, signal, server, hub, client>>

-----------------------------------------------------------------------------
(* handleFinishStream once it is subscribed.                               *)

Receive(c) ==
    /\ client[c].pc = "stream" /\ client[c].wake
    /\ Go(c, [client[c] EXCEPT !.pc = "take", !.wake = FALSE])
    /\ UNCHANGED <<view, writers, signal, server, hub, group>>

\* currentFinishHub
Current(h) == server.hub = h /\ Matches(h, server.published)

Writable(c) ==
    IF client[c].pending = NoFrame THEN client[c].shown # NoFrame ELSE Current(client[c].hub)

\* take and write; a frame that a hub of the past has built is not written.
Write(c) ==
    /\ client[c].pc = "take"
    /\ Writable(c)
    /\ Go(c, [client[c] EXCEPT !.pc = "stream", !.pending = NoFrame,
                 !.shown = IF client[c].pending = NoFrame THEN @ ELSE client[c].pending])
    /\ UNCHANGED <<view, writers, signal, server, hub, group>>

\* The handler returns: its subscription has ended, or it may not write.
MustClose(c) ==
    Open(c) /\ (Ended(client[c].group) \/ (client[c].pc = "take" /\ ~Writable(c)))

-----------------------------------------------------------------------------
HubStep(h) == Dispatch(h) \/ HubStop(h) \/ HubDone(h)

BuildStep(g) ==
    \/ BuildBegin(g) \/ BuildSlot(g) \/ BuildLoad(g) \/ BuildFails(g)
    \/ BuildPublish(g) \/ BuildCheck(g) \/ WorkerExit(g)

ClientStep(c) ==
    \/ Request(c) \/ Lookup(c) \/ Awaited(c) \/ Create(c) \/ Subscribe(c) \/ Close(c) \/ GiveUp(c)
    \/ Receive(c) \/ Write(c)

Next ==
    \/ \E e \in Event : Commit(e) \/ Notify(e)
    \/ \E e \in Event : Publish(e)
    \/ PublishFails \/ Unpublish \/ StopFinishHub
    \/ \E h \in Hub : HubStep(h)
    \/ \E g \in Group : BuildStep(g)
    \/ \E c \in Client : ClientStep(c)

Spec == Init /\ [][Next]_vars

\* Every goroutine goes on while it can: a load ends within its second, one
\* way or the other; senders blocked on buildSlots are served in turn, which
\* is why the workers' fairness is strong.  Nobody has to connect or to leave.
Fairness ==
    /\ \A e \in Event : WF_vars(Notify(e))
    /\ \A h \in Hub : WF_vars(HubStep(h))
    /\ \A g \in Group : SF_vars(BuildStep(g))
    /\ \A c \in Client : WF_vars(Receive(c) \/ Write(c) \/ (MustClose(c) /\ Close(c)))

FairSpec == Spec /\ Fairness

-----------------------------------------------------------------------------
(* Properties.                                                             *)

\* A store's Signal has one dispatcher: two hubs that have not ended never
\* share it, so no hub can take the wake-ups another one lives on, however
\* handlers of several viewers and publications overlap in finishHubFor.
OneDispatcher ==
    \A h, k \in Hub : ~hub[h].done /\ ~hub[k].done /\ hub[h].event = hub[k].event => h = k

\* What a viewer is shown, or is about to be shown, is at least as new as the
\* view when it subscribed: subscribe does not hand out a build that was
\* already under way, whose snapshot may be older than the connection.
FreshFrames ==
    \A c \in Client : Open(c) => \A f \in {client[c].shown, client[c].pending} :
                                    f # NoFrame => f >= client[c].base

\* A subscription that has not ended can be reached by a wake-up: its group is
\* on the map of the server's one hub, and the hub's dispatcher runs.
StreamReachable ==
    \A c \in Client : Open(c) /\ ~Ended(client[c].group) =>
        LET g == client[c].group
        IN  /\ server.hub = group[g].hub
            /\ ~hub[group[g].hub].stopped
            /\ hub[group[g].hub].groups[group[g].race] = g

\* The limits hold although a viewer that has left stops counting before the
\* worker it leaves behind has noticed.
WithinLimits ==
    \A h \in Hub :
        /\ Cardinality(HubClients(h)) <= MaxClients
        /\ Cardinality(Workers(h)) <= MaxClients
        /\ Cardinality(Building(h)) <= BuildSlots

\* Every committed view reaches every open stream, unless the stream ends:
\* no wake-up is lost between COMMIT, Notify, dispatcher, worker and handler,
\* whatever was under way when the commit came.
StreamsCatchUp ==
    \A c \in Client : Open(c) ~> (~Open(c) \/ client[c].shown = view[client[c].event])
=============================================================================
