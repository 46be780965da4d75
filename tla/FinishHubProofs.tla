---------------------------- MODULE FinishHubProofs ----------------------------
(***************************************************************************)
(* The presenter's stream for any number of events, filters, viewers, hubs *)
(* and commits.                                                            *)
(***************************************************************************)
EXTENDS FinishHub, FiniteSetTheorems, TLAPS

\* A commit counts once in the view, and once among the writers that have not
\* notified or in the generation.
CountInv ==
    \A e \in Event : /\ view[e] = 1 + signal[e].generation + writers[e]
                     /\ signal[e].generation + writers[e] <= MaxCommit

\* A hub that has not ended is the server's; the dispatcher stops when it is
\* cancelled, and the hub ends after that.
HubInv ==
    \A h \in Hub : /\ ~hub[h].done => server.hub = h /\ hub[h].event \in Event
                   /\ hub[h].done => hub[h].stopped
                   /\ hub[h].stopped => hub[h].cancelled

\* A worker belongs to a hub that has not ended; a group that goes on is on the
\* map of its hub.
GroupInv ==
    \A g \in Group :
        /\ group[g].pc # "exited" =>
              group[g].hub \in Hub /\ group[g].race \in Race /\ ~hub[group[g].hub].done
        /\ group[g].pc = "exited" => group[g].cancelled
        /\ ~Ended(g) => hub[group[g].hub].groups[group[g].race] = g

\* A group on the map of a hub is a group of this hub and this filter, and it has
\* viewers.
MapInv ==
    \A h \in Hub, r \in Race : hub[h].groups[r] \in Group =>
        LET g == hub[h].groups[r]
        IN  group[g].hub = h /\ group[g].race = r /\ Clients(g) # {}

\* Where a handler is, it has the hub of its event, and then a group of the hub.
ClientInv ==
    \A c \in Client :
        /\ client[c].pc = "create" => client[c].event \in Event
        /\ client[c].pc = "await" => client[c].hub \in Hub
        /\ client[c].pc = "subscribe" \/ Open(c) =>
              /\ client[c].hub \in Hub /\ client[c].event \in Event
              /\ ~hub[client[c].hub].done => hub[client[c].hub].event = client[c].event
        /\ Open(c) => /\ client[c].group \in Group
                      /\ group[client[c].group].hub = client[c].hub
                      /\ client[c].base <= view[client[c].event]

\* Nothing is shown before the subscription, then nothing that is older; the frame
\* in the hands of a worker is new enough for every subscription that accepts it.
FrameInv ==
    /\ \A c \in Client : ~Open(c) => client[c].pending = NoFrame /\ client[c].shown = NoFrame
    /\ FreshFrames
    /\ \A c \in Client : Open(c) /\ client[c].ripe =>
          LET g == client[c].group
          IN  ~Ended(g) /\ group[g].pc = "loaded" => group[g].frame >= client[c].base

\* The limits, of sets that stay finite.
LimitInv ==
    /\ WithinLimits
    /\ \A h \in Hub : IsFiniteSet(HubClients(h)) /\ IsFiniteSet(Workers(h))

IInv ==
    /\ TypeOK
    /\ CountInv
    /\ HubInv
    /\ GroupInv
    /\ MapInv
    /\ ClientInv
    /\ FrameInv
    /\ LimitInv

-----------------------------------------------------------------------------
(* The records.                                                            *)

\* A hub that has ended, or is not used yet (HubDone).
LEMMA NoHubFields ==
    /\ NoHub \in HubRecord
    /\ NoHub.done /\ NoHub.stopped /\ NoHub.cancelled
<1>1. 0 \in 0 .. MaxEpoch
  BY HubAssumption
<1> QED
  BY <1>1 DEF NoHub, HubRecord

\* A group that is not used.
LEMMA NoGroupFields ==
    /\ NoGroup \in GroupRecord
    /\ NoGroup.hub = None /\ NoGroup.cancelled /\ NoGroup.pc = "exited"
<1>1. 0 \in 0 .. MaxCommit /\ NoFrame \in Frame
  BY HubAssumption DEF Frame, NoFrame
<1> QED
  BY <1>1 DEF NoGroup, GroupRecord

\* A handler that has returned.
LEMMA NoClientFields ==
    /\ NoClient \in ClientRecord
    /\ NoClient.pc = "idle" /\ NoClient.pending = NoFrame /\ NoClient.shown = NoFrame
    /\ NoClient.hub = None
<1>1. NoFrame \in Frame
  BY HubAssumption DEF Frame, NoFrame
<1> HIDE DEF NoFrame
<1> QED
  BY <1>1 DEF NoClient, ClientRecord

\* A hub is cancelled: nothing else of it changes (finishHub.cancel).
LEMMA HubCancel ==
    ASSUME NEW r \in HubRecord
    PROVE  LET new == [r EXCEPT !.cancelled = TRUE]
           IN  /\ new \in HubRecord /\ new.event = r.event /\ new.epoch = r.epoch /\ new.done = r.done
               /\ new.stopped = r.stopped /\ new.groups = r.groups /\ new.cancelled
BY DEF HubRecord

\* Its dispatcher stops (finishHub.run).
LEMMA HubStopped ==
    ASSUME NEW r \in HubRecord
    PROVE  LET new == [r EXCEPT !.stopped = TRUE]
           IN  /\ new \in HubRecord /\ new.event = r.event /\ new.epoch = r.epoch /\ new.done = r.done
               /\ new.cancelled = r.cancelled /\ new.groups = r.groups /\ new.stopped
BY DEF HubRecord

\* What is left of a group that has ended while its worker or a viewer is there.
Shell(r) == [NoGroup EXCEPT !.hub = r.hub, !.race = r.race, !.pc = r.pc]

\* It keeps its hub, its filter and how far its worker has come (finishGroup.run).
LEMMA ShellFields ==
    ASSUME NEW r \in GroupRecord
    PROVE  /\ Shell(r) \in GroupRecord /\ Shell(r).hub = r.hub /\ Shell(r).race = r.race
           /\ Shell(r).pc = r.pc /\ Shell(r).cancelled
<1>1. ASSUME NEW o \in GroupRecord
      PROVE  LET new == [o EXCEPT !.hub = r.hub, !.race = r.race, !.pc = r.pc]
             IN  /\ new \in GroupRecord /\ new.hub = r.hub /\ new.race = r.race
                 /\ new.pc = r.pc /\ new.cancelled = o.cancelled
  BY DEF GroupRecord
<1> QED
  BY <1>1, NoGroupFields DEF Shell

-----------------------------------------------------------------------------
(* Kinds of steps.                                                         *)

\* The hubs go on: they may be cancelled, and a cancelled one may stop.
HubKept ==
    /\ hub' \in [Hub -> HubRecord]
    /\ \A h \in Hub : /\ hub'[h].event = hub[h].event /\ hub'[h].done = hub[h].done
                      /\ hub'[h].groups = hub[h].groups
                      /\ hub[h].cancelled => hub'[h].cancelled
                      /\ hub[h].stopped => hub'[h].stopped
                      /\ hub'[h].stopped => hub'[h].cancelled

\* The groups go on, and one that nobody needs may be forgotten.
GroupKept ==
    /\ group' \in [Group -> GroupRecord]
    /\ \A g \in Group :
          \/ group'[g] = NoGroup /\ Clients(g) = {}
          \/ /\ group'[g].hub = group[g].hub /\ group'[g].race = group[g].race
             /\ group[g].cancelled => group'[g].cancelled
             /\ group'[g].pc # "exited" => group[g].pc # "exited"
             /\ group'[g].pc = "exited" => group'[g].cancelled

\* The subscriptions are the same.
ClientKept ==
    /\ client' \in [Client -> ClientRecord]
    /\ \A c \in Client :
          /\ client'[c].pc = client[c].pc \/ (Open(c) /\ Open(c)')
          /\ client'[c].event = client[c].event /\ client'[c].hub = client[c].hub
          /\ client'[c].group = client[c].group /\ client'[c].base = client[c].base

\* The views only grow.
ViewKept ==
    /\ view' \in [Event -> 1 .. MaxCommit + 1]
    /\ \A e \in Event : view[e] <= view'[e]

\* Cancelling a hub, or none (setPublishedLocked, stopFinishHub).
LEMMA CancelledKept ==
    ASSUME IInv, NEW h \in Hub \cup {None}, hub' \in {hub, Cancelled(h)}
    PROVE  HubKept
<1>1. hub \in [Hub -> HubRecord] /\ \A k \in Hub : hub[k].stopped => hub[k].cancelled
  BY DEF IInv, TypeOK, HubInv
<1>2. CASE hub' = hub
  BY <1>1, <1>2 DEF HubKept
<1>3. CASE hub' = Cancelled(h) /\ h # None
  <2> DEFINE new == [hub[h] EXCEPT !.cancelled = TRUE]
  <2>1. h \in Hub /\ hub' = [hub EXCEPT ![h] = new]
    BY <1>3 DEF Cancelled
  <2>2. /\ new \in HubRecord /\ new.event = hub[h].event /\ new.done = hub[h].done
        /\ new.stopped = hub[h].stopped /\ new.groups = hub[h].groups /\ new.cancelled
    BY <1>1, <2>1, HubCancel
  <2> HIDE DEF new
  <2>3. hub' \in [Hub -> HubRecord] /\ hub'[h] = new /\ \A k \in Hub \ {h} : hub'[k] = hub[k]
    BY <1>1, <2>1, <2>2
  <2>4. \A k \in Hub : /\ hub'[k].event = hub[k].event /\ hub'[k].done = hub[k].done
                       /\ hub'[k].groups = hub[k].groups
                       /\ hub[k].cancelled => hub'[k].cancelled
                       /\ hub[k].stopped => hub'[k].stopped
                       /\ hub'[k].stopped => hub'[k].cancelled
    <3> TAKE k \in Hub
    <3>1. CASE k = h
      BY <2>2, <2>3, <3>1, <1>1
    <3>2. CASE k # h
      BY <2>3, <3>2, <1>1
    <3> QED BY <3>1, <3>2
  <2> QED
    BY <2>3, <2>4 DEF HubKept
<1>4. CASE hub' = Cancelled(h) /\ h = None
  BY <1>1, <1>4 DEF HubKept, Cancelled
<1> QED
  BY <1>2, <1>3, <1>4

\* The hubs' part of the invariant goes on with them.
LEMMA HubsGoOn == ASSUME IInv, HubKept, server'.hub = server.hub PROVE HubInv'
<1>1. \A h \in Hub : hub[h] \in HubRecord /\ hub'[h] \in HubRecord
  BY DEF IInv, TypeOK, HubKept
<1> QED
  BY <1>1 DEF IInv, HubInv, HubKept, HubRecord

\* So does the groups' part.
LEMMA GroupsGoOn == ASSUME IInv, HubKept, GroupKept PROVE GroupInv'
<1> SUFFICES ASSUME NEW g \in Group
             PROVE  /\ group'[g].pc # "exited" =>
                          group'[g].hub \in Hub /\ group'[g].race \in Race /\ ~hub'[group'[g].hub].done
                    /\ group'[g].pc = "exited" => group'[g].cancelled
                    /\ ~Ended(g)' => hub'[group'[g].hub].groups[group'[g].race] = g
  BY DEF GroupInv
<1>1. /\ group[g].pc # "exited" => group[g].hub \in Hub /\ group[g].race \in Race /\ ~hub[group[g].hub].done
      /\ group[g].pc = "exited" => group[g].cancelled
      /\ ~Ended(g) => hub[group[g].hub].groups[group[g].race] = g
  BY DEF IInv, GroupInv
<1>2. CASE group'[g] = NoGroup
  BY <1>2, NoGroupFields DEF Ended
<1>3. CASE /\ group'[g].hub = group[g].hub /\ group'[g].race = group[g].race
           /\ group[g].cancelled => group'[g].cancelled
           /\ group'[g].pc # "exited" => group[g].pc # "exited"
           /\ group'[g].pc = "exited" => group'[g].cancelled
  <2>1. group[g].pc # "exited" => hub'[group[g].hub].done = hub[group[g].hub].done
    BY <1>1 DEF HubKept
  <2>2. ASSUME ~Ended(g)' PROVE hub'[group'[g].hub].groups[group'[g].race] = g
    <3>1. ~group[g].cancelled /\ ~hub'[group[g].hub].cancelled
      BY <1>3, <2>2 DEF Ended
    <3>2. group[g].hub \in Hub
      BY <1>1, <3>1
    <3>3. ~Ended(g)
      BY <3>1, <3>2 DEF Ended, HubKept
    <3> QED
      BY <1>1, <1>3, <3>2, <3>3 DEF HubKept
  <2> QED
    BY <1>1, <1>3, <2>1, <2>2
<1> QED
  BY <1>2, <1>3 DEF GroupKept

\* A group on the map, named (finishHub.groups).
LEMMA MapAt ==
    ASSUME MapInv, NEW h \in Hub, NEW r \in Race, NEW g \in Group, hub[h].groups[r] = g
    PROVE  group[g].hub = h /\ group[g].race = r /\ Clients(g) # {}
BY DEF MapInv

\* To show MapInv after a step, name the group that is on the map then.
LEMMA MapOf ==
    ASSUME \A h \in Hub, r \in Race, g \in Group : hub'[h].groups[r] = g =>
               group'[g].hub = h /\ group'[g].race = r /\ Clients(g)' # {}
    PROVE  MapInv'
BY DEF MapInv, Clients, Open

\* And the handlers' part.
LEMMA ClientsGoOn ==
    ASSUME IInv, HubKept, GroupKept, ClientKept, ViewKept
    PROVE  ClientInv' /\ MapInv' /\ \A c \in Client : Open(c)' <=> Open(c)
<1>1. \A c \in Client : (Open(c)' <=> Open(c)) /\ (client'[c].pc = client[c].pc \/ Open(c))
  BY DEF ClientKept, Open
<1>8. MapInv'
  <2> SUFFICES ASSUME NEW h \in Hub, NEW r \in Race, NEW g \in Group, hub'[h].groups[r] = g
               PROVE  group'[g].hub = h /\ group'[g].race = r /\ Clients(g)' # {}
    BY MapOf
  <2>1. hub[h].groups[r] = g
    BY DEF HubKept
  <2>2. group[g].hub = h /\ group[g].race = r /\ Clients(g) # {}
    BY <2>1, MapAt DEF IInv
  <2>3. group'[g].hub = h /\ group'[g].race = r
    BY <2>2 DEF GroupKept
  <2>4. Clients(g)' = Clients(g)
    BY <1>1 DEF Clients, ClientKept
  <2> QED
    BY <2>2, <2>3, <2>4
<1> SUFFICES ASSUME NEW c \in Client
             PROVE  ClientInv!(c)'
  BY <1>1, <1>8 DEF ClientInv
<1>2. /\ client'[c].event = client[c].event /\ client'[c].hub = client[c].hub
      /\ client'[c].group = client[c].group /\ client'[c].base = client[c].base
  BY DEF ClientKept
<1>3. ClientInv!(c)
  BY DEF IInv, ClientInv
<1>4. client'[c].pc = "create" => client'[c].event \in Event
  BY <1>1, <1>2, <1>3 DEF Open
<1>5. client'[c].pc = "await" => client'[c].hub \in Hub
  BY <1>1, <1>2, <1>3 DEF Open
<1>6. client'[c].pc = "subscribe" \/ Open(c)' =>
              /\ client'[c].hub \in Hub /\ client'[c].event \in Event
              /\ ~hub'[client'[c].hub].done => hub'[client'[c].hub].event = client'[c].event
  BY <1>1, <1>2, <1>3 DEF Open, HubKept
<1>7. Open(c)' => /\ client'[c].group \in Group
                  /\ group'[client'[c].group].hub = client'[c].hub
                  /\ client'[c].base <= view'[client'[c].event]
  <2> SUFFICES ASSUME Open(c)
               PROVE  /\ client[c].group \in Group
                      /\ group'[client[c].group].hub = client[c].hub
                      /\ client[c].base <= view'[client[c].event]
    BY <1>1, <1>2
  <2>1. /\ client[c].group \in Group /\ group[client[c].group].hub = client[c].hub
        /\ client[c].base <= view[client[c].event] /\ client[c].event \in Event
    BY <1>3
  <2>2. c \in Clients(client[c].group)
    BY DEF Clients
  <2>3. group'[client[c].group].hub = client[c].hub
    BY <2>1, <2>2 DEF GroupKept
  <2>4. client[c].base \in Int /\ view[client[c].event] \in Int /\ view'[client[c].event] \in Int
    BY <2>1, HubAssumption DEF IInv, TypeOK, ClientRecord, Frame, NoFrame, ViewKept
  <2>5. view[client[c].event] <= view'[client[c].event]
    BY <2>1 DEF ViewKept
  <2> QED
    BY <2>1, <2>3, <2>4, <2>5
<1> QED
  BY <1>4, <1>5, <1>6, <1>7

\* Fewer subscriptions, workers and builds stay within the limits.
LEMMA LimitsShrink ==
    ASSUME IInv,
           \A h \in Hub : /\ HubClients(h)' \subseteq HubClients(h)
                          /\ Workers(h)' \subseteq Workers(h)
                          /\ Building(h)' \subseteq Building(h)
    PROVE  LimitInv'
<1> SUFFICES ASSUME NEW h \in Hub
             PROVE  /\ Cardinality(HubClients(h)') <= MaxClients /\ IsFiniteSet(HubClients(h)')
                    /\ Cardinality(Workers(h)') <= MaxClients /\ IsFiniteSet(Workers(h)')
                    /\ Cardinality(Building(h)') <= BuildSlots
  BY DEF LimitInv, WithinLimits
<1>1. MaxClients \in Nat /\ BuildSlots \in Nat
  BY HubAssumption
<1>2. /\ Cardinality(HubClients(h)) <= MaxClients /\ IsFiniteSet(HubClients(h))
      /\ Cardinality(Workers(h)) <= MaxClients /\ IsFiniteSet(Workers(h))
      /\ Cardinality(Building(h)) <= BuildSlots
  BY DEF IInv, LimitInv, WithinLimits
<1>3. Building(h) \subseteq Workers(h)
  BY DEF Building, Workers
<1>4. IsFiniteSet(Building(h))
  BY <1>2, <1>3, FS_Subset
<1>5. ASSUME NEW S, NEW T \in SUBSET S, IsFiniteSet(S), NEW n \in Nat, Cardinality(S) <= n
      PROVE  IsFiniteSet(T) /\ Cardinality(T) <= n
  <2>1. IsFiniteSet(T) /\ Cardinality(T) <= Cardinality(S)
    BY <1>5, FS_Subset
  <2>2. Cardinality(T) \in Nat /\ Cardinality(S) \in Nat
    BY <1>5, <2>1, FS_CardinalityType
  <2> QED
    BY <1>5, <2>1, <2>2
<1> QED
  BY <1>1, <1>2, <1>4, <1>5

\* Frames stay fresh where a handler only moves the frames it has, and every
\* frame in the hands of a worker is new enough.
LEMMA FramesGoOn ==
    ASSUME IInv, ClientKept,
           \A c \in Client : /\ client'[c].shown \in {client[c].shown, client[c].pending}
                             /\ client'[c].pending \in {client[c].pending, NoFrame},
           \A c \in Client : Open(c)' /\ client'[c].ripe =>
               LET g == client[c].group
               IN  ~Ended(g)' /\ group'[g].pc = "loaded" => group'[g].frame >= client[c].base
    PROVE  FrameInv'
<1>1. \A c \in Client : (Open(c)' <=> Open(c)) /\ client'[c].group = client[c].group /\ client'[c].base = client[c].base
  BY DEF ClientKept, Open
<1>2. \A c \in Client : ~Open(c)' => client'[c].pending = NoFrame /\ client'[c].shown = NoFrame
  BY <1>1 DEF IInv, FrameInv
<1>3. FreshFrames'
  BY <1>1 DEF IInv, FrameInv, FreshFrames
<1> QED
  BY <1>1, <1>2, <1>3 DEF FrameInv

\* No frame is loaded and no subscription begins to accept one.
LEMMA LoadedKept ==
    ASSUME IInv, HubKept, GroupKept, ClientKept,
           \A c \in Client : client'[c].ripe /\ group'[client[c].group].pc = "loaded" => client[c].ripe,
           \A g \in Group : group'[g].pc = "loaded" /\ ~group'[g].cancelled =>
               group[g].pc = "loaded" /\ group'[g].frame = group[g].frame
    PROVE  \A c \in Client : Open(c)' /\ client'[c].ripe =>
               LET g == client[c].group
               IN  ~Ended(g)' /\ group'[g].pc = "loaded" => group'[g].frame >= client[c].base
<1> SUFFICES ASSUME NEW c \in Client, Open(c)', client'[c].ripe,
                    ~Ended(client[c].group)', group'[client[c].group].pc = "loaded"
             PROVE  group'[client[c].group].frame >= client[c].base
  OBVIOUS
<1> DEFINE g == client[c].group
<1>1. Open(c) /\ client[c].ripe
  BY DEF ClientKept, Open
<1>2. g \in Group
  BY <1>1 DEF IInv, ClientInv
<1>3. ~group'[g].cancelled /\ ~hub'[group'[g].hub].cancelled
  BY DEF Ended, ClientKept
<1>4. group[g].pc = "loaded" /\ group'[g].frame = group[g].frame
  BY <1>2, <1>3
<1>5. group'[g].hub = group[g].hub /\ ~group[g].cancelled
  BY <1>2, <1>3, NoGroupFields DEF GroupKept
<1>6. group[g].hub \in Hub
  BY <1>2, <1>4 DEF IInv, GroupInv
<1>7. ~Ended(g)
  BY <1>3, <1>5, <1>6 DEF Ended, HubKept
<1> QED
  BY <1>1, <1>4, <1>7 DEF IInv, FrameInv

\* A step that leaves the groups alone (Commit).
LEMMA GroupSame == ASSUME IInv, group' = group PROVE GroupKept
BY DEF IInv, TypeOK, GroupInv, GroupKept

\* A step that leaves the handlers alone (Commit).
LEMMA ClientSame == ASSUME IInv, client' = client PROVE ClientKept
BY DEF IInv, TypeOK, ClientKept

\* A step that commits nothing (Notify).
LEMMA ViewSame == ASSUME IInv, view' = view PROVE ViewKept
<1>1. \A e \in Event : view[e] \in 1 .. MaxCommit + 1
  BY DEF IInv, TypeOK
<1>2. \A e \in Event : view[e] <= view[e]
  BY <1>1, HubAssumption
<1> QED
  BY <1>1, <1>2 DEF IInv, TypeOK, ViewKept

\* The store and the publication change, hubs are cancelled or stop; groups and
\* handlers are left alone.
LEMMA QuietInv ==
    ASSUME IInv, HubKept, ViewKept, UNCHANGED <<group, client>>, server'.hub = server.hub
    PROVE  HubInv' /\ GroupInv' /\ ClientInv' /\ MapInv' /\ FrameInv' /\ LimitInv'
<1>1. GroupKept /\ ClientKept
  BY GroupSame, ClientSame
<1>2. HubInv' /\ GroupInv' /\ ClientInv' /\ MapInv'
  BY <1>1, HubsGoOn, GroupsGoOn, ClientsGoOn
<1>3. FrameInv'
  <2>1. \A c \in Client : Open(c)' /\ client'[c].ripe =>
               LET g == client[c].group
               IN  ~Ended(g)' /\ group'[g].pc = "loaded" => group'[g].frame >= client[c].base
    BY <1>1, LoadedKept
  <2> QED
    BY <1>1, <2>1, FramesGoOn
<1>4. LimitInv'
  BY LimitsShrink DEF HubClients, Workers, Building, Open
<1> QED
  BY <1>2, <1>3, <1>4

-----------------------------------------------------------------------------
(* The inductive invariant holds initially and is kept by every action.    *)

\* A server with nothing published satisfies the invariant.
LEMMA InitInv == Init => IInv
<1> SUFFICES ASSUME Init PROVE IInv
  OBVIOUS
<1>1. TypeOK
  <2>1. view \in [Event -> 1 .. MaxCommit + 1] /\ writers \in [Event -> 0 .. MaxCommit]
    BY HubAssumption DEF Init
  <2>2. signal \in [Event -> [generation : 0 .. MaxCommit, wake : BOOLEAN]]
    BY HubAssumption DEF Init
  <2>3. server \in [published : Event \cup {None}, epoch : 0 .. MaxEpoch, hub : Hub \cup {None}, stopping : BOOLEAN]
    BY HubAssumption DEF Init
  <2> QED
    BY <2>1, <2>2, <2>3, NoHubFields, NoGroupFields, NoClientFields DEF Init, TypeOK
<1>2. CountInv
  BY HubAssumption DEF Init, CountInv
<1>3. HubInv /\ GroupInv
  BY NoHubFields, NoGroupFields DEF Init, HubInv, GroupInv, Ended
<1>4. \A c \in Client : ~Open(c) /\ client[c] = NoClient
  BY NoClientFields DEF Init, Open
<1>5. ClientInv /\ FrameInv /\ MapInv
  <2>1. \A h \in Hub, r \in Race : hub[h].groups[r] = None
    BY DEF Init, NoHub
  <2> QED
    BY <1>4, <2>1, NoClientFields, HubAssumption DEF ClientInv, FrameInv, FreshFrames, MapInv
<1>6. LimitInv
  <2>1. \A h \in Hub : HubClients(h) = {} /\ Workers(h) = {} /\ Building(h) = {}
    BY <1>4, NoGroupFields DEF Init, HubClients, Workers, Building
  <2>2. IsFiniteSet({}) /\ Cardinality({}) = 0
    BY FS_EmptySet
  <2> QED
    BY <2>1, <2>2, HubAssumption DEF LimitInv, WithinLimits
<1> QED
  BY <1>1, <1>2, <1>3, <1>5, <1>6 DEF IInv

\* A commit, and its notification (committedFinishes).
LEMMA StoreInv == ASSUME IInv, NEW e \in Event, Commit(e) \/ Notify(e) PROVE IInv'
<1>1. UNCHANGED <<server, hub, group, client>>
  BY DEF Commit, Notify
<1>2. /\ view \in [Event -> 1 .. MaxCommit + 1] /\ writers \in [Event -> 0 .. MaxCommit]
      /\ signal \in [Event -> [generation : 0 .. MaxCommit, wake : BOOLEAN]]
      /\ MaxCommit \in Nat
  BY HubAssumption DEF IInv, TypeOK
<1>3. \A a \in Event : /\ view[a] \in Nat /\ writers[a] \in Nat /\ signal[a].generation \in Nat
                       /\ view[a] = 1 + signal[a].generation + writers[a]
                       /\ signal[a].generation + writers[a] <= MaxCommit
  BY <1>2 DEF IInv, CountInv
<1>4. /\ ViewKept /\ CountInv'
      /\ writers' \in [Event -> 0 .. MaxCommit]
      /\ signal' \in [Event -> [generation : 0 .. MaxCommit, wake : BOOLEAN]]
  <2>1. CASE Commit(e)
    <3>1. /\ signal[e].generation + writers[e] < MaxCommit /\ signal' = signal
          /\ writers' = [writers EXCEPT ![e] = writers[e] + 1]
          /\ view' = [view EXCEPT ![e] = view[e] + 1]
      BY <2>1 DEF Commit
    <3>2. view[e] + 1 \in 1 .. MaxCommit + 1 /\ writers[e] + 1 \in 0 .. MaxCommit
      BY <1>2, <1>3, <3>1
    <3>3. /\ view' \in [Event -> 1 .. MaxCommit + 1] /\ writers' \in [Event -> 0 .. MaxCommit]
          /\ view'[e] = view[e] + 1 /\ writers'[e] = writers[e] + 1
          /\ \A a \in Event \ {e} : view'[a] = view[a] /\ writers'[a] = writers[a]
      BY <1>2, <3>1, <3>2
    <3>4. ViewKept
      BY <1>3, <3>3 DEF ViewKept
    <3>5. CountInv'
      BY <1>2, <1>3, <3>1, <3>3 DEF CountInv
    <3> QED
      BY <1>2, <3>1, <3>3, <3>4, <3>5
  <2>2. CASE Notify(e)
    <3> DEFINE n == signal[e].generation
               new == [generation |-> n + 1, wake |-> TRUE]
    <3>1. /\ writers[e] > 0 /\ view' = view
          /\ writers' = [writers EXCEPT ![e] = writers[e] - 1]
          /\ signal' = [signal EXCEPT ![e] = new]
      BY <2>2 DEF Notify, Advanced
    <3>2. n + 1 \in 0 .. MaxCommit /\ writers[e] - 1 \in 0 .. MaxCommit /\ n \in Nat
      BY <1>2, <1>3, <3>1
    <3>3. new \in [generation : 0 .. MaxCommit, wake : BOOLEAN] /\ new.generation = n + 1
      BY <3>2
    <3> HIDE DEF new
    <3>4. /\ writers' \in [Event -> 0 .. MaxCommit]
          /\ signal' \in [Event -> [generation : 0 .. MaxCommit, wake : BOOLEAN]]
          /\ signal'[e] = new /\ writers'[e] = writers[e] - 1
          /\ \A a \in Event \ {e} : signal'[a] = signal[a] /\ writers'[a] = writers[a]
      BY <1>2, <3>1, <3>2, <3>3
    <3>5. CountInv'
      BY <1>2, <1>3, <3>1, <3>3, <3>4 DEF CountInv
    <3> QED
      BY <3>1, <3>4, <3>5, ViewSame
  <2> QED
    BY <2>1, <2>2
<1>5. TypeOK'
  BY <1>1, <1>4 DEF IInv, TypeOK, ViewKept
<1>6. HubKept
  BY <1>1, CancelledKept DEF IInv, TypeOK
<1> QED
  BY <1>1, <1>4, <1>5, <1>6, QuietInv DEF IInv

\* Publishing and unpublishing cancel the hub (setPublishedLocked, stopFinishHub).
LEMMA PublicationInv ==
    ASSUME IInv, (\E e \in Event : Publish(e)) \/ PublishFails \/ Unpublish \/ StopFinishHub
    PROVE  IInv'
<1> DEFINE Servers == [published : Event \cup {None}, epoch : 0 .. MaxEpoch, hub : Hub \cup {None}, stopping : BOOLEAN]
<1>1. /\ UNCHANGED <<view, writers, signal, group, client>>
      /\ hub' = Cancelled(server.hub)
  BY DEF Publish, PublishFails, Unpublish, StopFinishHub
<1>2. server \in Servers /\ server.hub \in Hub \cup {None} /\ server.epoch \in 0 .. MaxEpoch /\ MaxEpoch \in Nat
  BY HubAssumption DEF IInv, TypeOK
<1>3. server' \in Servers /\ server'.hub = server.hub
  <2>1. ASSUME NEW s \in Servers, NEW p \in Event \cup {None}, NEW n \in 0 .. MaxEpoch, NEW b \in BOOLEAN
        PROVE  /\ [s EXCEPT !.published = p, !.epoch = n] \in Servers
               /\ [s EXCEPT !.published = p, !.epoch = n].hub = s.hub
               /\ [s EXCEPT !.epoch = n] \in Servers /\ [s EXCEPT !.epoch = n].hub = s.hub
               /\ [s EXCEPT !.stopping = b] \in Servers /\ [s EXCEPT !.stopping = b].hub = s.hub
    OBVIOUS
  <2>2. CASE \E e \in Event : Publish(e)
    <3>1. PICK e \in Event : server' = SetPublished(e) /\ server.epoch < MaxEpoch
      BY <2>2 DEF Publish
    <3>2. server.epoch + 1 \in 0 .. MaxEpoch
      BY <1>2, <3>1
    <3> QED BY <1>2, <2>1, <3>1, <3>2 DEF SetPublished
  <2>3. CASE PublishFails
    <3>1. server.epoch + 2 \in 0 .. MaxEpoch /\ server' = [server EXCEPT !.epoch = server.epoch + 2]
      BY <1>2, <2>3 DEF PublishFails
    <3> QED BY <1>2, <2>1, <3>1
  <2>4. CASE Unpublish
    <3>1. server' = [SetPublished(None) EXCEPT !.stopping = TRUE] /\ server.epoch + 1 \in 0 .. MaxEpoch
      BY <1>2, <2>4 DEF Unpublish
    <3>2. SetPublished(None) \in Servers /\ SetPublished(None).hub = server.hub
      BY <1>2, <2>1, <3>1 DEF SetPublished
    <3> QED BY <2>1, <3>1, <3>2
  <2>5. CASE StopFinishHub
    <3>1. server' = [server EXCEPT !.stopping = FALSE]
      BY <2>5 DEF StopFinishHub
    <3> QED BY <1>2, <2>1, <3>1
  <2> QED
    BY <2>2, <2>3, <2>4, <2>5
<1>4. HubKept
  BY <1>1, <1>2, CancelledKept
<1>5. TypeOK' /\ CountInv'
  BY <1>1, <1>3, <1>4 DEF IInv, TypeOK, CountInv, HubKept
<1> QED
  BY <1>1, <1>3, <1>4, <1>5, ViewSame, QuietInv DEF IInv

\* The dispatcher hands a wake-up to every group (finishHub.run).
LEMMA DispatchInv == ASSUME IInv, NEW h \in Hub, Dispatch(h) PROVE IInv'
<1>1. /\ ~hub[h].stopped
      /\ signal' = [signal EXCEPT ![hub[h].event].wake = FALSE]
      /\ group' = [g \in Group |-> IF group[g].pc # "exited" /\ \E r \in Race : hub[h].groups[r] = g
                                   THEN [group[g] EXCEPT !.wake = TRUE] ELSE group[g]]
      /\ UNCHANGED <<view, writers, server, hub, client>>
  BY DEF Dispatch
<1>2. hub[h].event \in Event
  BY <1>1 DEF IInv, HubInv
<1>3. /\ signal \in [Event -> [generation : 0 .. MaxCommit, wake : BOOLEAN]]
      /\ group \in [Group -> GroupRecord]
  BY DEF IInv, TypeOK
<1>4. /\ signal' \in [Event -> [generation : 0 .. MaxCommit, wake : BOOLEAN]]
      /\ \A e \in Event : signal'[e].generation = signal[e].generation
  <2> DEFINE e == hub[h].event
             new == [signal[e] EXCEPT !.wake = FALSE]
  <2>1. new \in [generation : 0 .. MaxCommit, wake : BOOLEAN] /\ new.generation = signal[e].generation
    BY <1>2, <1>3
  <2>2. signal' = [signal EXCEPT ![e] = new]
    BY <1>1
  <2> HIDE DEF e, new
  <2> QED BY <1>2, <1>3, <2>1, <2>2 DEF e
<1>5. ASSUME NEW r \in GroupRecord
      PROVE  LET new == [r EXCEPT !.wake = TRUE]
             IN  /\ new \in GroupRecord /\ new.hub = r.hub /\ new.race = r.race /\ new.cancelled = r.cancelled
                 /\ new.pc = r.pc /\ new.frame = r.frame
  BY DEF GroupRecord
<1>6. \A g \in Group : /\ group'[g] \in GroupRecord
                       /\ group'[g].hub = group[g].hub /\ group'[g].race = group[g].race
                       /\ group'[g].cancelled = group[g].cancelled /\ group'[g].pc = group[g].pc
                       /\ group'[g].frame = group[g].frame
  <2> TAKE g \in Group
  <2>1. group'[g] = group[g] \/ group'[g] = [group[g] EXCEPT !.wake = TRUE]
    BY <1>1
  <2> QED
    BY <1>3, <1>5, <2>1
<1>7. group' \in [Group -> GroupRecord]
  BY <1>1, <1>6
<1>8. HubKept /\ GroupKept /\ ClientKept /\ ViewKept
  <2>1. HubKept
    BY <1>1, CancelledKept DEF IInv, TypeOK
  <2>2. GroupKept
    BY <1>6, <1>7 DEF IInv, GroupInv, GroupKept
  <2> QED
    BY <1>1, <2>1, <2>2, ClientSame, ViewSame
<1>9. TypeOK' /\ CountInv'
  BY <1>1, <1>4, <1>7 DEF IInv, TypeOK, CountInv
<1>10. HubInv' /\ GroupInv' /\ ClientInv' /\ MapInv'
  BY <1>1, <1>8, HubsGoOn, GroupsGoOn, ClientsGoOn
<1>11. FrameInv'
  <2>1. \A c \in Client : Open(c)' /\ client'[c].ripe =>
               LET g == client[c].group
               IN  ~Ended(g)' /\ group'[g].pc = "loaded" => group'[g].frame >= client[c].base
    BY <1>1, <1>6, <1>8, LoadedKept
  <2> QED
    BY <1>1, <1>8, <2>1, FramesGoOn
<1>12. LimitInv'
  BY <1>1, <1>6, LimitsShrink DEF HubClients, Workers, Building, Open
<1> QED
  BY <1>9, <1>10, <1>11, <1>12 DEF IInv

\* It stops once it is cancelled (finishHub.run).
LEMMA HubStopInv == ASSUME IInv, NEW h \in Hub, HubStop(h) PROVE IInv'
<1> DEFINE new == [hub[h] EXCEPT !.stopped = TRUE]
<1>1. /\ hub[h].cancelled /\ hub' = [hub EXCEPT ![h] = new]
      /\ UNCHANGED <<view, writers, signal, server, group, client>>
  BY DEF HubStop
<1>2. hub \in [Hub -> HubRecord] /\ \A k \in Hub : hub[k].stopped => hub[k].cancelled
  BY DEF IInv, TypeOK, HubInv
<1>3. /\ new \in HubRecord /\ new.event = hub[h].event /\ new.done = hub[h].done
      /\ new.cancelled = hub[h].cancelled /\ new.groups = hub[h].groups /\ new.stopped
  BY <1>2, HubStopped
<1> HIDE DEF new
<1>4. hub' \in [Hub -> HubRecord] /\ hub'[h] = new /\ \A k \in Hub \ {h} : hub'[k] = hub[k]
  BY <1>1, <1>2, <1>3
<1>5. \A k \in Hub : /\ hub'[k].event = hub[k].event /\ hub'[k].done = hub[k].done
                     /\ hub'[k].groups = hub[k].groups
                     /\ hub[k].cancelled => hub'[k].cancelled
                     /\ hub[k].stopped => hub'[k].stopped
                     /\ hub'[k].stopped => hub'[k].cancelled
  <2> TAKE k \in Hub
  <2>1. CASE k = h
    BY <1>1, <1>3, <1>4, <2>1
  <2>2. CASE k # h
    BY <1>2, <1>4, <2>2
  <2> QED BY <2>1, <2>2
<1>6. HubKept
  BY <1>4, <1>5 DEF HubKept
<1>7. TypeOK' /\ CountInv'
  BY <1>1, <1>4 DEF IInv, TypeOK, CountInv
<1> QED
  BY <1>1, <1>6, <1>7, ViewSame, QuietInv DEF IInv

\* A hub ends when its last worker has: nobody can be reached through it any
\* more (finishHub.run).
LEMMA HubDoneInv == ASSUME IInv, NEW h \in Hub, HubDone(h) PROVE IInv'
<1>1. /\ hub[h].stopped /\ Workers(h) = {} /\ hub' = [hub EXCEPT ![h] = NoHub]
      /\ UNCHANGED <<view, writers, signal, server, group, client>>
  BY DEF HubDone
<1>2. hub' \in [Hub -> HubRecord] /\ hub'[h] = NoHub /\ \A k \in Hub \ {h} : hub'[k] = hub[k]
  BY <1>1, NoHubFields DEF IInv, TypeOK
<1>3. \A g \in Group : group[g].hub = h => group[g].pc = "exited"
  BY <1>1 DEF Workers
<1>4. \A g \in Group : ~group[g].cancelled => group[g].hub \in Hub /\ group[g].hub # h
  BY <1>3 DEF IInv, GroupInv
<1>5. \A g \in Group : ~Ended(g)' => ~Ended(g) /\ group[g].hub \in Hub \ {h}
  BY <1>1, <1>2, <1>4 DEF Ended
<1>6. TypeOK' /\ CountInv'
  BY <1>1, <1>2 DEF IInv, TypeOK, CountInv
<1>7. HubInv'
  BY <1>1, <1>2, NoHubFields DEF IInv, HubInv
<1>8. GroupInv'
  BY <1>1, <1>2, <1>3, <1>5 DEF IInv, GroupInv
<1>9. ClientInv' /\ MapInv'
  <2>1. ClientInv'
    BY <1>1, <1>2, NoHubFields DEF IInv, ClientInv, Open
  <2>2. \A r \in Race : hub'[h].groups[r] \notin Group
    BY <1>2, HubAssumption DEF NoHub
  <2>3. \A g \in Group : Clients(g)' = Clients(g)
    BY <1>1 DEF Clients, Open
  <2>4. MapInv'
    BY <1>1, <1>2, <2>2, <2>3 DEF IInv, MapInv
  <2> QED
    BY <2>1, <2>4
<1>10. FrameInv'
  <2>1. FreshFrames'
    BY <1>1 DEF IInv, FrameInv, FreshFrames, Open
  <2>2. \A c \in Client : Open(c) => client[c].group \in Group
    BY DEF IInv, ClientInv
  <2>3. \A c \in Client : Open(c)' <=> Open(c)
    BY <1>1 DEF Open
  <2>4. \A c \in Client : Open(c) => (~Ended(client[c].group)' => ~Ended(client[c].group))
    BY <1>1, <1>5, <2>2
  <2> QED
    BY <1>1, <2>1, <2>3, <2>4 DEF IInv, FrameInv
<1>11. LimitInv'
  BY <1>1, LimitsShrink DEF HubClients, Workers, Building, Open
<1> QED
  BY <1>6, <1>7, <1>8, <1>9, <1>10, <1>11 DEF IInv

-----------------------------------------------------------------------------
(* The workers.                                                            *)

\* What becomes of a group whose worker, or whose last viewer, takes a step
\* (finishGroup.run, close).
LEMMA GroupedFields ==
    ASSUME IInv, NEW g \in Group, NEW rec \in GroupRecord, NEW V,
           group' = Grouped(g, rec, V)
    PROVE  /\ group' \in [Group -> GroupRecord]
           /\ \A k \in Group \ {g} : group'[k] = group[k]
           /\ group'[g].pc = rec.pc
           /\ \/ group'[g] = NoGroup /\ V = {}
              \/ /\ group'[g].hub = rec.hub /\ group'[g].race = rec.race
                 /\ rec.cancelled => group'[g].cancelled
           /\ ~group'[g].cancelled => group'[g] = rec
           /\ rec.pc = "exited" /\ rec.cancelled => group'[g].cancelled
<1> DEFINE new == IF rec.pc = "exited" /\ V = {} THEN NoGroup
                  ELSE IF rec.cancelled \/ hub[rec.hub].cancelled THEN Shell(rec) ELSE rec
<1>1. group' = [group EXCEPT ![g] = new]
  BY Zenon DEF Grouped, Shell
<1>2. group \in [Group -> GroupRecord]
  BY DEF IInv, TypeOK
<1>3. /\ new \in GroupRecord /\ new.pc = rec.pc
      /\ \/ new = NoGroup /\ V = {}
         \/ /\ new.hub = rec.hub /\ new.race = rec.race
            /\ rec.cancelled => new.cancelled
      /\ ~new.cancelled => new = rec
      /\ rec.pc = "exited" /\ rec.cancelled => new.cancelled
  <2>1. CASE rec.pc = "exited" /\ V = {}
    BY <2>1, NoGroupFields
  <2>2. CASE ~(rec.pc = "exited" /\ V = {}) /\ (rec.cancelled \/ hub[rec.hub].cancelled)
    <3>1. new = Shell(rec)
      BY <2>2
    <3> HIDE DEF new
    <3> QED BY <3>1, ShellFields
  <2>3. CASE ~(rec.pc = "exited" /\ V = {}) /\ ~(rec.cancelled \/ hub[rec.hub].cancelled)
    BY <2>3
  <2> QED
    BY <2>1, <2>2, <2>3
<1> HIDE DEF new
<1>4. group'[g] = new /\ \A k \in Group \ {g} : group'[k] = group[k]
  BY <1>1, <1>2
<1> QED
  BY <1>1, <1>2, <1>3, <1>4

\* A worker goes on or exits, and its group with it.
LEMMA WorkKept ==
    ASSUME IInv, NEW g \in Group, NEW rec \in GroupRecord, Work(g, rec),
           rec.hub = group[g].hub, rec.race = group[g].race,
           group[g].cancelled => rec.cancelled,
           group[g].pc # "exited",
           rec.pc = "exited" => rec.cancelled
    PROVE  /\ GroupKept
           /\ group'[g].pc = rec.pc
           /\ ~group'[g].cancelled => group'[g] = rec
           /\ \A k \in Group \ {g} : group'[k] = group[k]
           /\ \A h \in Hub : Workers(h)' \subseteq Workers(h)
<1>1. group' = Grouped(g, rec, Clients(g))
  BY DEF Work
<1>2. /\ group' \in [Group -> GroupRecord]
      /\ \A k \in Group \ {g} : group'[k] = group[k]
      /\ group'[g].pc = rec.pc
      /\ \/ group'[g] = NoGroup /\ Clients(g) = {}
         \/ /\ group'[g].hub = rec.hub /\ group'[g].race = rec.race
            /\ rec.cancelled => group'[g].cancelled
      /\ ~group'[g].cancelled => group'[g] = rec
      /\ rec.pc = "exited" /\ rec.cancelled => group'[g].cancelled
  BY <1>1, GroupedFields
<1>3. \A k \in Group : group[k].pc = "exited" => group[k].cancelled
  BY DEF IInv, GroupInv
<1>4. GroupKept
  BY <1>2, <1>3 DEF GroupKept
<1>5. \A h \in Hub : Workers(h)' \subseteq Workers(h)
  BY <1>2, NoGroupFields DEF Workers
<1> QED
  BY <1>2, <1>4, <1>5

\* A step of a worker that loads nothing and offers nothing.
LEMMA WorkInv ==
    ASSUME IInv, HubKept, GroupKept, ViewKept, UNCHANGED <<view, writers, signal, server, hub, client>>,
           NEW g \in Group,
           \A k \in Group \ {g} : group'[k] = group[k],
           \A h \in Hub : Workers(h)' \subseteq Workers(h),
           group'[g].pc \notin {"load", "loaded"}
    PROVE  IInv'
<1>1. TypeOK' /\ CountInv'
  BY DEF IInv, TypeOK, CountInv, GroupKept
<1>2. HubInv' /\ GroupInv' /\ ClientInv' /\ MapInv' /\ ClientKept
  BY HubsGoOn, GroupsGoOn, ClientsGoOn, ClientSame
<1>3. FrameInv'
  <2>1. \A k \in Group : group'[k].pc = "loaded" => group'[k] = group[k]
    OBVIOUS
  <2>2. \A c \in Client : Open(c)' /\ client'[c].ripe =>
               LET k == client[c].group
               IN  ~Ended(k)' /\ group'[k].pc = "loaded" => group'[k].frame >= client[c].base
    BY <1>2, <2>1, LoadedKept
  <2> QED
    BY <1>2, <2>2, FramesGoOn
<1>4. LimitInv'
  <2>1. \A h \in Hub : Building(h)' \subseteq Building(h) /\ HubClients(h)' \subseteq HubClients(h)
    BY DEF Building, HubClients, Open
  <2> QED
    BY <2>1, LimitsShrink
<1> QED
  BY <1>1, <1>2, <1>3, <1>4 DEF IInv

\* The records a worker's steps make (finishGroup.run).
Begun(r, n) == [r EXCEPT !.pc = "sampled", !.wake = FALSE, !.generation = n]
Loaded(r, f) == [r EXCEPT !.pc = "loaded", !.frame = f]
Checked(r, n, f, b) == [r EXCEPT !.pc = "wait", !.generation = n, !.frame = f, !.wake = b]
Gone(r) == [NoGroup EXCEPT !.hub = r.hub, !.race = r.race]

\* A build begins (finishGroup.run).
LEMMA BegunFields ==
    ASSUME NEW r \in GroupRecord, NEW n \in 0 .. MaxCommit
    PROVE  /\ Begun(r, n) \in GroupRecord /\ Begun(r, n).hub = r.hub /\ Begun(r, n).race = r.race
           /\ Begun(r, n).cancelled = r.cancelled /\ Begun(r, n).pc = "sampled"
BY DEF GroupRecord, Begun

\* A worker gets a slot, or has published (buildSlots).
LEMMA PcFields ==
    ASSUME NEW r \in GroupRecord, NEW p \in {"load", "check"}
    PROVE  LET new == [r EXCEPT !.pc = p]
           IN  /\ new \in GroupRecord /\ new.hub = r.hub /\ new.race = r.race
               /\ new.cancelled = r.cancelled /\ new.pc = p
BY DEF GroupRecord

\* A snapshot is loaded (finishGroup.run).
LEMMA LoadedFields ==
    ASSUME NEW r \in GroupRecord, NEW f \in Frame
    PROVE  /\ Loaded(r, f) \in GroupRecord /\ Loaded(r, f).hub = r.hub /\ Loaded(r, f).race = r.race
           /\ Loaded(r, f).cancelled = r.cancelled /\ Loaded(r, f).pc = "loaded" /\ Loaded(r, f).frame = f
BY DEF GroupRecord, Loaded

\* The worker compares the generation and waits (finishGroup.run).
LEMMA CheckedFields ==
    ASSUME NEW r \in GroupRecord, NEW n \in 0 .. MaxCommit, NEW f \in Frame, NEW b \in BOOLEAN
    PROVE  /\ Checked(r, n, f, b) \in GroupRecord /\ Checked(r, n, f, b).hub = r.hub
           /\ Checked(r, n, f, b).race = r.race
           /\ Checked(r, n, f, b).cancelled = r.cancelled /\ Checked(r, n, f, b).pc = "wait"
BY DEF GroupRecord, Checked

\* A worker exits (finishGroup.run).
LEMMA GoneFields ==
    ASSUME NEW r \in GroupRecord
    PROVE  /\ Gone(r) \in GroupRecord /\ Gone(r).hub = r.hub /\ Gone(r).race = r.race
           /\ Gone(r).cancelled /\ Gone(r).pc = "exited"
<1>1. ASSUME NEW o \in GroupRecord
      PROVE  LET new == [o EXCEPT !.hub = r.hub, !.race = r.race]
             IN  /\ new \in GroupRecord /\ new.hub = r.hub /\ new.race = r.race
                 /\ new.pc = o.pc /\ new.cancelled = o.cancelled
  BY DEF GroupRecord
<1> QED
  BY <1>1, NoGroupFields DEF Gone

\* The event of a worker's hub, and its counters.
LEMMA WorkerEvent ==
    ASSUME IInv, NEW g \in Group, group[g].pc # "exited"
    PROVE  LET h == group[g].hub
           IN  /\ h \in Hub /\ ~hub[h].done /\ hub[h].event \in Event
               /\ signal[hub[h].event].generation \in 0 .. MaxCommit
               /\ view[hub[h].event] \in Frame
<1>1. group[g].hub \in Hub /\ ~hub[group[g].hub].done /\ hub[group[g].hub].event \in Event
  BY DEF IInv, GroupInv, HubInv
<1>2. signal[hub[group[g].hub].event].generation \in 0 .. MaxCommit
  BY <1>1 DEF IInv, TypeOK
<1>3. view[hub[group[g].hub].event] \in 1 .. MaxCommit + 1
  BY <1>1 DEF IInv, TypeOK
<1> QED
  BY <1>1, <1>2, <1>3, HubAssumption DEF Frame, NoFrame

\* Steps that leave the hubs and the views alone.
LEMMA Around == ASSUME IInv, UNCHANGED <<hub, view>> PROVE HubKept /\ ViewKept
<1>1. HubKept
  BY CancelledKept DEF IInv, TypeOK
<1> QED
  BY <1>1, ViewSame

\* A build begins: the subscriptions there are accept it; none is loaded in this
\* group (finishGroup.run).
LEMMA BuildBeginInv == ASSUME IInv, NEW g \in Group, BuildBegin(g) PROVE IInv'
<1> DEFINE n == signal[hub[group[g].hub].event].generation
           rec == Begun(group[g], n)
<1>1. /\ group[g].pc = "wait" /\ Work(g, rec)
      /\ client' = [c \in Client |-> [client[c] EXCEPT !.ripe = client[c].ripe \/ c \in Clients(g)]]
      /\ UNCHANGED <<view, writers, signal, server, hub>>
  BY DEF BuildBegin, Begun
<1>2. group[g] \in GroupRecord /\ n \in 0 .. MaxCommit
  BY <1>1, WorkerEvent DEF IInv, TypeOK
<1>3. rec \in GroupRecord /\ rec.hub = group[g].hub /\ rec.race = group[g].race /\ rec.cancelled = group[g].cancelled /\ rec.pc = "sampled"
  <2> HIDE DEF n
  <2> QED BY <1>2, BegunFields
<1> HIDE DEF rec, n
<1>4. /\ GroupKept /\ group'[g].pc = "sampled"
      /\ \A k \in Group \ {g} : group'[k] = group[k]
      /\ \A h \in Hub : Workers(h)' \subseteq Workers(h)
  BY <1>1, <1>3, WorkKept
<1>5. ASSUME NEW c \in Client
      PROVE  /\ client'[c] \in ClientRecord /\ client'[c].pc = client[c].pc
             /\ client'[c].event = client[c].event /\ client'[c].hub = client[c].hub
             /\ client'[c].group = client[c].group /\ client'[c].base = client[c].base
             /\ client'[c].shown = client[c].shown /\ client'[c].pending = client[c].pending
             /\ client'[c].ripe = (client[c].ripe \/ c \in Clients(g))
  <2>1. client[c] \in ClientRecord
    BY DEF IInv, TypeOK
  <2>2. PICK b \in BOOLEAN : b = (client[c].ripe \/ c \in Clients(g))
    BY Zenon
  <2>3. client'[c] = [client[c] EXCEPT !.ripe = b]
    BY <1>1, <2>2
  <2>4. client'[c].ripe = b
    BY <2>1, <2>3 DEF ClientRecord
  <2>5. /\ client'[c] \in ClientRecord /\ client'[c].pc = client[c].pc
        /\ client'[c].event = client[c].event /\ client'[c].hub = client[c].hub
        /\ client'[c].group = client[c].group /\ client'[c].base = client[c].base
        /\ client'[c].shown = client[c].shown /\ client'[c].pending = client[c].pending
    BY <2>1, <2>3 DEF ClientRecord
  <2> QED
    BY <2>2, <2>4, <2>5
<1>6. client' \in [Client -> ClientRecord]
  BY <1>1, <1>5
<1>7. ClientKept /\ HubKept /\ ViewKept
  <2>1. ClientKept
    BY <1>5, <1>6 DEF ClientKept
  <2> QED
    BY <1>1, <2>1, Around
<1>8. TypeOK' /\ CountInv'
  BY <1>1, <1>4, <1>6 DEF IInv, TypeOK, CountInv, GroupKept
<1>9. HubInv' /\ GroupInv' /\ ClientInv' /\ MapInv'
  BY <1>1, <1>4, <1>7, HubsGoOn, GroupsGoOn, ClientsGoOn
<1>10. FrameInv'
  <2>1. \A c \in Client : client'[c].ripe /\ group'[client[c].group].pc = "loaded" => client[c].ripe
    BY <1>4, <1>5 DEF Clients
  <2>2. \A k \in Group : group'[k].pc = "loaded" => group'[k] = group[k]
    BY <1>4
  <2>3. \A c \in Client : Open(c)' /\ client'[c].ripe =>
               LET k == client[c].group
               IN  ~Ended(k)' /\ group'[k].pc = "loaded" => group'[k].frame >= client[c].base
    BY <1>4, <1>7, <2>1, <2>2, LoadedKept
  <2> QED
    BY <1>5, <1>7, <2>3, FramesGoOn
<1>11. LimitInv'
  <2>1. \A h \in Hub : Building(h)' \subseteq Building(h) /\ HubClients(h)' \subseteq HubClients(h)
    BY <1>4, <1>5 DEF Building, HubClients, Open
  <2> QED
    BY <1>4, <2>1, LimitsShrink
<1> QED
  BY <1>8, <1>9, <1>10, <1>11 DEF IInv

\* A worker that gets a slot is one of at most BuildSlots (buildSlots).
LEMMA BuildSlotInv == ASSUME IInv, NEW g \in Group, BuildSlot(g) PROVE IInv'
<1> DEFINE rec == [group[g] EXCEPT !.pc = "load"]
           h == group[g].hub
<1>1. /\ group[g].pc = "sampled" /\ Work(g, rec) /\ Cardinality(Building(h)) < BuildSlots
      /\ UNCHANGED <<view, writers, signal, server, hub, client>>
  BY DEF BuildSlot
<1>2. group[g] \in GroupRecord /\ h \in Hub
  BY <1>1, WorkerEvent DEF IInv, TypeOK
<1>3. rec \in GroupRecord /\ rec.hub = group[g].hub /\ rec.race = group[g].race /\ rec.cancelled = group[g].cancelled /\ rec.pc = "load"
  BY <1>2, PcFields
<1> HIDE DEF rec
<1>4. /\ GroupKept /\ group'[g].pc = "load"
      /\ \A k \in Group \ {g} : group'[k] = group[k]
      /\ \A k \in Hub : Workers(k)' \subseteq Workers(k)
  BY <1>1, <1>3, WorkKept
<1>5. HubKept /\ ViewKept /\ ClientKept
  BY <1>1, Around, ClientSame
<1>6. TypeOK' /\ CountInv'
  BY <1>1, <1>4 DEF IInv, TypeOK, CountInv, GroupKept
<1>7. HubInv' /\ GroupInv' /\ ClientInv' /\ MapInv'
  BY <1>1, <1>4, <1>5, HubsGoOn, GroupsGoOn, ClientsGoOn
<1>8. FrameInv'
  <2>1. \A k \in Group : group'[k].pc = "loaded" => group'[k] = group[k]
    BY <1>4
  <2>2. \A c \in Client : Open(c)' /\ client'[c].ripe =>
               LET k == client[c].group
               IN  ~Ended(k)' /\ group'[k].pc = "loaded" => group'[k].frame >= client[c].base
    BY <1>1, <1>4, <1>5, <2>1, LoadedKept
  <2> QED
    BY <1>1, <1>5, <2>2, FramesGoOn
<1>9. LimitInv'
  <2> SUFFICES ASSUME NEW k \in Hub
               PROVE  /\ Cardinality(HubClients(k)') <= MaxClients /\ IsFiniteSet(HubClients(k)')
                      /\ Cardinality(Workers(k)') <= MaxClients /\ IsFiniteSet(Workers(k)')
                      /\ Cardinality(Building(k)') <= BuildSlots
    BY DEF LimitInv, WithinLimits
  <2>1. /\ Cardinality(HubClients(k)) <= MaxClients /\ IsFiniteSet(HubClients(k))
        /\ Cardinality(Workers(k)) <= MaxClients /\ IsFiniteSet(Workers(k))
        /\ Cardinality(Building(k)) <= BuildSlots /\ MaxClients \in Nat /\ BuildSlots \in Nat
    BY HubAssumption DEF IInv, LimitInv, WithinLimits
  <2>2. HubClients(k)' = HubClients(k)
    BY <1>1 DEF HubClients, Open
  <2>3. IsFiniteSet(Workers(k)') /\ Cardinality(Workers(k)') <= Cardinality(Workers(k))
    BY <1>4, <2>1, FS_Subset
  <2>4. Cardinality(Workers(k)') \in Nat /\ Cardinality(Workers(k)) \in Nat
    BY <2>1, <2>3, FS_CardinalityType
  <2>5. Building(k) \subseteq Workers(k)
    BY DEF Building, Workers
  <2>6. IsFiniteSet(Building(k)) /\ Cardinality(Building(k)) \in Nat
    BY <2>1, <2>5, FS_Subset, FS_CardinalityType
  <2>7. Cardinality(Building(k)') <= BuildSlots
    <3>1. CASE k = h
      <4>1. Building(k)' \subseteq Building(k) \cup {g}
        BY <1>4 DEF Building
      <4>2. IsFiniteSet(Building(k) \cup {g}) /\ Cardinality(Building(k) \cup {g}) <= Cardinality(Building(k)) + 1
        <5>1. /\ IsFiniteSet(Building(k) \cup {g})
              /\ Cardinality(Building(k) \cup {g}) = IF g \in Building(k) THEN Cardinality(Building(k)) ELSE Cardinality(Building(k)) + 1
          BY <2>6, FS_AddElement, Zenon
        <5> QED BY <2>6, <5>1
      <4>3. /\ Cardinality(Building(k)') <= Cardinality(Building(k) \cup {g})
            /\ IsFiniteSet(Building(k)')
        BY <4>1, <4>2, FS_Subset
      <4>4. Cardinality(Building(k)') \in Nat /\ Cardinality(Building(k) \cup {g}) \in Nat
        BY <4>2, <4>3, FS_CardinalityType
      <4> QED
        BY <1>1, <2>1, <2>6, <3>1, <4>2, <4>3, <4>4
    <3>2. CASE k # h
      <4>1. group'[g].hub \in {h, None}
        BY <1>4, NoGroupFields DEF GroupKept
      <4>2. Building(k)' \subseteq Building(k)
        BY <1>4, <3>2, <4>1, HubAssumption DEF Building
      <4>3. Cardinality(Building(k)') <= Cardinality(Building(k)) /\ IsFiniteSet(Building(k)')
        BY <2>6, <4>2, FS_Subset
      <4>4. Cardinality(Building(k)') \in Nat
        BY <4>3, FS_CardinalityType
      <4> QED
        BY <2>1, <2>6, <4>3, <4>4
    <3> QED
      BY <3>1, <3>2
  <2> QED
    BY <2>1, <2>2, <2>3, <2>4, <2>7
<1> QED
  BY <1>6, <1>7, <1>8, <1>9 DEF IInv

\* A snapshot is at least as new as every subscription there is
\* (finishGroup.run).
LEMMA BuildLoadInv == ASSUME IInv, NEW g \in Group, BuildLoad(g) PROVE IInv'
<1> DEFINE f == view[hub[group[g].hub].event]
           rec == Loaded(group[g], f)
<1>1. /\ group[g].pc = "load" /\ Work(g, rec)
      /\ UNCHANGED <<view, writers, signal, server, hub, client>>
  BY DEF BuildLoad, Loaded
<1>2. group[g] \in GroupRecord /\ f \in Frame /\ group[g].hub \in Hub /\ ~hub[group[g].hub].done
  BY <1>1, WorkerEvent DEF IInv, TypeOK
<1>3. /\ rec \in GroupRecord /\ rec.hub = group[g].hub /\ rec.race = group[g].race
      /\ rec.cancelled = group[g].cancelled /\ rec.pc = "loaded" /\ rec.frame = f
  <2> HIDE DEF f
  <2> QED BY <1>2, LoadedFields
<1> HIDE DEF rec, f
<1>4. /\ GroupKept /\ group'[g].pc = "loaded"
      /\ ~group'[g].cancelled => group'[g] = rec
      /\ \A k \in Group \ {g} : group'[k] = group[k]
      /\ \A k \in Hub : Workers(k)' \subseteq Workers(k)
  BY <1>1, <1>3, WorkKept
<1>5. HubKept /\ ViewKept /\ ClientKept
  BY <1>1, Around, ClientSame
<1>6. TypeOK' /\ CountInv'
  BY <1>1, <1>4 DEF IInv, TypeOK, CountInv, GroupKept
<1>7. HubInv' /\ GroupInv' /\ ClientInv' /\ MapInv'
  BY <1>1, <1>4, <1>5, HubsGoOn, GroupsGoOn, ClientsGoOn
<1>8. FrameInv'
  <2>1. ASSUME NEW c \in Client, Open(c), client[c].ripe,
               ~Ended(client[c].group)', group'[client[c].group].pc = "loaded"
        PROVE  group'[client[c].group].frame >= client[c].base
    <3> DEFINE k == client[c].group
    <3>1. /\ k \in Group /\ group[k].hub = client[c].hub /\ client[c].base <= view[client[c].event]
          /\ ~hub[client[c].hub].done => hub[client[c].hub].event = client[c].event
      BY <2>1 DEF IInv, ClientInv
    <3>2. ~group'[k].cancelled /\ ~hub'[group'[k].hub].cancelled
      BY <1>1, <2>1 DEF Ended
    <3>3. CASE k = g
      <4>1. group'[k].frame = f
        BY <1>3, <1>4, <3>2, <3>3
      <4>2. f = view[client[c].event]
        BY <1>2, <3>1, <3>3 DEF f
      <4>3. client[c].base \in Int /\ f \in Int
        BY <1>2, HubAssumption DEF IInv, TypeOK, ClientRecord, Frame, NoFrame
      <4> QED
        BY <3>1, <4>1, <4>2, <4>3
    <3>4. CASE k # g
      <4>1. group'[k] = group[k]
        BY <1>4, <3>1, <3>4
      <4>2. ~Ended(k)
        BY <1>1, <3>2, <4>1 DEF Ended
      <4> QED
        BY <2>1, <4>1, <4>2 DEF IInv, FrameInv
    <3> QED
      BY <3>3, <3>4
  <2>2. \A c \in Client : Open(c)' <=> Open(c)
    BY <1>1 DEF Open
  <2> QED
    BY <1>1, <1>5, <2>1, <2>2, FramesGoOn
<1>9. LimitInv'
  <2>1. \A k \in Hub : Building(k)' \subseteq Building(k) /\ HubClients(k)' \subseteq HubClients(k)
    BY <1>1, <1>4 DEF Building, HubClients, Open
  <2> QED
    BY <1>4, <2>1, LimitsShrink
<1> QED
  BY <1>6, <1>7, <1>8, <1>9 DEF IInv

\* A build fails, or a worker exits: its group has ended (finishGroup.run).
LEMMA WorkerGoneInv == ASSUME IInv, NEW g \in Group, BuildFails(g) \/ WorkerExit(g) PROVE IInv'
<1>1. /\ group[g].pc # "exited" /\ Work(g, Gone(group[g]))
      /\ UNCHANGED <<view, writers, signal, server, hub, client>>
  BY DEF BuildFails, WorkerExit, Gone
<1>2. group[g] \in GroupRecord
  BY DEF IInv, TypeOK
<1>3. /\ GroupKept /\ group'[g].pc = "exited"
      /\ \A k \in Group \ {g} : group'[k] = group[k]
      /\ \A k \in Hub : Workers(k)' \subseteq Workers(k)
  BY <1>1, <1>2, GoneFields, WorkKept
<1> QED
  BY <1>1, <1>3, Around, WorkInv

\* The worker compares the generation and waits again (finishGroup.run).
LEMMA BuildCheckInv == ASSUME IInv, NEW g \in Group, BuildCheck(g) PROVE IInv'
<1>1. PICK b \in BOOLEAN : b = (group[g].wake \/ group[g].generation # signal[hub[group[g].hub].event].generation)
  BY Zenon
<1>2. PICK n \in 0 .. MaxCommit, f \in Frame : n = 0 /\ f = NoFrame
  BY HubAssumption DEF Frame, NoFrame
<1> DEFINE rec == Checked(group[g], n, f, b)
<1>3. /\ group[g].pc = "check"
      /\ UNCHANGED <<view, writers, signal, server, hub, client>>
  BY DEF BuildCheck
<1>4. Work(g, rec)
  BY <1>1, <1>2, Zenon DEF BuildCheck, Checked
<1>5. group[g] \in GroupRecord
  BY DEF IInv, TypeOK
<1>6. rec \in GroupRecord /\ rec.hub = group[g].hub /\ rec.race = group[g].race /\ rec.cancelled = group[g].cancelled /\ rec.pc = "wait"
  BY <1>5, CheckedFields
<1> HIDE DEF rec
<1>7. /\ GroupKept /\ group'[g].pc = "wait"
      /\ \A k \in Group \ {g} : group'[k] = group[k]
      /\ \A k \in Hub : Workers(k)' \subseteq Workers(k)
  BY <1>3, <1>4, <1>6, WorkKept
<1> QED
  BY <1>3, <1>7, Around, WorkInv

\* A frame is offered (offer).
WithFrame(s, f, b) == [s EXCEPT !.pending = f, !.last = f, !.wake = b]

\* Nothing else of the subscription changes (offer).
LEMMA OfferedFields ==
    ASSUME NEW s \in ClientRecord, NEW f \in Frame, NEW b \in BOOLEAN
    PROVE  /\ WithFrame(s, f, b) \in ClientRecord /\ WithFrame(s, f, b).pc = s.pc
           /\ WithFrame(s, f, b).event = s.event /\ WithFrame(s, f, b).hub = s.hub
           /\ WithFrame(s, f, b).group = s.group /\ WithFrame(s, f, b).base = s.base
           /\ WithFrame(s, f, b).shown = s.shown /\ WithFrame(s, f, b).ripe = s.ripe
           /\ WithFrame(s, f, b).pending = f
BY DEF ClientRecord, WithFrame

\* A frame that is offered is at least as new as the subscription (offer).
LEMMA BuildPublishInv == ASSUME IInv, NEW g \in Group, BuildPublish(g) PROVE IInv'
<1> DEFINE rec == [group[g] EXCEPT !.pc = "check"]
           f == group[g].frame
<1>1. /\ group[g].pc = "loaded" /\ Work(g, rec)
      /\ client' = [c \in Client |-> IF c \in Clients(g) /\ ~Ended(g) THEN Offered(client[c], f) ELSE client[c]]
      /\ UNCHANGED <<view, writers, signal, server, hub>>
  BY DEF BuildPublish
<1>2. group[g] \in GroupRecord /\ f \in Frame
  BY DEF IInv, TypeOK, GroupRecord
<1>3. rec \in GroupRecord /\ rec.hub = group[g].hub /\ rec.race = group[g].race /\ rec.cancelled = group[g].cancelled /\ rec.pc = "check"
  BY <1>2, PcFields
<1> HIDE DEF rec, f
<1>4. /\ GroupKept /\ group'[g].pc = "check"
      /\ \A k \in Group \ {g} : group'[k] = group[k]
      /\ \A h \in Hub : Workers(h)' \subseteq Workers(h)
  BY <1>1, <1>3, WorkKept
<1>5. ASSUME NEW c \in Client
      PROVE  /\ client'[c] \in ClientRecord /\ client'[c].pc = client[c].pc
             /\ client'[c].event = client[c].event /\ client'[c].hub = client[c].hub
             /\ client'[c].group = client[c].group /\ client'[c].base = client[c].base
             /\ client'[c].shown = client[c].shown /\ client'[c].ripe = client[c].ripe
             /\ \/ client'[c].pending = client[c].pending
                \/ client'[c].pending = f /\ c \in Clients(g) /\ ~Ended(g) /\ client[c].ripe
  <2>1. client[c] \in ClientRecord
    BY DEF IInv, TypeOK
  <2>2. client'[c] = client[c] \/
            /\ client'[c] = [client[c] EXCEPT !.pending = f, !.last = f, !.wake = TRUE]
            /\ c \in Clients(g) /\ ~Ended(g) /\ client[c].ripe
    BY <1>1 DEF Offered
  <2>3. CASE client'[c] = client[c]
    BY <2>1, <2>3
  <2>4. CASE /\ client'[c] = [client[c] EXCEPT !.pending = f, !.last = f, !.wake = TRUE]
             /\ c \in Clients(g) /\ ~Ended(g) /\ client[c].ripe
    <3>1. /\ client'[c] \in ClientRecord /\ client'[c].pc = client[c].pc
          /\ client'[c].event = client[c].event /\ client'[c].hub = client[c].hub
          /\ client'[c].group = client[c].group /\ client'[c].base = client[c].base
          /\ client'[c].shown = client[c].shown /\ client'[c].ripe = client[c].ripe
          /\ client'[c].pending = f
      <4>1. PICK b \in BOOLEAN : b = TRUE
        BY Zenon
      <4>2. client'[c] = WithFrame(client[c], f, b)
        BY <2>4, <4>1, Zenon DEF WithFrame
      <4>3. /\ WithFrame(client[c], f, b) \in ClientRecord /\ WithFrame(client[c], f, b).pc = client[c].pc
            /\ WithFrame(client[c], f, b).event = client[c].event /\ WithFrame(client[c], f, b).hub = client[c].hub
            /\ WithFrame(client[c], f, b).group = client[c].group /\ WithFrame(client[c], f, b).base = client[c].base
            /\ WithFrame(client[c], f, b).shown = client[c].shown /\ WithFrame(client[c], f, b).ripe = client[c].ripe
            /\ WithFrame(client[c], f, b).pending = f
        BY <1>2, <2>1, OfferedFields
      <4> QED BY <4>2, <4>3
    <3> QED BY <2>4, <3>1
  <2> QED
    BY <2>2, <2>3, <2>4
<1>6. client' \in [Client -> ClientRecord]
  BY <1>1, <1>5
<1>7. ClientKept /\ HubKept /\ ViewKept
  <2>1. ClientKept
    BY <1>5, <1>6 DEF ClientKept
  <2> QED
    BY <1>1, <2>1, Around
<1>8. TypeOK' /\ CountInv'
  BY <1>1, <1>4, <1>6 DEF IInv, TypeOK, CountInv, GroupKept
<1>9. HubInv' /\ GroupInv' /\ ClientInv' /\ MapInv' /\ \A c \in Client : Open(c)' <=> Open(c)
  BY <1>1, <1>4, <1>7, HubsGoOn, GroupsGoOn, ClientsGoOn
<1>10. FrameInv'
  <2>1. \A c \in Client : ~Open(c)' => client'[c].pending = NoFrame /\ client'[c].shown = NoFrame
    BY <1>5, <1>9 DEF IInv, FrameInv, Clients
  <2>2. FreshFrames'
    <3> SUFFICES ASSUME NEW c \in Client, Open(c)
                 PROVE  \A x \in {client'[c].shown, client'[c].pending} : x # NoFrame => x >= client[c].base
      BY <1>5, <1>9 DEF FreshFrames
    <3>1. \A x \in {client[c].shown, client[c].pending} : x # NoFrame => x >= client[c].base
      BY DEF IInv, FrameInv, FreshFrames
    <3>2. c \in Clients(g) /\ ~Ended(g) /\ client[c].ripe => f >= client[c].base
      BY <1>1 DEF IInv, FrameInv, Clients, f
    <3> QED
      BY <1>5, <3>1, <3>2
  <2>3. \A k \in Group : group'[k].pc = "loaded" => group'[k] = group[k]
    BY <1>4
  <2>4. \A c \in Client : Open(c)' /\ client'[c].ripe =>
               LET k == client[c].group
               IN  ~Ended(k)' /\ group'[k].pc = "loaded" => group'[k].frame >= client[c].base
    BY <1>4, <1>5, <1>7, <2>3, LoadedKept
  <2> QED
    BY <1>5, <2>1, <2>2, <2>4 DEF FrameInv
<1>11. LimitInv'
  <2>1. \A h \in Hub : Building(h)' \subseteq Building(h) /\ HubClients(h)' \subseteq HubClients(h)
    BY <1>4, <1>5 DEF Building, HubClients, Open
  <2> QED
    BY <1>4, <2>1, LimitsShrink
<1> QED
  BY <1>8, <1>9, <1>10, <1>11 DEF IInv

-----------------------------------------------------------------------------
(* The handlers.                                                           *)

\* A handler takes and writes what it was offered (take, handleFinishStream).
LEMMA StreamInv == ASSUME IInv, NEW c \in Client, Receive(c) \/ Write(c) PROVE IInv'
<1>1. UNCHANGED <<view, writers, signal, server, hub, group>>
  BY DEF Receive, Write
<1>2. client \in [Client -> ClientRecord] /\ client[c] \in ClientRecord
  BY DEF IInv, TypeOK
<1>3. PICK new \in ClientRecord :
          /\ client' = [client EXCEPT ![c] = new]
          /\ client[c].pc \in {"stream", "take"} /\ new.pc \in {"stream", "take"}
          /\ new.event = client[c].event /\ new.hub = client[c].hub
          /\ new.group = client[c].group /\ new.base = client[c].base /\ new.ripe = client[c].ripe
          /\ new.shown \in {client[c].shown, client[c].pending}
          /\ new.pending \in {client[c].pending, NoFrame}
  <2>1. CASE Receive(c)
    <3> DEFINE new == [client[c] EXCEPT !.pc = "take", !.wake = FALSE]
    <3>1. client[c].pc = "stream" /\ client' = [client EXCEPT ![c] = new]
      BY <2>1 DEF Receive, Go
    <3>2. /\ new \in ClientRecord /\ new.pc = "take"
          /\ new.event = client[c].event /\ new.hub = client[c].hub
          /\ new.group = client[c].group /\ new.base = client[c].base /\ new.ripe = client[c].ripe
          /\ new.shown = client[c].shown /\ new.pending = client[c].pending
      BY <1>2 DEF ClientRecord
    <3> HIDE DEF new
    <3> QED BY <3>1, <3>2
  <2>2. CASE Write(c)
    <3>1. PICK s \in {client[c].shown, client[c].pending} :
              s = IF client[c].pending = NoFrame THEN client[c].shown ELSE client[c].pending
      OBVIOUS
    <3>2. PICK f \in Frame : f = NoFrame
      BY HubAssumption DEF Frame, NoFrame
    <3> DEFINE new == [client[c] EXCEPT !.pc = "stream", !.pending = f, !.shown = s]
    <3>3. client[c].pc = "take" /\ client' = [client EXCEPT ![c] = new]
      BY <2>2, <3>1, <3>2, Zenon DEF Write, Go
    <3>4. s \in Frame
      BY <1>2 DEF ClientRecord
    <3>5. /\ new \in ClientRecord /\ new.pc = "stream"
          /\ new.event = client[c].event /\ new.hub = client[c].hub
          /\ new.group = client[c].group /\ new.base = client[c].base /\ new.ripe = client[c].ripe
          /\ new.shown = s /\ new.pending = f
      BY <1>2, <3>4 DEF ClientRecord
    <3> HIDE DEF new
    <3> QED BY <3>1, <3>2, <3>3, <3>5
  <2> QED
    BY <2>1, <2>2
<1>4. /\ client' \in [Client -> ClientRecord] /\ client'[c] = new
      /\ \A d \in Client \ {c} : client'[d] = client[d]
  BY <1>2, <1>3
<1>5. ClientKept
  BY <1>3, <1>4 DEF ClientKept, Open
<1>6. HubKept /\ ViewKept /\ GroupKept
  BY <1>1, Around, GroupSame
<1>7. TypeOK' /\ CountInv'
  BY <1>1, <1>4 DEF IInv, TypeOK, CountInv
<1>8. HubInv' /\ GroupInv' /\ ClientInv' /\ MapInv' /\ \A d \in Client : Open(d)' <=> Open(d)
  BY <1>1, <1>5, <1>6, HubsGoOn, GroupsGoOn, ClientsGoOn
<1>9. \A d \in Client : /\ client'[d].shown \in {client[d].shown, client[d].pending}
                        /\ client'[d].pending \in {client[d].pending, NoFrame}
                        /\ client'[d].ripe = client[d].ripe
  BY <1>3, <1>4
<1>10. FrameInv'
  <2>1. \A d \in Client : Open(d)' /\ client'[d].ripe =>
               LET k == client[d].group
               IN  ~Ended(k)' /\ group'[k].pc = "loaded" => group'[k].frame >= client[d].base
    BY <1>1, <1>5, <1>6, <1>9, LoadedKept
  <2> QED
    BY <1>5, <1>9, <2>1, FramesGoOn
<1>11. LimitInv'
  <2>1. \A h \in Hub : HubClients(h)' \subseteq HubClients(h)
    BY <1>5, <1>8 DEF HubClients, ClientKept
  <2> QED
    BY <1>1, <2>1, LimitsShrink DEF Workers, Building
<1> QED
  BY <1>7, <1>8, <1>10, <1>11 DEF IInv

\* A handler that has no subscription moves on, or gives up: what concerns groups
\* and handlers.
LEMMA MoveParts ==
    ASSUME IInv, NEW c \in Client, NEW new \in ClientRecord, ~Open(c),
           client' = [client EXCEPT ![c] = new],
           HubKept, UNCHANGED <<view, group>>,
           new.pc \notin {"stream", "take"},
           new.pending = NoFrame, new.shown = NoFrame,
           new.pc = "create" => new.event \in Event,
           new.pc = "await" => new.hub \in Hub,
           new.pc = "subscribe" => /\ new.hub \in Hub /\ new.event \in Event
                                   /\ ~hub'[new.hub].done => hub'[new.hub].event = new.event
    PROVE  /\ client' \in [Client -> ClientRecord]
           /\ GroupInv' /\ MapInv' /\ ClientInv' /\ FrameInv' /\ LimitInv'
<1>1. client \in [Client -> ClientRecord]
  BY DEF IInv, TypeOK
<1>2. /\ client' \in [Client -> ClientRecord] /\ client'[c] = new
      /\ \A d \in Client \ {c} : client'[d] = client[d]
  BY <1>1
<1>3. \A d \in Client : Open(d)' <=> Open(d)
  BY <1>2 DEF Open
<1>4. GroupKept /\ ViewKept
  BY GroupSame, ViewSame
<1>5. GroupInv'
  BY <1>4, GroupsGoOn
<1>6. MapInv'
  <2>1. \A g \in Group : Clients(g)' = Clients(g)
    BY <1>2, <1>3 DEF Clients
  <2>2. \A h \in Hub : hub'[h].groups = hub[h].groups
    BY DEF HubKept
  <2> QED
    BY <2>1, <2>2 DEF IInv, MapInv
<1>7. ClientInv'
  <2> SUFFICES ASSUME NEW d \in Client
               PROVE  ClientInv!(d)'
    BY DEF ClientInv
  <2>1. CASE d = c
    BY <1>2, <1>3, <2>1
  <2>2. CASE d # c
    <3>1. client'[d] = client[d] /\ (Open(d)' <=> Open(d)) /\ ClientInv!(d)
      BY <1>2, <1>3, <2>2 DEF IInv, ClientInv
    <3> QED
      BY <3>1 DEF HubKept
  <2> QED
    BY <2>1, <2>2
<1>8. FrameInv'
  <2>1. \A d \in Client : Open(d) => client'[d] = client[d] /\ client[d].group \in Group
    BY <1>2 DEF IInv, ClientInv
  <2>2. \A d \in Client : ~Open(d)' => client'[d].pending = NoFrame /\ client'[d].shown = NoFrame
    BY <1>2, <1>3 DEF IInv, FrameInv
  <2>3. FreshFrames'
    BY <1>3, <2>1 DEF IInv, FrameInv, FreshFrames
  <2>4. \A k \in Group : group[k].pc = "loaded" /\ Ended(k) => group[k].cancelled \/ hub'[group[k].hub].cancelled
    BY DEF IInv, GroupInv, Ended, HubKept
  <2>5. \A d \in Client : Open(d) /\ group[client[d].group].pc = "loaded" /\ ~Ended(client[d].group)' => ~Ended(client[d].group)
    BY <2>1, <2>4 DEF Ended
  <2> QED
    BY <1>3, <2>1, <2>2, <2>3, <2>5 DEF IInv, FrameInv
<1>9. LimitInv'
  <2>1. \A h \in Hub : HubClients(h)' \subseteq HubClients(h)
    BY <1>2, <1>3 DEF HubClients
  <2> QED
    BY <2>1, LimitsShrink DEF Workers, Building
<1> QED
  BY <1>2, <1>5, <1>6, <1>7, <1>8, <1>9

\* The whole invariant, where the server does not change.
LEMMA MoveInv ==
    ASSUME IInv, NEW c \in Client, NEW new \in ClientRecord, ~Open(c),
           client' = [client EXCEPT ![c] = new],
           HubKept, UNCHANGED <<view, writers, signal, server, group>>,
           new.pc \notin {"stream", "take"},
           new.pending = NoFrame, new.shown = NoFrame,
           new.pc = "create" => new.event \in Event,
           new.pc = "await" => new.hub \in Hub,
           new.pc = "subscribe" => /\ new.hub \in Hub /\ new.event \in Event
                                   /\ ~hub'[new.hub].done => hub'[new.hub].event = new.event
    PROVE  IInv'
<1>1. /\ client' \in [Client -> ClientRecord]
      /\ GroupInv' /\ MapInv' /\ ClientInv' /\ FrameInv' /\ LimitInv'
  BY MoveParts
<1>2. TypeOK' /\ CountInv'
  BY <1>1 DEF IInv, TypeOK, CountInv, HubKept
<1>3. HubInv'
  BY HubsGoOn
<1> QED
  BY <1>1, <1>2, <1>3 DEF IInv

\* A request arrives, or ends before it has a subscription (handleFinishStream).
LEMMA RequestInv == ASSUME IInv, NEW c \in Client, Request(c) \/ GiveUp(c) PROVE IInv'
<1>1. /\ UNCHANGED <<view, writers, signal, server, hub, group>>
      /\ client[c].pc \in {"idle", "lookup", "await", "create", "subscribe"}
  BY DEF Request, GiveUp
<1>2. ~Open(c) /\ HubKept
  BY <1>1, Around DEF Open
<1>3. CASE GiveUp(c)
  <2>1. client' = [client EXCEPT ![c] = NoClient]
    BY <1>3 DEF GiveUp, Go
  <2> QED
    BY <1>1, <1>2, <2>1, NoClientFields, MoveInv
<1>4. CASE Request(c)
  <2> DEFINE new == [NoClient EXCEPT !.pc = "lookup", !.event = server.published]
  <2>1. client' = [client EXCEPT ![c] = new]
    BY <1>4 DEF Request, Go
  <2>2. ASSUME NEW o \in ClientRecord, NEW e \in Event \cup {None}
        PROVE  LET rec == [o EXCEPT !.pc = "lookup", !.event = e]
               IN  /\ rec \in ClientRecord /\ rec.pc = "lookup"
                   /\ rec.pending = o.pending /\ rec.shown = o.shown
    BY DEF ClientRecord
  <2>3. server.published \in Event \cup {None}
    BY DEF IInv, TypeOK
  <2>4. new \in ClientRecord /\ new.pc = "lookup" /\ new.pending = NoFrame /\ new.shown = NoFrame
    BY <2>2, <2>3, NoClientFields
  <2> HIDE DEF new
  <2> QED
    BY <1>1, <1>2, <2>1, <2>4, MoveInv
<1> QED
  BY <1>3, <1>4

\* A handler looks for the hub of the publication (finishHubFor).
LEMMA LookupInv == ASSUME IInv, NEW c \in Client, Lookup(c) PROVE IInv'
<1> DEFINE e == client[c].event
           h == server.hub
<1>1. /\ client[c].pc = "lookup" /\ UNCHANGED <<view, writers, signal, server, group>>
      /\ hub' \in {hub, Cancelled(h)}
  BY DEF Lookup
<1>2. /\ ~Open(c) /\ client[c] \in ClientRecord /\ h \in Hub \cup {None} /\ e \in Event \cup {None}
      /\ client[c].pending = NoFrame /\ client[c].shown = NoFrame
  BY <1>1 DEF Open, IInv, TypeOK, FrameInv, ClientRecord
<1>3. HubKept
  BY <1>1, <1>2, CancelledKept
<1>4. ASSUME NEW p \in {"subscribe", "await", "create"}, NEW k \in Hub \cup {None}
      PROVE  /\ LET new == [client[c] EXCEPT !.pc = p, !.hub = k]
                IN  /\ new \in ClientRecord /\ new.pc = p /\ new.hub = k /\ new.event = e
                    /\ new.pending = client[c].pending /\ new.shown = client[c].shown
             /\ LET new == [client[c] EXCEPT !.pc = p]
                IN  /\ new \in ClientRecord /\ new.pc = p /\ new.event = e
                    /\ new.pending = client[c].pending /\ new.shown = client[c].shown
  BY <1>2 DEF ClientRecord
<1>5. CASE client' = [client EXCEPT ![c] = NoClient]
  BY <1>1, <1>2, <1>3, <1>5, NoClientFields, MoveInv
<1>6. CASE e # None /\ Matches(h, e) /\ client' = [client EXCEPT ![c] = [client[c] EXCEPT !.pc = "subscribe", !.hub = h]]
  <2> DEFINE new == [client[c] EXCEPT !.pc = "subscribe", !.hub = h]
  <2>1. /\ new \in ClientRecord /\ new.pc = "subscribe" /\ new.hub = h /\ new.event = e
        /\ new.pending = NoFrame /\ new.shown = NoFrame
    BY <1>2, <1>4
  <2>2. h \in Hub /\ e \in Event /\ hub'[h].event = e
    BY <1>2, <1>3, <1>6 DEF Matches, HubKept
  <2>3. client' = [client EXCEPT ![c] = new]
    BY <1>6
  <2> HIDE DEF new
  <2> QED
    BY <1>1, <1>2, <1>3, <2>1, <2>2, <2>3, MoveInv
<1>7. CASE h # None /\ client' = [client EXCEPT ![c] = [client[c] EXCEPT !.pc = "await", !.hub = h]]
  <2> DEFINE new == [client[c] EXCEPT !.pc = "await", !.hub = h]
  <2>1. /\ new \in ClientRecord /\ new.pc = "await" /\ new.hub = h /\ h \in Hub
        /\ new.pending = NoFrame /\ new.shown = NoFrame
    BY <1>2, <1>4, <1>7
  <2>2. client' = [client EXCEPT ![c] = new]
    BY <1>7
  <2> HIDE DEF new
  <2> QED
    BY <1>1, <1>2, <1>3, <2>1, <2>2, MoveInv
<1>8. CASE e # None /\ client' = [client EXCEPT ![c] = [client[c] EXCEPT !.pc = "create"]]
  <2> DEFINE new == [client[c] EXCEPT !.pc = "create"]
  <2>1. /\ new \in ClientRecord /\ new.pc = "create" /\ new.event = e /\ e \in Event
        /\ new.pending = NoFrame /\ new.shown = NoFrame
    BY <1>2, <1>4, <1>8
  <2>2. client' = [client EXCEPT ![c] = new]
    BY <1>8
  <2> HIDE DEF new
  <2> QED
    BY <1>1, <1>2, <1>3, <2>1, <2>2, MoveInv
<1> QED
  BY <1>5, <1>6, <1>7, <1>8 DEF Lookup, Go

\* A handler has seen an outdated hub end: the server's hub is forgotten only if
\* it is that one (finishHubFor).
LEMMA AwaitedInv == ASSUME IInv, NEW c \in Client, Awaited(c) PROVE IInv'
<1> DEFINE k == client[c].hub
           new == [client[c] EXCEPT !.pc = "lookup", !.hub = None]
<1>1. /\ client[c].pc = "await" /\ hub[k].done
      /\ server' = [server EXCEPT !.hub = HubAfter(k)]
      /\ client' = [client EXCEPT ![c] = new]
      /\ UNCHANGED <<view, writers, signal, hub, group>>
  BY DEF Awaited, Go
<1>2. /\ ~Open(c) /\ client[c] \in ClientRecord
      /\ client[c].pending = NoFrame /\ client[c].shown = NoFrame
  BY <1>1 DEF Open, IInv, TypeOK, FrameInv
<1>3. new \in ClientRecord /\ new.pc = "lookup" /\ new.pending = NoFrame /\ new.shown = NoFrame
  BY <1>2 DEF ClientRecord
<1> HIDE DEF new
<1>4. /\ client' \in [Client -> ClientRecord]
      /\ GroupInv' /\ MapInv' /\ ClientInv' /\ FrameInv' /\ LimitInv'
  BY <1>1, <1>2, <1>3, Around, MoveParts
<1>5. HubAfter(k) \in Hub \cup {None} /\ (server.hub # k => HubAfter(k) = server.hub)
  BY DEF HubAfter, IInv, TypeOK
<1>6. /\ server' \in [published : Event \cup {None}, epoch : 0 .. MaxEpoch, hub : Hub \cup {None}, stopping : BOOLEAN]
      /\ server'.hub = HubAfter(k)
  <2> HIDE DEF k
  <2> QED BY <1>1, <1>5 DEF IInv, TypeOK
<1>7. TypeOK' /\ CountInv'
  BY <1>1, <1>4, <1>6 DEF IInv, TypeOK, CountInv
<1>8. HubInv'
  BY <1>1, <1>5, <1>6 DEF IInv, HubInv
<1> QED
  BY <1>4, <1>7, <1>8 DEF IInv

\* A hub is created only where there is none: every other has ended, and so has
\* every worker (finishHubFor, newFinishHub).
LEMMA CreateInv == ASSUME IInv, NEW c \in Client, Create(c) PROVE IInv'
<1> DEFINE e == client[c].event
<1>1. client[c].pc = "create" /\ UNCHANGED <<view, writers, group>>
  BY DEF Create
<1>2. /\ ~Open(c) /\ client[c] \in ClientRecord /\ e \in Event
      /\ client[c].pending = NoFrame /\ client[c].shown = NoFrame
  BY <1>1 DEF Open, IInv, TypeOK, FrameInv, ClientInv
<1>3. ASSUME client' = [client EXCEPT ![c] = [client[c] EXCEPT !.pc = "lookup"]],
             UNCHANGED <<signal, server, hub>>
      PROVE  IInv'
  <2> DEFINE new == [client[c] EXCEPT !.pc = "lookup"]
  <2>1. new \in ClientRecord /\ new.pc = "lookup" /\ new.pending = NoFrame /\ new.shown = NoFrame
    BY <1>2 DEF ClientRecord
  <2>2. client' = [client EXCEPT ![c] = new]
    BY <1>3
  <2> HIDE DEF new
  <2> QED
    BY <1>1, <1>2, <1>3, <2>1, <2>2, Around, MoveInv
<1>4. ASSUME server.hub = None, server.published = e, NEW h \in Hub, FreeHub(h),
             hub' = [hub EXCEPT ![h] = [event |-> e, epoch |-> server.epoch, cancelled |-> FALSE,
                                        stopped |-> FALSE, done |-> FALSE, groups |-> [r \in Race |-> None]]],
             server' = [server EXCEPT !.hub = h],
             client' = [client EXCEPT ![c] = [client[c] EXCEPT !.pc = "subscribe", !.hub = h]],
             signal' = [signal EXCEPT ![e].wake = FALSE]
      PROVE  IInv'
  <2> DEFINE rec == [event |-> e, epoch |-> server.epoch, cancelled |-> FALSE,
                     stopped |-> FALSE, done |-> FALSE, groups |-> [r \in Race |-> None]]
             new == [client[c] EXCEPT !.pc = "subscribe", !.hub = h]
  <2>1. hub' = [hub EXCEPT ![h] = rec] /\ client' = [client EXCEPT ![c] = new]
    BY <1>4
  <2>2. /\ rec \in HubRecord /\ rec.event = e /\ ~rec.cancelled /\ ~rec.stopped /\ ~rec.done
        /\ rec.groups = [r \in Race |-> None]
    <3>1. server.epoch \in 0 .. MaxEpoch
      BY DEF IInv, TypeOK
    <3> HIDE DEF e
    <3> QED BY <1>2, <3>1 DEF HubRecord
  <2>3. /\ new \in ClientRecord /\ new.pc = "subscribe" /\ new.hub = h /\ new.event = e
        /\ new.pending = NoFrame /\ new.shown = NoFrame
    BY <1>2 DEF ClientRecord
  <2> HIDE DEF rec, new
  <2>4. hub' \in [Hub -> HubRecord] /\ hub'[h] = rec /\ \A k \in Hub \ {h} : hub'[k] = hub[k]
    BY <2>1, <2>2 DEF IInv, TypeOK
  <2>5. /\ client' \in [Client -> ClientRecord] /\ client'[c] = new
        /\ \A d \in Client \ {c} : client'[d] = client[d]
    BY <2>1, <2>3 DEF IInv, TypeOK
  <2>6. \A d \in Client : Open(d)' <=> Open(d)
    BY <1>2, <2>3, <2>5 DEF Open
  <2>7. \A k \in Hub : hub[k].done /\ hub[k].stopped /\ hub[k].cancelled
    BY <1>4, HubAssumption DEF IInv, HubInv
  <2>8. \A g \in Group : group[g].pc = "exited" /\ group[g].cancelled
    BY <2>7 DEF IInv, GroupInv
  <2>9. /\ server' \in [published : Event \cup {None}, epoch : 0 .. MaxEpoch, hub : Hub \cup {None}, stopping : BOOLEAN]
        /\ server'.hub = h
    BY <1>4 DEF IInv, TypeOK
  <2>10. /\ signal' \in [Event -> [generation : 0 .. MaxCommit, wake : BOOLEAN]]
         /\ \A a \in Event : signal'[a].generation = signal[a].generation
    <3> DEFINE sig == [signal[e] EXCEPT !.wake = FALSE]
    <3>1. sig \in [generation : 0 .. MaxCommit, wake : BOOLEAN] /\ sig.generation = signal[e].generation
      BY <1>2 DEF IInv, TypeOK
    <3>2. signal' = [signal EXCEPT ![e] = sig]
      BY <1>4
    <3> HIDE DEF sig, e
    <3> QED BY <1>2, <3>1, <3>2 DEF IInv, TypeOK
  <2>11. TypeOK' /\ CountInv'
    BY <1>1, <2>4, <2>5, <2>9, <2>10 DEF IInv, TypeOK, CountInv
  <2>12. HubInv'
    BY <1>2, <2>2, <2>4, <2>7, <2>9 DEF HubInv
  <2>13. GroupInv'
    BY <1>1, <2>8 DEF GroupInv, Ended
  <2>14. MapInv'
    <3>1. \A g \in Group : Clients(g)' = Clients(g)
      BY <2>5, <2>6, <1>2 DEF Clients
    <3>2. \A r \in Race : hub'[h].groups[r] \notin Group
      BY <2>2, <2>4, HubAssumption
    <3> QED
      BY <1>1, <2>4, <3>1, <3>2 DEF IInv, MapInv
  <2>15. ClientInv'
    <3> SUFFICES ASSUME NEW d \in Client
                 PROVE  ClientInv!(d)'
      BY DEF ClientInv
    <3>1. CASE d = c
      BY <1>2, <2>2, <2>3, <2>4, <2>5, <2>6, <3>1
    <3>2. CASE d # c
      <4>1. client'[d] = client[d] /\ (Open(d)' <=> Open(d)) /\ ClientInv!(d)
        BY <2>5, <2>6, <3>2 DEF IInv, ClientInv
      <4>2. client[d].hub # h
        BY <1>4 DEF FreeHub
      <4> QED
        BY <1>1, <2>4, <4>1, <4>2
    <3> QED
      BY <3>1, <3>2
  <2>16. FrameInv'
    <3>1. \A d \in Client : Open(d) => client'[d] = client[d] /\ client[d].group \in Group
      BY <1>2, <2>5 DEF IInv, ClientInv
    <3>2. \A d \in Client : ~Open(d)' => client'[d].pending = NoFrame /\ client'[d].shown = NoFrame
      BY <2>3, <2>5, <2>6 DEF IInv, FrameInv
    <3>3. FreshFrames'
      BY <2>6, <3>1 DEF IInv, FrameInv, FreshFrames
    <3>4. \A d \in Client : Open(d) => group'[client'[d].group].pc # "loaded"
      BY <1>1, <2>8, <3>1
    <3> QED
      BY <2>6, <3>2, <3>3, <3>4 DEF FrameInv
  <2>17. LimitInv'
    <3>1. \A k \in Hub : HubClients(k)' \subseteq HubClients(k)
      BY <1>2, <2>5, <2>6 DEF HubClients
    <3> QED
      BY <1>1, <3>1, LimitsShrink DEF Workers, Building
  <2> QED
    BY <2>11, <2>12, <2>13, <2>14, <2>15, <2>16, <2>17 DEF IInv
<1> QED
  BY <1>3, <1>4 DEF Create, Go

-----------------------------------------------------------------------------
(* subscribe and close.                                                    *)

\* The records of a subscription and of the map of a hub.
Entering(s, g, b, v) == [s EXCEPT !.pc = "stream", !.group = g, !.ripe = b, !.base = v]
Listed(o, r, g) == [o EXCEPT !.groups = [@ EXCEPT ![r] = g]]

\* A handler that subscribes keeps its hub and its event (finishHub.subscribe).
LEMMA EnteringFields ==
    ASSUME NEW s \in ClientRecord, NEW g \in Group, NEW b \in BOOLEAN, NEW v \in Frame
    PROVE  LET new == Entering(s, g, b, v)
           IN  /\ new \in ClientRecord /\ new.pc = "stream" /\ new.event = s.event /\ new.hub = s.hub
               /\ new.group = g /\ new.ripe = b /\ new.base = v
               /\ new.pending = s.pending /\ new.shown = s.shown
BY DEF ClientRecord, Entering

\* One entry of the map changes (finishHub.groups).
LEMMA ListedFields ==
    ASSUME NEW o \in HubRecord, NEW r \in Race, NEW g \in Group \cup {None}
    PROVE  LET new == Listed(o, r, g)
           IN  /\ new \in HubRecord /\ new.event = o.event /\ new.epoch = o.epoch
               /\ new.cancelled = o.cancelled /\ new.stopped = o.stopped /\ new.done = o.done
               /\ new.groups[r] = g
               /\ \A q \in Race \ {r} : new.groups[q] = o.groups[q]
BY DEF HubRecord, Listed

\* A handler gets its subscription: what concerns handlers (finishHub.subscribe).
LEMMA Entered ==
    ASSUME IInv, NEW c \in Client, NEW g \in Group, NEW new \in ClientRecord,
           client[c].pc = "subscribe", client' = [client EXCEPT ![c] = new],
           new.pc = "stream", new.event = client[c].event, new.hub = client[c].hub, new.group = g,
           ~new.ripe, new.base = view[client[c].event],
           new.pending = client[c].pending, new.shown = client[c].shown,
           view' = view, group'[g].hub = client[c].hub,
           \A k \in Group \ {g} : group'[k] = group[k],
           \A k \in Hub : hub'[k].event = hub[k].event /\ hub'[k].done = hub[k].done
                          /\ hub'[k].cancelled = hub[k].cancelled,
           group[g].hub \in {client[c].hub, None},
           group'[g].pc = "loaded" =>
              group[g].pc = "loaded" /\ group'[g].frame = group[g].frame /\ group'[g].cancelled = group[g].cancelled,
           Cardinality(HubClients(client[c].hub)) < MaxClients
    PROVE  /\ client' \in [Client -> ClientRecord]
           /\ ClientInv' /\ FrameInv'
           /\ \A k \in Group : Clients(k) \subseteq Clients(k)'
           /\ c \in Clients(g)'
           /\ \A k \in Hub : Cardinality(HubClients(k)') <= MaxClients /\ IsFiniteSet(HubClients(k)')
<1> DEFINE h == client[c].hub
           e == client[c].event
<1>1. client \in [Client -> ClientRecord] /\ view \in [Event -> 1 .. MaxCommit + 1]
  BY DEF IInv, TypeOK
<1>2. /\ client' \in [Client -> ClientRecord] /\ client'[c] = new
      /\ \A d \in Client \ {c} : client'[d] = client[d]
  BY <1>1
<1>3. /\ h \in Hub /\ e \in Event /\ (~hub[h].done => hub[h].event = e)
      /\ ~Open(c) /\ client[c].pending = NoFrame /\ client[c].shown = NoFrame
  BY DEF IInv, ClientInv, FrameInv, Open
<1>4. Open(c)' /\ \A d \in Client \ {c} : Open(d)' <=> Open(d)
  BY <1>2 DEF Open
<1>5. ClientInv'
  <2> SUFFICES ASSUME NEW d \in Client
               PROVE  ClientInv!(d)'
    BY DEF ClientInv
  <2>1. CASE d = c
    <3>1. view[e] <= view[e]
      BY <1>1, <1>3, HubAssumption
    <3> QED
      BY <1>2, <1>3, <1>4, <2>1, <3>1
  <2>2. CASE d # c
    <3>1. client'[d] = client[d] /\ (Open(d)' <=> Open(d)) /\ ClientInv!(d)
      BY <1>2, <1>4, <2>2 DEF IInv, ClientInv
    <3>2. Open(d) => group'[client[d].group].hub = client[d].hub
      BY <3>1, HubAssumption
    <3> QED
      BY <3>1, <3>2
  <2> QED
    BY <2>1, <2>2
<1>6. FrameInv'
  <2>1. \A d \in Client : ~Open(d)' => client'[d].pending = NoFrame /\ client'[d].shown = NoFrame
    BY <1>2, <1>4 DEF IInv, FrameInv
  <2>2. FreshFrames'
    BY <1>2, <1>3, <1>4 DEF IInv, FrameInv, FreshFrames
  <2>3. ASSUME NEW d \in Client, Open(d)', client'[d].ripe, NEW k, k = client'[d].group,
               ~Ended(k)', group'[k].pc = "loaded"
        PROVE  group'[k].frame >= client'[d].base
    <3>1. d # c /\ client'[d] = client[d] /\ Open(d) /\ client[d].ripe /\ k \in Group
      BY <1>2, <1>4, <2>3 DEF IInv, ClientInv
    <3>2. group[k].pc = "loaded" /\ group'[k].frame = group[k].frame /\ group'[k].cancelled = group[k].cancelled
      BY <2>3, <3>1
    <3>3. group[k].hub \in Hub /\ group'[k].hub = group[k].hub
      BY <3>1, <3>2, <1>3, HubAssumption DEF IInv, GroupInv
    <3>4. ~Ended(k)
      BY <2>3, <3>2, <3>3 DEF Ended
    <3> QED
      BY <2>3, <3>1, <3>2, <3>4 DEF IInv, FrameInv
  <2> QED
    BY <2>1, <2>2, <2>3 DEF FrameInv
<1>7. /\ \A k \in Group : Clients(k) \subseteq Clients(k)'
      /\ c \in Clients(g)'
  BY <1>2, <1>3, <1>4 DEF Clients
<1>8. ASSUME NEW k \in Hub
      PROVE  Cardinality(HubClients(k)') <= MaxClients /\ IsFiniteSet(HubClients(k)')
  <2>1. MaxClients \in Nat /\ IsFiniteSet(HubClients(k)) /\ Cardinality(HubClients(k)) <= MaxClients
    BY HubAssumption DEF IInv, LimitInv, WithinLimits
  <2>2. CASE k # h
    <3>1. HubClients(k)' = HubClients(k)
      BY <1>2, <1>3, <1>4, <2>2 DEF HubClients
    <3> QED
      BY <2>1, <3>1
  <2>3. CASE k = h
    <3>1. HubClients(k)' = HubClients(k) \cup {c}
      BY <1>2, <1>3, <1>4, <2>3 DEF HubClients
    <3>2. c \notin HubClients(k)
      BY <1>3 DEF HubClients
    <3>3. IsFiniteSet(HubClients(k) \cup {c}) /\ Cardinality(HubClients(k) \cup {c}) = Cardinality(HubClients(k)) + 1
      BY <2>1, <3>2, FS_AddElement
    <3>4. Cardinality(HubClients(k)) \in Nat
      BY <2>1, FS_CardinalityType
    <3> QED
      BY <2>1, <2>3, <3>1, <3>3, <3>4
  <2> QED
    BY <2>2, <2>3
<1> QED
  BY <1>2, <1>5, <1>6, <1>7, <1>8

\* A viewer joins a group that goes on (finishHub.subscribe).
LEMMA JoinInv ==
    ASSUME IInv, NEW c \in Client, NEW r \in Race, NEW h, h = client[c].hub,
           client[c].pc = "subscribe", ~Refuses(h, r), ~NeedsGroup(h, r),
           Subscribed(c, hub[h].groups[r]),
           group' = [group EXCEPT ![hub[h].groups[r]].wake = @ \/ RequestOnSubscribe(FALSE)],
           UNCHANGED <<view, writers, signal, server, hub>>
    PROVE  IInv'
<1>1. PICK g \in Group : hub[h].groups[r] = g /\ ~Ended(g)
  BY DEF NeedsGroup
<1>2. h \in Hub /\ client[c].event \in Event
  BY DEF IInv, ClientInv
<1>3. group[g].hub = h /\ group[g].race = r
  BY <1>1, <1>2, MapAt DEF IInv
<1>4. client \in [Client -> ClientRecord] /\ view \in [Event -> 1 .. MaxCommit + 1] /\ group \in [Group -> GroupRecord]
  BY DEF IInv, TypeOK
<1>5. PICK new \in ClientRecord :
          /\ client' = [client EXCEPT ![c] = new]
          /\ new.pc = "stream" /\ new.event = client[c].event /\ new.hub = h /\ new.group = g
          /\ ~new.ripe /\ new.base = view[client[c].event]
          /\ new.pending = client[c].pending /\ new.shown = client[c].shown
  <2>1. PICK b \in BOOLEAN : b = FALSE
    BY Zenon
  <2>2. PICK v \in Frame : v = view[client[c].event]
    BY <1>2, <1>4, HubAssumption DEF Frame, NoFrame
  <2>3. client' = [client EXCEPT ![c] = Entering(client[c], g, b, v)]
    BY <1>1, <2>1, <2>2, Zenon DEF Subscribed, Go, Entering, RipeAtOnce
  <2> DEFINE new == Entering(client[c], g, b, v)
  <2>4. /\ new \in ClientRecord /\ new.pc = "stream" /\ new.event = client[c].event
        /\ new.hub = client[c].hub /\ new.group = g /\ new.ripe = b /\ new.base = v
        /\ new.pending = client[c].pending /\ new.shown = client[c].shown
    BY <1>4, EnteringFields
  <2> HIDE DEF new
  <2> QED
    BY <2>1, <2>2, <2>3, <2>4 DEF new
<1>6. /\ group' \in [Group -> GroupRecord] /\ \A k \in Group \ {g} : group'[k] = group[k]
      /\ group'[g].hub = group[g].hub /\ group'[g].race = group[g].race /\ group'[g].pc = group[g].pc
      /\ group'[g].cancelled = group[g].cancelled /\ group'[g].frame = group[g].frame
  <2> DEFINE rec == [group[g] EXCEPT !.wake = TRUE]
  <2>1. group' = [group EXCEPT ![g] = rec]
    BY <1>1 DEF RequestOnSubscribe
  <2>2. /\ rec \in GroupRecord /\ rec.hub = group[g].hub /\ rec.race = group[g].race
        /\ rec.pc = group[g].pc /\ rec.cancelled = group[g].cancelled /\ rec.frame = group[g].frame
    BY <1>4 DEF GroupRecord
  <2> HIDE DEF rec
  <2> QED
    BY <1>4, <2>1, <2>2
<1>7. Cardinality(HubClients(h)) < MaxClients
  <2>1. IsFiniteSet(HubClients(h)) /\ MaxClients \in Nat
    BY <1>2, HubAssumption DEF IInv, LimitInv
  <2>2. Cardinality(HubClients(h)) \in Nat
    BY <2>1, FS_CardinalityType
  <2> QED
    BY <2>1, <2>2 DEF Refuses
<1>8. /\ client' \in [Client -> ClientRecord]
      /\ ClientInv' /\ FrameInv'
      /\ \A k \in Group : Clients(k) \subseteq Clients(k)'
      /\ c \in Clients(g)'
      /\ \A k \in Hub : Cardinality(HubClients(k)') <= MaxClients /\ IsFiniteSet(HubClients(k)')
  <2>1. /\ group'[g].hub = client[c].hub /\ group[g].hub \in {client[c].hub, None}
        /\ group'[g].pc = "loaded" =>
              group[g].pc = "loaded" /\ group'[g].frame = group[g].frame /\ group'[g].cancelled = group[g].cancelled
    BY <1>3, <1>6
  <2>2. \A k \in Hub : hub'[k].event = hub[k].event /\ hub'[k].done = hub[k].done
                       /\ hub'[k].cancelled = hub[k].cancelled
    OBVIOUS
  <2>3. \A k \in Group \ {g} : group'[k] = group[k]
    BY <1>6
  <2>4. Cardinality(HubClients(client[c].hub)) < MaxClients /\ new.hub = client[c].hub
    BY <1>5, <1>7
  <2> QED
    BY <1>5, <2>1, <2>2, <2>3, <2>4, Entered
<1>9. TypeOK' /\ CountInv' /\ HubInv'
  BY <1>6, <1>8 DEF IInv, TypeOK, CountInv, HubInv
<1>10. GroupInv'
  <2>1. GroupKept
    BY <1>6 DEF GroupKept, IInv, GroupInv
  <2> QED
    BY <2>1, Around, GroupsGoOn
<1>11. MapInv'
  <2> SUFFICES ASSUME NEW m \in Hub, NEW q \in Race, NEW k \in Group, hub'[m].groups[q] = k
               PROVE  group'[k].hub = m /\ group'[k].race = q /\ Clients(k)' # {}
    BY MapOf
  <2>1. group[k].hub = m /\ group[k].race = q /\ Clients(k) # {}
    BY MapAt DEF IInv
  <2> QED
    BY <1>6, <1>8, <2>1
<1>12. LimitInv'
  <2>1. \A k \in Group : group'[k].hub = group[k].hub /\ group'[k].pc = group[k].pc
    BY <1>6
  <2>2. \A k \in Hub : Workers(k)' = Workers(k) /\ Building(k)' = Building(k)
    BY <2>1 DEF Workers, Building
  <2> QED
    BY <1>8, <2>2 DEF IInv, LimitInv, WithinLimits
<1> QED
  BY <1>8, <1>9, <1>10, <1>11, <1>12 DEF IInv

\* A viewer starts a group: the one that was on the map, if any, has ended
\* (finishHub.subscribe).
LEMMA StartInv ==
    ASSUME IInv, NEW c \in Client, NEW r \in Race, NEW h, h = client[c].hub, NEW g \in Group,
           client[c].pc = "subscribe", ~Refuses(h, r), NeedsGroup(h, r),
           group[g] = NoGroup, Subscribed(c, g),
           group' = [group EXCEPT ![g] = [NoGroup EXCEPT !.hub = h, !.race = r,
                              !.cancelled = FALSE, !.pc = "wait", !.wake = RequestOnSubscribe(TRUE)]],
           hub' = [hub EXCEPT ![h].groups[r] = g],
           UNCHANGED <<view, writers, signal, server>>
    PROVE  IInv'
<1>2. h \in Hub /\ client[c].event \in Event
  BY DEF IInv, ClientInv
<1>3. group[g].hub = None /\ group[g].pc = "exited" /\ group[g].cancelled
  BY NoGroupFields
<1>4. /\ client \in [Client -> ClientRecord] /\ view \in [Event -> 1 .. MaxCommit + 1]
      /\ group \in [Group -> GroupRecord] /\ hub \in [Hub -> HubRecord]
  BY DEF IInv, TypeOK
<1>5. PICK new \in ClientRecord :
          /\ client' = [client EXCEPT ![c] = new]
          /\ new.pc = "stream" /\ new.event = client[c].event /\ new.hub = h /\ new.group = g
          /\ ~new.ripe /\ new.base = view[client[c].event]
          /\ new.pending = client[c].pending /\ new.shown = client[c].shown
  <2>1. PICK b \in BOOLEAN : b = FALSE
    BY Zenon
  <2>2. PICK v \in Frame : v = view[client[c].event]
    BY <1>2, <1>4, HubAssumption DEF Frame, NoFrame
  <2>3. client' = [client EXCEPT ![c] = Entering(client[c], g, b, v)]
    BY <2>1, <2>2, Zenon DEF Subscribed, Go, Entering, RipeAtOnce
  <2> DEFINE new == Entering(client[c], g, b, v)
  <2>4. /\ new \in ClientRecord /\ new.pc = "stream" /\ new.event = client[c].event
        /\ new.hub = client[c].hub /\ new.group = g /\ new.ripe = b /\ new.base = v
        /\ new.pending = client[c].pending /\ new.shown = client[c].shown
    BY <1>4, EnteringFields
  <2> HIDE DEF new
  <2> QED
    BY <2>1, <2>2, <2>3, <2>4 DEF new
<1>6. /\ group' \in [Group -> GroupRecord] /\ \A k \in Group \ {g} : group'[k] = group[k]
      /\ group'[g].hub = h /\ group'[g].race = r /\ group'[g].pc = "wait" /\ ~group'[g].cancelled
  <2> DEFINE rec == [NoGroup EXCEPT !.hub = h, !.race = r, !.cancelled = FALSE, !.pc = "wait", !.wake = TRUE]
  <2>1. group' = [group EXCEPT ![g] = rec]
    BY DEF RequestOnSubscribe
  <2>2. /\ rec \in GroupRecord /\ rec.hub = h /\ rec.race = r /\ rec.pc = "wait" /\ ~rec.cancelled
    <3>1. ASSUME NEW o \in GroupRecord
          PROVE  LET x == [o EXCEPT !.hub = h, !.race = r, !.cancelled = FALSE, !.pc = "wait", !.wake = TRUE]
                 IN  x \in GroupRecord /\ x.hub = h /\ x.race = r /\ x.pc = "wait" /\ ~x.cancelled
      BY <1>2 DEF GroupRecord
    <3> QED
      BY <3>1, NoGroupFields
  <2> HIDE DEF rec
  <2> QED
    BY <1>4, <2>1, <2>2
<1>7. ~hub[h].cancelled /\ ~hub[h].stopped /\ Cardinality(HubClients(h)) < MaxClients /\ Cardinality(Workers(h)) < MaxClients
  <2>1. IsFiniteSet(HubClients(h)) /\ IsFiniteSet(Workers(h)) /\ MaxClients \in Nat
    BY <1>2, HubAssumption DEF IInv, LimitInv
  <2>2. Cardinality(HubClients(h)) \in Nat /\ Cardinality(Workers(h)) \in Nat
    BY <2>1, FS_CardinalityType
  <2> QED
    BY <2>1, <2>2 DEF Refuses
<1>8. /\ hub' \in [Hub -> HubRecord]
      /\ \A k \in Hub : /\ hub'[k].event = hub[k].event /\ hub'[k].cancelled = hub[k].cancelled
                        /\ hub'[k].stopped = hub[k].stopped /\ hub'[k].done = hub[k].done
      /\ hub'[h].groups[r] = g
      /\ \A k \in Hub, q \in Race : k # h \/ q # r => hub'[k].groups[q] = hub[k].groups[q]
  <2> DEFINE rec == Listed(hub[h], r, g)
  <2>1. hub' = [hub EXCEPT ![h] = rec]
    BY DEF Listed
  <2>2. /\ rec \in HubRecord /\ rec.event = hub[h].event /\ rec.cancelled = hub[h].cancelled
        /\ rec.stopped = hub[h].stopped /\ rec.done = hub[h].done /\ rec.groups[r] = g
        /\ \A q \in Race \ {r} : rec.groups[q] = hub[h].groups[q]
    BY <1>2, <1>4, ListedFields
  <2> HIDE DEF rec
  <2>3. hub' \in [Hub -> HubRecord] /\ hub'[h] = rec /\ \A k \in Hub \ {h} : hub'[k] = hub[k]
    BY <1>2, <1>4, <2>1, <2>2
  <2> QED
    BY <2>2, <2>3
<1>9. /\ client' \in [Client -> ClientRecord]
      /\ ClientInv' /\ FrameInv'
      /\ \A k \in Group : Clients(k) \subseteq Clients(k)'
      /\ c \in Clients(g)'
      /\ \A k \in Hub : Cardinality(HubClients(k)') <= MaxClients /\ IsFiniteSet(HubClients(k)')
  <2>1. /\ group'[g].hub = client[c].hub /\ group[g].hub \in {client[c].hub, None}
        /\ group'[g].pc # "loaded"
    BY <1>3, <1>6
  <2>2. \A k \in Hub : hub'[k].event = hub[k].event /\ hub'[k].done = hub[k].done
                       /\ hub'[k].cancelled = hub[k].cancelled
    BY <1>8
  <2>3. \A k \in Group \ {g} : group'[k] = group[k]
    BY <1>6
  <2>4. Cardinality(HubClients(client[c].hub)) < MaxClients /\ new.hub = client[c].hub
    BY <1>5, <1>7
  <2> QED
    BY <1>5, <2>1, <2>2, <2>3, <2>4, Entered
<1>10. TypeOK' /\ CountInv'
  BY <1>6, <1>8, <1>9 DEF IInv, TypeOK, CountInv
<1>11. HubInv'
  BY <1>8 DEF IInv, HubInv
<1>12. GroupInv'
  <2> SUFFICES ASSUME NEW k \in Group
               PROVE  GroupInv!(k)'
    BY DEF GroupInv
  <2>1. CASE k = g
    <3>1. ~hub[h].done
      BY <1>2, <1>7 DEF IInv, HubInv
    <3> QED
      BY <1>2, <1>6, <1>8, <2>1, <3>1
  <2>2. CASE k # g
    <3>1. GroupInv!(k) /\ group'[k] = group[k]
      BY <1>6, <2>2 DEF IInv, GroupInv
    <3>2. group[k].pc # "exited" \/ ~group[k].cancelled => group[k].hub \in Hub /\ group[k].race \in Race
      BY <3>1
    <3>3. ASSUME ~Ended(k)' PROVE hub'[group[k].hub].groups[group[k].race] = k
      <4>1. ~group[k].cancelled /\ ~hub'[group[k].hub].cancelled
        BY <3>1, <3>3 DEF Ended
      <4>2. ~Ended(k) /\ group[k].hub \in Hub /\ group[k].race \in Race
        BY <1>8, <3>2, <4>1 DEF Ended
      <4>3. hub[group[k].hub].groups[group[k].race] = k
        BY <3>1, <4>2
      <4>4. group[k].hub # h \/ group[k].race # r
        BY <4>2, <4>3 DEF NeedsGroup
      <4> QED
        BY <1>8, <4>2, <4>3, <4>4
    <3> QED
      BY <1>8, <3>1, <3>2, <3>3
  <2> QED
    BY <2>1, <2>2
<1>13. MapInv'
  <2> SUFFICES ASSUME NEW m \in Hub, NEW q \in Race, NEW k \in Group, hub'[m].groups[q] = k
               PROVE  group'[k].hub = m /\ group'[k].race = q /\ Clients(k)' # {}
    BY MapOf
  <2>1. CASE m = h /\ q = r
    BY <1>6, <1>8, <1>9, <2>1
  <2>2. CASE m # h \/ q # r
    <3>1. group[k].hub = m /\ group[k].race = q /\ Clients(k) # {}
      BY <1>8, <2>2, MapAt DEF IInv
    <3>2. k # g
      BY <1>3, <3>1, HubAssumption
    <3> QED
      BY <1>6, <1>9, <3>1, <3>2
  <2> QED
    BY <2>1, <2>2
<1>14. LimitInv'
  <2>1. ASSUME NEW k \in Hub
        PROVE  /\ Cardinality(Workers(k)') <= MaxClients /\ IsFiniteSet(Workers(k)')
               /\ Cardinality(Building(k)') <= BuildSlots
    <3>1. /\ MaxClients \in Nat /\ IsFiniteSet(Workers(k)) /\ Cardinality(Workers(k)) <= MaxClients
          /\ Cardinality(Building(k)) <= BuildSlots
      BY HubAssumption DEF IInv, LimitInv, WithinLimits
    <3>2. Building(k)' = Building(k)
      BY <1>3, <1>6 DEF Building
    <3>3. CASE k # h
      <4>1. Workers(k)' = Workers(k)
        BY <1>3, <1>6, <3>3 DEF Workers
      <4> QED
        BY <3>1, <3>2, <4>1
    <3>4. CASE k = h
      <4>1. Workers(k)' = Workers(k) \cup {g}
        BY <1>6, <3>4 DEF Workers
      <4>2. g \notin Workers(k)
        BY <1>3 DEF Workers
      <4>3. IsFiniteSet(Workers(k) \cup {g}) /\ Cardinality(Workers(k) \cup {g}) = Cardinality(Workers(k)) + 1
        BY <3>1, <4>2, FS_AddElement
      <4>4. Cardinality(Workers(k)) \in Nat
        BY <3>1, FS_CardinalityType
      <4> QED
        BY <1>7, <3>1, <3>2, <3>4, <4>1, <4>3, <4>4
    <3> QED
      BY <3>3, <3>4
  <2> QED
    BY <1>9, <2>1 DEF LimitInv, WithinLimits
<1> QED
  BY <1>9, <1>10, <1>11, <1>12, <1>13, <1>14 DEF IInv

\* A handler subscribes, or is refused (finishHub.subscribe).
LEMMA SubscribeInv == ASSUME IInv, NEW c \in Client, Subscribe(c) PROVE IInv'
<1> DEFINE h == client[c].hub
<1>1. client[c].pc = "subscribe" /\ UNCHANGED <<view, writers, signal, server>>
  BY DEF Subscribe
<1>2. PICK r \in Race :
         \/ Refuses(h, r) /\ Go(c, NoClient) /\ UNCHANGED <<hub, group>>
         \/ /\ ~Refuses(h, r) /\ ~NeedsGroup(h, r)
            /\ Subscribed(c, hub[h].groups[r])
            /\ group' = [group EXCEPT ![hub[h].groups[r]].wake = @ \/ RequestOnSubscribe(FALSE)]
            /\ UNCHANGED hub
         \/ /\ ~Refuses(h, r) /\ NeedsGroup(h, r)
            /\ \E g \in Group :
                  /\ group[g] = NoGroup
                  /\ group' = [group EXCEPT ![g] = [NoGroup EXCEPT !.hub = h, !.race = r,
                              !.cancelled = FALSE, !.pc = "wait", !.wake = RequestOnSubscribe(TRUE)]]
                  /\ hub' = [hub EXCEPT ![h].groups[r] = g]
                  /\ Subscribed(c, g)
  BY Zenon DEF Subscribe
<1> HIDE DEF h
<1>3. h = client[c].hub
  BY DEF h
<1>4. CASE Go(c, NoClient) /\ UNCHANGED <<hub, group>>
  <2>1. client' = [client EXCEPT ![c] = NoClient] /\ ~Open(c)
    BY <1>1, <1>4 DEF Go, Open
  <2> QED
    BY <1>1, <1>4, <2>1, Around, NoClientFields, MoveInv
<1>5. CASE /\ ~Refuses(h, r) /\ ~NeedsGroup(h, r)
           /\ Subscribed(c, hub[h].groups[r])
           /\ group' = [group EXCEPT ![hub[h].groups[r]].wake = @ \/ RequestOnSubscribe(FALSE)]
           /\ UNCHANGED hub
  BY <1>1, <1>3, <1>5, JoinInv
<1>6. CASE /\ ~Refuses(h, r) /\ NeedsGroup(h, r)
           /\ \E g \in Group :
                  /\ group[g] = NoGroup
                  /\ group' = [group EXCEPT ![g] = [NoGroup EXCEPT !.hub = h, !.race = r,
                              !.cancelled = FALSE, !.pc = "wait", !.wake = RequestOnSubscribe(TRUE)]]
                  /\ hub' = [hub EXCEPT ![h].groups[r] = g]
                  /\ Subscribed(c, g)
  <2>1. PICK g \in Group :
                  /\ group[g] = NoGroup
                  /\ group' = [group EXCEPT ![g] = [NoGroup EXCEPT !.hub = h, !.race = r,
                              !.cancelled = FALSE, !.pc = "wait", !.wake = RequestOnSubscribe(TRUE)]]
                  /\ hub' = [hub EXCEPT ![h].groups[r] = g]
                  /\ Subscribed(c, g)
    BY <1>6, Zenon
  <2> QED
    BY <1>1, <1>3, <1>6, <2>1, StartInv
<1> QED
  BY <1>2, <1>4, <1>5, <1>6

\* The last viewer takes its group, and no other, off the map (finishSubscription.close).
LEMMA UnlistedFields ==
    ASSUME IInv, NEW h \in Hub, NEW r, NEW g \in Group, hub' = Unlisted(h, r, g)
    PROVE  /\ hub' \in [Hub -> HubRecord]
           /\ \A k \in Hub : /\ hub'[k].event = hub[k].event /\ hub'[k].cancelled = hub[k].cancelled
                             /\ hub'[k].stopped = hub[k].stopped /\ hub'[k].done = hub[k].done
           /\ \A k \in Hub, q \in Race :
                 hub'[k].groups[q] = IF k = h /\ q = r /\ hub[k].groups[q] = g THEN None ELSE hub[k].groups[q]
<1>1. hub \in [Hub -> HubRecord]
  BY DEF IInv, TypeOK
<1> DEFINE entry == IF hub[h].groups[r] = g THEN None ELSE hub[h].groups[r]
           map == [hub[h].groups EXCEPT ![r] = entry]
           rec == [hub[h] EXCEPT !.groups = map]
<1>2. hub' = [hub EXCEPT ![h] = rec]
  BY DEF Unlisted
<1>3. hub[h].groups \in [Race -> Group \cup {None}]
  BY <1>1 DEF HubRecord
<1>4. r \in Race => entry \in Group \cup {None}
  BY <1>3
<1>5. map \in [Race -> Group \cup {None}] /\ \A q \in Race : map[q] = IF q = r THEN entry ELSE hub[h].groups[q]
  <2> HIDE DEF entry
  <2> QED BY <1>3, <1>4
<1>6. /\ rec \in HubRecord /\ rec.event = hub[h].event /\ rec.cancelled = hub[h].cancelled
      /\ rec.stopped = hub[h].stopped /\ rec.done = hub[h].done /\ rec.groups = map
  <2> HIDE DEF map
  <2> QED BY <1>1, <1>5 DEF HubRecord
<1> HIDE DEF rec, map
<1>7. hub' \in [Hub -> HubRecord] /\ hub'[h] = rec /\ \A k \in Hub \ {h} : hub'[k] = hub[k]
  BY <1>1, <1>2, <1>6
<1>8. \A k \in Hub, q \in Race :
         hub'[k].groups[q] = IF k = h /\ q = r /\ hub[k].groups[q] = g THEN None ELSE hub[k].groups[q]
  BY <1>5, <1>6, <1>7
<1> QED
  BY <1>6, <1>7, <1>8

\* A viewer leaves; the last of a group cancels it (finishSubscription.close).
LEMMA CloseInv == ASSUME IInv, NEW c \in Client, Close(c) PROVE IInv'
<1>0. PICK g, h, r : g = client[c].group /\ h = client[c].hub /\ r = group[g].race
  OBVIOUS
<1>1. /\ Open(c) /\ client' = [client EXCEPT ![c] = NoClient]
      /\ UNCHANGED <<view, writers, signal, server>>
      /\ \/ /\ Clients(g) = {c}
            /\ group' = Grouped(g, [group[g] EXCEPT !.cancelled = TRUE], {})
            /\ hub' = Unlisted(h, r, g)
         \/ Clients(g) # {c} /\ UNCHANGED <<group, hub>>
  BY <1>0, Zenon DEF Close, Go
<1>2. g \in Group /\ h \in Hub /\ group[g].hub = h
  BY <1>0, <1>1 DEF IInv, ClientInv
<1>3. /\ client \in [Client -> ClientRecord] /\ group \in [Group -> GroupRecord] /\ hub \in [Hub -> HubRecord]
  BY DEF IInv, TypeOK
<1>4. /\ client' \in [Client -> ClientRecord] /\ client'[c] = NoClient
      /\ \A d \in Client \ {c} : client'[d] = client[d]
  BY <1>1, <1>3, NoClientFields
<1>5. ~Open(c)' /\ \A d \in Client \ {c} : Open(d)' <=> Open(d)
  BY <1>4, NoClientFields DEF Open
<1>6. /\ group' \in [Group -> GroupRecord]
      /\ \A k \in Group \ {g} : group'[k] = group[k]
      /\ group'[g] = group[g] \/ (group'[g].cancelled /\ group'[g].pc = group[g].pc)
      /\ group'[g].pc # "exited" => group'[g].hub = group[g].hub /\ group'[g].race = group[g].race
      /\ Clients(g) # {c} => group'[g] = group[g]
  <2>1. CASE Clients(g) # {c}
    BY <1>1, <1>3, <2>1
  <2>2. CASE Clients(g) = {c}
    <3> DEFINE rec == [group[g] EXCEPT !.cancelled = TRUE]
    <3>1. /\ rec \in GroupRecord /\ rec.hub = group[g].hub /\ rec.race = group[g].race
          /\ rec.pc = group[g].pc /\ rec.cancelled
      BY <1>2, <1>3 DEF GroupRecord
    <3>2. group' = Grouped(g, rec, {})
      BY <1>1, <2>2
    <3> HIDE DEF rec
    <3>3. /\ group' \in [Group -> GroupRecord]
          /\ \A k \in Group \ {g} : group'[k] = group[k]
          /\ group'[g].pc = rec.pc
          /\ \/ group'[g] = NoGroup
             \/ /\ group'[g].hub = rec.hub /\ group'[g].race = rec.race
                /\ rec.cancelled => group'[g].cancelled
      BY <1>2, <3>1, <3>2, GroupedFields
    <3> QED
      BY <2>2, <3>1, <3>3, NoGroupFields
  <2> QED
    BY <2>1, <2>2
<1>7. /\ hub' \in [Hub -> HubRecord]
      /\ \A k \in Hub : /\ hub'[k].event = hub[k].event /\ hub'[k].cancelled = hub[k].cancelled
                        /\ hub'[k].stopped = hub[k].stopped /\ hub'[k].done = hub[k].done
      /\ \A k \in Hub, q \in Race : hub'[k].groups[q] \in {hub[k].groups[q], None}
      /\ \A k \in Hub, q \in Race : hub[k].groups[q] # g => hub'[k].groups[q] = hub[k].groups[q]
      /\ Clients(g) = {c} => hub[h].groups[r] # g \/ r \notin Race \/ hub'[h].groups[r] = None
  <2>1. CASE Clients(g) # {c}
    BY <1>1, <1>3, <2>1
  <2>2. CASE Clients(g) = {c}
    <3>1. hub' = Unlisted(h, r, g)
      BY <1>1, <2>2
    <3>2. /\ hub' \in [Hub -> HubRecord]
          /\ \A k \in Hub : /\ hub'[k].event = hub[k].event /\ hub'[k].cancelled = hub[k].cancelled
                            /\ hub'[k].stopped = hub[k].stopped /\ hub'[k].done = hub[k].done
          /\ \A k \in Hub, q \in Race :
                hub'[k].groups[q] = IF k = h /\ q = r /\ hub[k].groups[q] = g THEN None ELSE hub[k].groups[q]
      BY <1>2, <3>1, UnlistedFields
    <3> QED
      BY <1>2, <3>2
  <2> QED
    BY <2>1, <2>2
<1>8. \A k \in Group \ {g} : Clients(k)' = Clients(k)
  BY <1>0, <1>4, <1>5 DEF Clients
<1>9. TypeOK' /\ CountInv'
  BY <1>1, <1>4, <1>6, <1>7 DEF IInv, TypeOK, CountInv
<1>10. HubInv'
  BY <1>1, <1>7 DEF IInv, HubInv
<1>11. GroupInv'
  <2> SUFFICES ASSUME NEW k \in Group
               PROVE  GroupInv!(k)'
    BY DEF GroupInv
  <2>1. GroupInv!(k)
    BY DEF IInv, GroupInv
  <2>2. group[k].pc # "exited" \/ ~group[k].cancelled => group[k].hub \in Hub /\ group[k].race \in Race
    BY <2>1
  <2>3. CASE k # g \/ Clients(g) # {c}
    <3>1. group'[k] = group[k]
      BY <1>6, <2>3
    <3>2. ASSUME ~Ended(k)' PROVE hub'[group[k].hub].groups[group[k].race] = k
      <4>1. ~group[k].cancelled /\ ~hub'[group[k].hub].cancelled
        BY <3>1, <3>2 DEF Ended
      <4>2. ~Ended(k) /\ group[k].hub \in Hub /\ group[k].race \in Race
        BY <1>7, <2>2, <4>1 DEF Ended
      <4>3. hub[group[k].hub].groups[group[k].race] = k
        BY <2>1, <4>2
      <4> QED
        BY <1>1, <1>7, <2>3, <4>2, <4>3
    <3> QED
      BY <1>7, <2>1, <2>2, <3>1, <3>2
  <2>4. CASE k = g /\ Clients(g) = {c}
    <3>1. group'[g].cancelled /\ group'[g].pc = group[g].pc
      <4> DEFINE rec == [group[g] EXCEPT !.cancelled = TRUE]
      <4>1. rec \in GroupRecord /\ rec.pc = group[g].pc /\ rec.cancelled
        BY <1>2, <1>3 DEF GroupRecord
      <4>2. group' = Grouped(g, rec, {})
        BY <1>1, <2>4
      <4> HIDE DEF rec
      <4>3. /\ group'[g].pc = rec.pc
            /\ \/ group'[g] = NoGroup
               \/ rec.cancelled => group'[g].cancelled
        BY <1>2, <4>1, <4>2, GroupedFields
      <4> QED
        BY <4>1, <4>3, NoGroupFields
    <3>2. Ended(g)'
      BY <3>1 DEF Ended
    <3> QED
      BY <1>6, <1>7, <2>1, <2>2, <2>4, <3>1, <3>2
  <2> QED
    BY <2>3, <2>4
<1>12. MapInv'
  <2> SUFFICES ASSUME NEW m \in Hub, NEW q \in Race, NEW k \in Group, hub'[m].groups[q] = k
               PROVE  group'[k].hub = m /\ group'[k].race = q /\ Clients(k)' # {}
    BY MapOf
  <2>1. hub[m].groups[q] = k
    BY <1>7, HubAssumption
  <2>2. group[k].hub = m /\ group[k].race = q /\ Clients(k) # {}
    BY <2>1, MapAt DEF IInv
  <2>3. CASE k # g
    BY <1>6, <1>8, <2>2, <2>3
  <2>4. CASE k = g
    <3>1. Clients(g) # {c}
      BY <1>0, <1>2, <1>7, <2>1, <2>2, <2>4, HubAssumption
    <3>2. c \in Clients(g)
      BY <1>0, <1>1 DEF Clients
    <3>3. PICK d \in Clients(g) : d # c
      BY <3>1, <3>2
    <3>4. d \in Clients(g)'
      BY <1>4, <1>5, <3>3 DEF Clients
    <3> QED
      BY <1>6, <2>2, <2>4, <3>1, <3>4
  <2> QED
    BY <2>3, <2>4
<1>13. \A d \in Client \ {c} : Open(d) => /\ client[d].group \in Group
                                         /\ group'[client[d].group] = group[client[d].group]
  <2> TAKE d \in Client \ {c}
  <2> HAVE Open(d)
  <2>1. client[d].group \in Group
    BY DEF IInv, ClientInv
  <2>2. d \in Clients(client[d].group)
    BY DEF Clients
  <2> QED
    BY <1>6, <2>1, <2>2
<1>14. ClientInv'
  <2> SUFFICES ASSUME NEW d \in Client
               PROVE  ClientInv!(d)'
    BY DEF ClientInv
  <2>1. CASE d = c
    BY <1>4, <1>5, <2>1, NoClientFields
  <2>2. CASE d # c
    <3>1. client'[d] = client[d] /\ (Open(d)' <=> Open(d)) /\ ClientInv!(d)
      BY <1>4, <1>5, <2>2 DEF IInv, ClientInv
    <3>2. Open(d) => group'[client[d].group] = group[client[d].group]
      BY <1>13, <2>2
    <3> QED
      BY <1>1, <1>7, <3>1, <3>2
  <2> QED
    BY <2>1, <2>2
<1>15. FrameInv'
  <2>1. \A d \in Client : ~Open(d)' => client'[d].pending = NoFrame /\ client'[d].shown = NoFrame
    BY <1>4, <1>5, NoClientFields DEF IInv, FrameInv
  <2>2. FreshFrames'
    BY <1>4, <1>5 DEF IInv, FrameInv, FreshFrames
  <2>3. ASSUME NEW d \in Client, Open(d)', client'[d].ripe, NEW k, k = client'[d].group,
               ~Ended(k)', group'[k].pc = "loaded"
        PROVE  group'[k].frame >= client'[d].base
    <3>1. d # c /\ client'[d] = client[d] /\ Open(d) /\ k \in Group /\ group'[k] = group[k]
      BY <1>4, <1>5, <1>13, <2>3
    <3>2. group[k].hub \in Hub
      BY <2>3, <3>1 DEF IInv, GroupInv
    <3>3. ~Ended(k)
      BY <1>7, <2>3, <3>1, <3>2 DEF Ended
    <3> QED
      BY <2>3, <3>1, <3>3 DEF IInv, FrameInv
  <2> QED
    BY <2>1, <2>2, <2>3 DEF FrameInv
<1>16. LimitInv'
  <2>1. \A m \in Hub : HubClients(m)' \subseteq HubClients(m)
    BY <1>4, <1>5 DEF HubClients
  <2>2. \A k \in Group : group'[k].pc # "exited" => group'[k].pc = group[k].pc /\ group'[k].hub = group[k].hub
    BY <1>6
  <2>3. \A m \in Hub : Workers(m)' \subseteq Workers(m) /\ Building(m)' \subseteq Building(m)
    BY <2>2 DEF Workers, Building
  <2> QED
    BY <2>1, <2>3, LimitsShrink
<1> QED
  BY <1>9, <1>10, <1>11, <1>12, <1>14, <1>15, <1>16 DEF IInv

-----------------------------------------------------------------------------
(* Theorems.                                                               *)

\* A step of any goroutine keeps the invariant.
LEMMA NextInv == ASSUME IInv, [Next]_vars PROVE IInv'
<1>1. CASE Next
  BY <1>1, StoreInv, PublicationInv, DispatchInv, HubStopInv, HubDoneInv, BuildBeginInv, BuildSlotInv,
     BuildLoadInv, WorkerGoneInv, BuildCheckInv, BuildPublishInv, StreamInv, RequestInv, LookupInv,
     AwaitedInv, CreateInv, SubscribeInv, CloseInv
     DEF Next, HubStep, BuildStep, ClientStep
<1>2. CASE UNCHANGED vars
  <2>1. TypeOK' /\ CountInv'
    BY <1>2 DEF vars, IInv, TypeOK, CountInv
  <2> QED
    BY <1>2, <2>1, Around, QuietInv DEF vars, IInv
<1> QED
  BY <1>1, <1>2

\* Every reachable state satisfies the inductive invariant, however publications,
\* viewers, workers and the dispatcher interleave.
THEOREM Invariance == Spec => []IInv
<1>1. IInv /\ [Next]_vars => IInv'
  BY NextInv
<1> QED
  BY <1>1, InitInv, PTL DEF Spec

\* Every variable keeps its type.
THEOREM TypeCorrect == Spec => []TypeOK
<1>1. IInv => TypeOK
  BY DEF IInv
<1> QED
  BY <1>1, Invariance, PTL

\* The Signal of a store has one dispatcher: finishHubFor creates a hub only after
\* every other has ended.
THEOREM SoleDispatcher == Spec => []OneDispatcher
<1>1. IInv => OneDispatcher
  BY DEF IInv, HubInv, OneDispatcher
<1> QED
  BY <1>1, Invariance, PTL

\* No viewer is shown a frame from before its subscription (minBuild).
THEOREM NoStaleFrame == Spec => []FreshFrames
<1>1. IInv => FreshFrames
  BY DEF IInv, FrameInv
<1> QED
  BY <1>1, Invariance, PTL

\* A subscription that has not ended is on the map of the server's hub, whose
\* dispatcher runs: subscribe and close keep map, groups and viewers together.
THEOREM WakeupsReach == Spec => []StreamReachable
<1>1. ASSUME IInv PROVE StreamReachable
  <2> SUFFICES ASSUME NEW c \in Client, Open(c), NEW g, g = client[c].group, ~Ended(g)
               PROVE  /\ server.hub = group[g].hub
                      /\ ~hub[group[g].hub].stopped
                      /\ hub[group[g].hub].groups[group[g].race] = g
    BY DEF StreamReachable
  <2>1. g \in Group /\ group[g].hub \in Hub
    BY <1>1 DEF IInv, ClientInv
  <2>2. ~hub[group[g].hub].cancelled
    BY DEF Ended
  <2>3. ~hub[group[g].hub].stopped /\ ~hub[group[g].hub].done
    BY <1>1, <2>1, <2>2 DEF IInv, HubInv
  <2> QED
    BY <1>1, <2>1, <2>3 DEF IInv, HubInv, GroupInv
<1>2. IInv => StreamReachable
  BY <1>1
<1> QED
  BY <1>2, Invariance, PTL

\* Viewers, workers and builds of a hub stay within maxFinishClients and buildSlots.
THEOREM LimitsKept == Spec => []WithinLimits
<1>1. IInv => WithinLimits
  BY DEF IInv, LimitInv
<1> QED
  BY <1>1, Invariance, PTL
=============================================================================
