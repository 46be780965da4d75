------------------------------- MODULE PacketLAN -------------------------------
(***************************************************************************)
(* The packet-issuance server for tablets in the local network: starting   *)
(* and stopping it for one event, pairing tablets with invitations, the    *)
(* authenticated requests of the tablets, and the archiving of the feed.   *)
(*                                                                         *)
(* A tablet keeps a copy of an event's roster as of a cursor.  What an     *)
(* operation does to the roster is the subject of PacketDesk; here every   *)
(* published action is one more sequence number of the event's feed.  The  *)
(* tablet's program is not part of this repository: it is modelled by the  *)
(* requests the server accepts, every one of which may stay unanswered.    *)
(*                                                                         *)
(* Sources: transport/packetlan/server.go, infrastructure/sqlite/          *)
(* packet_lan_state.go and packet_issuance_store.go, service/              *)
(* packet_issuance_lan.go and packet_issuance_retention.go.                *)
(***************************************************************************)
EXTENDS Integers, Sequences, FiniteSets, FiniteSetsExt

CONSTANTS
    Event,        \* events with an installed roster
    MaxConn,      \* bound on the connections
    Tablet,       \* tablets: an origin instance and the credentials it makes
    Reader,       \* the tablets that send requests; the others only pair
    MaxPeers,     \* packetLANMaxPeers
    Keep,         \* actions that archiving leaves
    Batch,        \* packetFeedArchiveBatchLimit
    ListLimit,    \* connections that ListLANConnections returns
    PageLimit,    \* actions on a page
    MaxAction,    \* bound on the feed of each event
    None

ASSUME LANAssumption ==
    /\ None \notin Event \cup Tablet \cup Nat
    /\ Reader \subseteq Tablet
    /\ {MaxConn, MaxPeers, Keep, Batch, ListLimit, PageLimit} \subseteq Nat \ {0}
    /\ MaxAction \in [Event -> Nat]

VARIABLES
    running,      \* Server.eventID
    runtime,      \* packet_lan_runtime
    stopping,     \* a Stop is waiting for the requests of its server
    conn,         \* packet_lan_connections in the order they were made
    head, floor,  \* packet_issuance_feed_heads: last_sequence, first_available_sequence - 1
    compacting,   \* an archiving between its check and its transaction
    tablet,       \* the connection whose claim was answered
    copy,         \* the tablet's copy of a roster
    request       \* the authenticated request of the tablet

vars == <<running, runtime, stopping, conn, head, floor, compacting, tablet, copy, request>>

serverVars == <<running, runtime, stopping>>
feedVars == <<head, floor, compacting>>
tabletVars == <<tablet, copy, request>>

Maybe(S) == S \cup {None}

Conn == DOMAIN conn

----------------------------------------------------------------------------
(* Starting and stopping.                                                  *)

\* Server.start; a port or an announcement that is not available changes nothing
Start(e) ==
    /\ running = None
    /\ running' = e
    /\ runtime' = [event |-> e, enabled |-> TRUE]
    /\ UNCHANGED <<stopping, conn, feedVars, tabletVars>>

\* shutdown: nothing more is accepted, the requests that run are waited for
StopBegin ==
    /\ ~stopping
    /\ stopping' = TRUE
    /\ running' = None
    /\ request' = [t \in Tablet |-> IF request[t] = None THEN None
                                    ELSE [request[t] EXCEPT !.waited = TRUE]]
    /\ UNCHANGED <<runtime, conn, feedVars, tablet, copy>>

\* DisableLAN
StopEnd ==
    /\ stopping /\ \A t \in Tablet : request[t] # None => ~request[t].waited
    /\ stopping' = FALSE
    /\ runtime' = [runtime EXCEPT !.enabled = FALSE]
    /\ UNCHANGED <<running, conn, feedVars, tabletVars>>

\* http.Server.Shutdown ends with the caller's context: runtime stays
StopFails ==
    /\ stopping
    /\ stopping' = FALSE
    /\ UNCHANGED <<running, runtime, conn, feedVars, tabletVars>>

\* Serve ends with an error.
ServeFails ==
    /\ running # None
    /\ running' = None
    /\ UNCHANGED <<runtime, stopping, conn, feedVars, tabletVars>>

\* Resume after a restart, which may fail
Restart(ok) ==
    /\ running' = IF runtime.enabled /\ ok THEN runtime.event ELSE None
    /\ stopping' = FALSE
    /\ compacting' = None
    /\ request' = [t \in Tablet |-> None]
    /\ UNCHANGED <<runtime, conn, head, floor, tablet, copy>>

----------------------------------------------------------------------------
(* Pairing.                                                                *)

\* The states of a connection: its invitation can be claimed; it can only be used by the
\* tablet that has claimed it; it is past its expiry or revoked, which nothing tells apart.
States == {"open", "claimed only", "ended"}

\* A connection that counts: claimed and not ended, or an invitation that can be claimed.
Active(c) == conn[c].state = "open" \/ (conn[c].state = "claimed only" /\ conn[c].owner # None)

ActiveConns(e) == {c \in Conn : Active(c) /\ conn[c].event = e}

\* CreateInvitation, CreateLANInvitation
CreateInvitation(e) ==
    /\ running = e /\ Len(conn) < MaxConn
    /\ Cardinality(ActiveConns(e)) < MaxPeers
    /\ conn' = Append(conn, [event |-> e, owner |-> None, state |-> "open"])
    /\ UNCHANGED <<serverVars, feedVars, tabletVars>>

\* The ten minutes of the invitation pass.
InvitationExpires(c) ==
    /\ conn[c].state = "open"
    /\ conn' = [conn EXCEPT ![c].state = "claimed only"]
    /\ UNCHANGED <<serverVars, feedVars, tabletVars>>

\* RevokeLAN, or the seven days of the connection pass
End(c) ==
    /\ conn[c].state # "ended"
    /\ conn' = [conn EXCEPT ![c].state = "ended"]
    /\ UNCHANGED <<serverVars, feedVars, tabletVars>>

\* Mutant: only the expiry of the connection is looked at.
Claimable_Valid(t, c) == conn[c].state # "ended" /\ conn[c].owner \in {None, t}

\* Mutant: a claim in time is accepted whoever claimed before.
Claimable_Rebound(t, c) == conn[c].state = "open" \/ (conn[c].state # "ended" /\ conn[c].owner = t)

\* ClaimLAN: again with the same identity, or the first time in time
Claimable(t, c) ==
    \/ conn[c].state # "ended" /\ conn[c].owner = t
    \/ conn[c].state = "open" /\ conn[c].owner = None

\* handleClaim: the claim is stored before the connection's event is compared
Claim(t, c, answered) ==
    /\ running # None /\ request[t] = None
    /\ Claimable(t, c)
    /\ conn' = [conn EXCEPT ![c].owner = t]
    /\ tablet' = IF answered /\ conn[c].event = running THEN [tablet EXCEPT ![t] = c] ELSE tablet
    /\ UNCHANGED <<serverVars, feedVars, copy, request>>

----------------------------------------------------------------------------
(* Requests.                                                               *)

\* AuthenticateLAN, authenticate
Authenticated(t, c) ==
    /\ c # None
    /\ conn[c].owner = t /\ conn[c].state # "ended"
    /\ conn[c].event = running

\* The tablet has a copy of the event its connection is for.
HasCopy(t) == copy[t] # None /\ copy[t].event = conn[tablet[t]].event

Follows(t) == HasCopy(t) /\ ~copy[t].expired

Request(t, kind) ==
    /\ request[t] = None
    /\ Authenticated(t, tablet[t])
    /\ kind = "feed" => Follows(t)
    /\ kind = "bootstrap" => ~Follows(t)
    /\ request' = [request EXCEPT ![t] = [kind |-> kind, conn |-> tablet[t], waited |-> FALSE]]
    /\ UNCHANGED <<serverVars, conn, feedVars, tablet, copy>>

Published(e) ==
    /\ head[e] < MaxAction[e]
    \* at most Keep actions while an archiving is between its check and its transaction
    /\ compacting # None /\ compacting.event = e => head[e] < compacting.head + Keep
    /\ head' = [head EXCEPT ![e] = @ + 1]
    /\ UNCHANGED <<floor, compacting>>

\* handleOperations: published, or nothing new
Operations(t) ==
    /\ request[t] # None /\ request[t].kind = "operations"
    /\ request' = [request EXCEPT ![t] = None]
    /\ Published(conn[request[t].conn].event) \/ UNCHANGED feedVars
    /\ UNCHANGED <<serverVars, conn, tablet, copy>>

\* An edit at the Desk publishes an action as well.
DeskEdit(e) ==
    /\ Published(e)
    /\ UNCHANGED <<serverVars, conn, tabletVars>>

\* handleBootstrap, PacketIssuanceBootstrap
Bootstrap(t) ==
    /\ request[t] # None /\ request[t].kind = "bootstrap"
    /\ LET c == request[t].conn
           e == conn[c].event
       IN copy' = [copy EXCEPT ![t] = [event |-> e, cursor |-> head[e], known |-> 1 .. head[e],
                                       expired |-> FALSE, via |-> c]]
    /\ request' = [request EXCEPT ![t] = None]
    /\ UNCHANGED <<serverVars, conn, feedVars, tablet>>

\* Mutant: a cursor that is behind the feed is an error like any other.
CursorExpired_Gap(e, after) == FALSE

CursorExpired(e, after) == after < floor[e]

\* ListPacketFeedRows: what is in the live table
Rows(e, after) ==
    LET there == {n \in floor[e] + 1 .. head[e] : n > after}
    IN {n \in there : Cardinality({m \in there : m < n}) < PageLimit}

\* the rows must follow the cursor without a gap
Gap(rows, after) == rows # {} /\ after + 1 \notin rows

\* Mutant: the head of the feed is the next cursor, also when the page is full.
NextCursor_Head(e, rows) == head[e]

NextCursor(e, rows) == Max(rows)

\* handleFeed, PacketIssuanceFeedPage
Feed(t) ==
    /\ request[t] # None /\ request[t].kind = "feed"
    /\ LET e == conn[request[t].conn].event
           after == copy[t].cursor
           rows == Rows(e, after)
       IN copy' = [copy EXCEPT ![t] =
             IF CursorExpired(e, after) THEN [@ EXCEPT !.expired = TRUE]
             ELSE IF Gap(rows, after) \/ rows = {} THEN @
             ELSE [@ EXCEPT !.cursor = NextCursor(e, rows), !.known = copy[t].known \cup rows]]
    /\ request' = [request EXCEPT ![t] = None]
    /\ UNCHANGED <<serverVars, conn, feedVars, tablet>>

\* The answer does not arrive, or the handler failed before it changed anything.
Unanswered(t) ==
    /\ request[t] # None
    /\ request' = [request EXCEPT ![t] = None]
    /\ UNCHANGED <<serverVars, conn, feedVars, tablet, copy>>

----------------------------------------------------------------------------
(* Archiving.                                                              *)

\* ListLANConnections: the newest first
Listed(e) ==
    {c \in Conn : /\ conn[c].event = e
                  /\ Cardinality({d \in Conn : d > c /\ conn[d].event = e}) < ListLimit}

\* Mutant: it is enough that the server does not run.
Archivable_Stopped(e) == running # e

Archivable(e) == running # e /\ \A c \in Listed(e) : ~Active(c)

\* Server.Compact: the check ...
CompactCheck(e) ==
    /\ compacting = None /\ MaxAction[e] > Keep     \* else there is nothing to archive
    /\ Archivable(e)
    /\ compacting' = [event |-> e, head |-> head[e]]
    /\ UNCHANGED <<serverVars, conn, head, floor, tabletVars>>

\* ... and CompactPacketIssuanceFeed: the last sequence to archive
Through(e) == Min({head[e] - Keep, floor[e] + Batch})

CompactArchive ==
    /\ compacting # None
    /\ LET e == compacting.event
       IN floor' = IF Through(e) > floor[e] THEN [floor EXCEPT ![e] = Through(e)] ELSE floor
    /\ compacting' = None
    /\ UNCHANGED <<serverVars, conn, head, tabletVars>>

----------------------------------------------------------------------------
Kinds == {"bootstrap", "operations", "feed"}

\* A row of packet_lan_connections, a tablet's copy, an authenticated request.
Connection == [event : Event, owner : Maybe(Tablet), state : States]
Copy == [event : Event, cursor : Nat, known : SUBSET Nat, expired : BOOLEAN, via : 1 .. MaxConn]
Asked == [kind : Kinds, conn : 1 .. MaxConn, waited : BOOLEAN]

Init ==
    /\ running = None /\ runtime = [event |-> None, enabled |-> FALSE] /\ stopping = FALSE
    /\ conn = <<>>
    /\ head = [e \in Event |-> 0] /\ floor = [e \in Event |-> 0] /\ compacting = None
    /\ tablet = [t \in Tablet |-> None]
    /\ copy = [t \in Tablet |-> None]
    /\ request = [t \in Tablet |-> None]

Next ==
    \/ \E e \in Event : Start(e) \/ DeskEdit(e) \/ CompactCheck(e) \/ CreateInvitation(e)
    \/ StopBegin \/ StopEnd \/ StopFails \/ ServeFails
    \/ \E ok \in BOOLEAN : Restart(ok)
    \/ \E c \in Conn : InvitationExpires(c) \/ End(c)
    \/ \E t \in Tablet, c \in Conn, answered \in BOOLEAN : Claim(t, c, answered)
    \/ \E t \in Reader, kind \in Kinds : Request(t, kind)
    \/ \E t \in Reader : Operations(t) \/ Bootstrap(t) \/ Feed(t) \/ Unanswered(t)
    \/ CompactArchive

Spec == Init /\ [][Next]_vars

\* A tablet keeps asking for the feed, and an answer to it arrives at times.
Fairness ==
    \A t \in Reader :
        /\ SF_vars(Request(t, "feed") \/ Request(t, "bootstrap"))
        /\ SF_vars(Feed(t) \/ Bootstrap(t))
        /\ WF_vars(Operations(t) \/ Unanswered(t))

FairSpec == Spec /\ Fairness

----------------------------------------------------------------------------
(* Properties.                                                             *)

\* Type invariant.
TypeOK ==
    /\ running \in Maybe(Event) /\ stopping \in BOOLEAN
    /\ runtime \in [event : Maybe(Event), enabled : BOOLEAN]
    /\ runtime.enabled => runtime.event # None
    /\ conn \in Seq(Connection)
    /\ Len(conn) <= MaxConn
    /\ head \in [Event -> Nat] /\ floor \in [Event -> Nat]
    /\ \A e \in Event : floor[e] <= head[e] /\ head[e] <= MaxAction[e]
    /\ compacting \in Maybe([event : Event, head : Nat])
    /\ tablet \in [Tablet -> Maybe(Conn)]
    /\ copy \in [Tablet -> Maybe(Copy)]
    /\ \A t \in Tablet : copy[t] # None => copy[t].via \in Conn
    /\ request \in [Tablet -> Maybe(Asked)]
    /\ \A t \in Tablet : request[t] # None => request[t].conn \in Conn

\* However invitations, claims, expiries and revocations interleave, an event never has more
\* than MaxPeers connections and open invitations: the limit is checked when an invitation is
\* made, so nothing later may bring an old one back (CreateLANInvitation, ClaimLAN).
PeersBounded == \A e \in Event : Cardinality(ActiveConns(e)) <= MaxPeers

\* Of two tablets that scanned one invitation at most one is paired, also when the answer to
\* its claim was lost and the claim is repeated (ClaimLAN).
OneTabletPerConnection ==
    \A t, u \in Tablet : tablet[t] # None /\ tablet[t] = tablet[u] => t = u

\* A tablet has every action up to its cursor, and its cursor is never ahead of the feed:
\* what was archived between two of its requests is never passed over
\* (PacketIssuanceFeedPage, ArchivePacketFeedPrefix).
CopyComplete ==
    \A t \in Tablet : copy[t] # None =>
        /\ copy[t].known = 1 .. copy[t].cursor
        /\ copy[t].cursor <= head[copy[t].event]

\* A tablet that is connected and has read the roster through that connection can follow the
\* feed: archiving, whose check of the connections and whose transaction are two steps, never
\* takes away an action the tablet has not read.  The bounds: at most Keep actions are
\* published between the two, and the list that the check goes over has all connections of
\* an event, MaxConn <= ListLimit; the code lists the newest 100, and beyond them an older
\* tablet can be passed over (Server.Compact, CompactPacketIssuanceFeed).
ConnectedNotExpired ==
    \A t \in Tablet : tablet[t] # None /\ copy[t] # None /\ copy[t].via = tablet[t]
        /\ conn[tablet[t]].state # "ended"
            => copy[t].cursor >= floor[copy[t].event]

\* The tablet can reach the server of its event.
Reachable(t) == Authenticated(t, tablet[t])

UpToDate(t) == HasCopy(t) /\ copy[t].cursor = head[copy[t].event]

\* A tablet whose connection stays valid while its event is served gets every action, from
\* wherever it was left: by pages of the feed, or by a new bootstrap once the feed it needs
\* has been archived (cursor_expired).
CatchesUp == \A t \in Reader : <>[]Reachable(t) => <>[](Reachable(t) /\ UpToDate(t))

\* "a previously enabled event resumes after a Desk restart": what runs is what would resume.
RunningResumes == running # None => runtime = [event |-> running, enabled |-> TRUE]
=============================================================================
