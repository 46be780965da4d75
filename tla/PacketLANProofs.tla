---------------------------- MODULE PacketLANProofs ----------------------------
(***************************************************************************)
(* Pairing and following the feed, for any number of events, connections,  *)
(* tablets and published actions.                                          *)
(***************************************************************************)
EXTENDS PacketLAN, FiniteSetTheorems, WellFoundedInduction, TLAPS

\* Every set of natural numbers that is not empty has a smallest member (the
\* first row of an ORDER BY, the first pending edit).
LEMMA LeastNat ==
    ASSUME NEW T \in SUBSET Nat, T # {}
    PROVE  Min(T) \in T /\ \A y \in T : Min(T) <= y
<1>1. PICK x \in T : \A y \in T : ~(<<y, x>> \in OpToRel(<, Nat))
  BY WFMin, NatLessThanWellFounded, Zenon
<1>2. \A y \in T : ~(y < x)
  BY <1>1 DEF OpToRel
<1>3. \A y \in T : x <= y
  BY <1>2
<1> QED
  BY <1>3 DEF Min

\* If it has a bound it has a greatest member (the last change of a page, the
\* next cursor).
LEMMA GreatestNat ==
    ASSUME NEW T \in SUBSET Nat, T # {}, NEW b \in Nat, \A x \in T : x <= b
    PROVE  Max(T) \in T /\ \A y \in T : y <= Max(T)
<1> DEFINE U == {n \in Nat : \E x \in T : n = b - x}
<1>1. PICK z \in T : TRUE
  OBVIOUS
<1>2. b - z \in U
  BY <1>1
<1>3. U \in SUBSET Nat /\ U # {}
  BY <1>2
<1>4. PICK u \in U : \A y \in U : u <= y
  <2> HIDE DEF U
  <2> QED BY <1>3, LeastNat
<1>5. PICK x \in T : u = b - x
  OBVIOUS
<1>6. \A y \in T : x >= y
  <2> TAKE y \in T
  <2>1. b - y \in U
    OBVIOUS
  <2>2. u <= b - y
    BY <1>4, <2>1
  <2> HIDE DEF U
  <2> QED BY <2>2, <1>5
<1> HIDE DEF U
<1> QED
  BY <1>6 DEF Max

\* The smaller of two numbers (the rows an archiving may take).
LEMMA MinOfTwo ==
    ASSUME NEW a \in Int, NEW b \in Int
    PROVE  Min({a, b}) = IF a <= b THEN a ELSE b
BY DEF Min


\* While an archiving is between its check and its transaction, the head stays
\* within Keep actions of the head it has seen.
ArchiveInv ==
    compacting # None =>
        /\ compacting.head <= head[compacting.event]
        /\ head[compacting.event] <= compacting.head + Keep

\* Whatever a tablet has of a connection, it owns the connection; its copy is of
\* the connection's event.
OwnerInv ==
    \A t \in Tablet :
        /\ tablet[t] # None => conn[tablet[t]].owner = t
        /\ request[t] # None => conn[request[t].conn].owner = t
        /\ copy[t] # None => /\ conn[copy[t].via].owner = t
                             /\ conn[copy[t].via].event = copy[t].event

\* The copy is complete, and it is the one a request for the feed continues.
CopyInv ==
    /\ CopyComplete
    /\ \A t \in Tablet : request[t] # None /\ request[t].kind = "feed" =>
           copy[t] # None /\ copy[t].event = conn[request[t].conn].event

\* A copy whose connection has not ended has all that is archived and all that
\* the archiving under way may archive.
ReachInv ==
    \A t \in Tablet : copy[t] # None /\ conn[copy[t].via].state # "ended" =>
        /\ copy[t].cursor >= floor[copy[t].event]
        /\ compacting # None /\ compacting.event = copy[t].event => copy[t].cursor >= compacting.head

IInv ==
    /\ TypeOK
    /\ PeersBounded
    /\ ArchiveInv
    /\ OwnerInv
    /\ CopyInv
    /\ MaxConn <= ListLimit => ReachInv

-----------------------------------------------------------------------------
(* The records.                                                            *)

\* Connections are numbered from 1 (packet_lan_connections).
LEMMA Conns ==
    ASSUME TypeOK
    PROVE  /\ Len(conn) \in Nat /\ Conn = 1 .. Len(conn) /\ Conn \subseteq 1 .. MaxConn
           /\ \A c \in Conn : conn[c] \in Connection
BY LANAssumption DEF TypeOK, Conn

\* A row of packet_lan_connections is changed.
LEMMA ConnChanged ==
    ASSUME TypeOK, NEW c \in Conn, NEW r \in Connection, conn' = [conn EXCEPT ![c] = r]
    PROVE  /\ conn' \in Seq(Connection) /\ Len(conn') = Len(conn) /\ Conn' = Conn
           /\ conn'[c] = r /\ \A d \in Conn \ {c} : conn'[d] = conn[d]
<1>1. conn \in Seq(Connection) /\ c \in 1 .. Len(conn)
  BY Conns DEF TypeOK
<1>2. conn' \in Seq(Connection) /\ Len(conn') = Len(conn)
  BY <1>1
<1>3. Conn' = Conn
  BY <1>1, <1>2 DEF Conn
<1> QED
  BY <1>1, <1>2, <1>3 DEF Conn

\* A field of a row changes (ClaimLAN, RevokeLAN).
LEMMA FieldChanged ==
    ASSUME NEW r \in Connection, NEW s \in States, NEW t \in Tablet
    PROVE  /\ [r EXCEPT !.state = s] \in Connection
           /\ [r EXCEPT !.state = s].event = r.event /\ [r EXCEPT !.state = s].owner = r.owner
           /\ [r EXCEPT !.state = s].state = s
           /\ [r EXCEPT !.owner = t] \in Connection
           /\ [r EXCEPT !.owner = t].event = r.event /\ [r EXCEPT !.owner = t].state = r.state
           /\ [r EXCEPT !.owner = t].owner = t
BY DEF Connection, Maybe

\* The requests of a server that is shut down are waited for (shutdown).
LEMMA AskedWaited ==
    ASSUME NEW r \in Asked
    PROVE  LET new == [r EXCEPT !.waited = TRUE]
           IN  new \in Asked /\ new.kind = r.kind /\ new.conn = r.conn
BY DEF Asked

-----------------------------------------------------------------------------
(* Steps that only go on.                                                  *)

\* Connections keep their event and their owner, and stay ended; requests are
\* the old ones; nothing is archived and nothing begins to be.
LEMMA Kept ==
    ASSUME IInv,
           \A c \in Conn : /\ conn'[c].event = conn[c].event
                           /\ conn[c].owner # None => conn'[c].owner = conn[c].owner
                           /\ conn[c].state = "ended" => conn'[c].state = "ended",
           copy' = copy,
           \A t \in Tablet : tablet'[t] # None =>
               tablet'[t] = tablet[t] \/ conn'[tablet'[t]].owner = t,
           \A t \in Tablet : request'[t] # None =>
               request[t] # None /\ request'[t].kind = request[t].kind /\ request'[t].conn = request[t].conn,
           \A e \in Event : head[e] <= head'[e],
           head' \in [Event -> Nat],
           floor' = floor,
           compacting' \in {compacting, None}
    PROVE  /\ OwnerInv' /\ CopyInv'
           /\ MaxConn <= ListLimit => ReachInv'
<1>1. None \notin Tablet
  BY LANAssumption
<1>2. /\ \A t \in Tablet : tablet[t] # None => tablet[t] \in Conn
      /\ \A t \in Tablet : copy[t] # None => copy[t].via \in Conn /\ copy[t] \in Copy
      /\ \A t \in Tablet : request[t] # None => request[t].conn \in Conn
      /\ head \in [Event -> Nat]
  BY DEF IInv, TypeOK, Maybe
<1>3. OwnerInv'
  BY <1>1, <1>2 DEF IInv, OwnerInv
<1>4. CopyComplete'
  <2> SUFFICES ASSUME NEW t \in Tablet, copy[t] # None
               PROVE  copy[t].cursor <= head'[copy[t].event] /\ copy[t].known = 1 .. copy[t].cursor
    BY DEF CopyComplete
  <2>1. copy[t].cursor \in Nat /\ copy[t].event \in Event
    BY <1>2 DEF Copy
  <2>2. copy[t].known = 1 .. copy[t].cursor /\ copy[t].cursor <= head[copy[t].event]
    BY DEF IInv, CopyInv, CopyComplete
  <2>3. head[copy[t].event] \in Nat /\ head'[copy[t].event] \in Nat /\ head[copy[t].event] <= head'[copy[t].event]
    BY <1>2, <2>1
  <2> QED
    BY <2>1, <2>2, <2>3
<1>5. CopyInv'
  BY <1>2, <1>4 DEF IInv, CopyInv
<1>6. ASSUME MaxConn <= ListLimit PROVE ReachInv'
  BY <1>2, <1>6 DEF IInv, ReachInv
<1> QED
  BY <1>3, <1>5, <1>6

\* No connection becomes active: the limit holds on (CreateLANInvitation).
LEMMA PeersKept ==
    ASSUME IInv, Conn' = Conn,
           \A c \in Conn : conn'[c].event = conn[c].event /\ (Active(c)' => Active(c))
    PROVE  PeersBounded'
<1> SUFFICES ASSUME NEW e \in Event
             PROVE  Cardinality(ActiveConns(e)') <= MaxPeers
  BY DEF PeersBounded
<1>1. Cardinality(ActiveConns(e)) <= MaxPeers /\ MaxPeers \in Nat
  BY LANAssumption DEF IInv, PeersBounded
<1>2. ActiveConns(e)' \subseteq ActiveConns(e)
  BY DEF ActiveConns
<1>3. IsFiniteSet(ActiveConns(e))
  <2>1. IsFiniteSet(Conn)
    BY Conns, FS_Interval DEF IInv
  <2> QED
    BY <2>1, FS_Subset DEF ActiveConns
<1>4. /\ Cardinality(ActiveConns(e)') <= Cardinality(ActiveConns(e))
      /\ Cardinality(ActiveConns(e)') \in Nat /\ Cardinality(ActiveConns(e)) \in Nat
  BY <1>2, <1>3, FS_Subset, FS_CardinalityType
<1> QED
  BY <1>1, <1>4

-----------------------------------------------------------------------------
(* The inductive invariant holds initially and is kept by every action.    *)

\* A Desk without connections satisfies the invariant.
LEMMA InitInv == Init => IInv
<1> SUFFICES ASSUME Init PROVE IInv
  OBVIOUS
<1>1. TypeOK
  <2>1. conn \in Seq(Connection) /\ Len(conn) <= MaxConn
    BY LANAssumption DEF Init
  <2>2. runtime \in [event : Maybe(Event), enabled : BOOLEAN] /\ ~runtime.enabled
    BY DEF Init, Maybe
  <2>3. head \in [Event -> Nat] /\ floor \in [Event -> Nat] /\ \A e \in Event : floor[e] <= head[e] /\ head[e] <= MaxAction[e]
    BY LANAssumption DEF Init
  <2> QED
    BY <2>1, <2>2, <2>3 DEF Init, TypeOK, Maybe
<1>2. PeersBounded
  <2> SUFFICES ASSUME NEW e \in Event
               PROVE  Cardinality(ActiveConns(e)) <= MaxPeers
    BY DEF PeersBounded
  <2>1. ActiveConns(e) = {}
    BY DEF Init, ActiveConns, Conn
  <2> QED
    BY <2>1, FS_EmptySet, LANAssumption
<1>3. ArchiveInv /\ OwnerInv /\ CopyInv /\ ReachInv
  BY DEF Init, ArchiveInv, OwnerInv, CopyInv, CopyComplete, ReachInv
<1> QED
  BY <1>1, <1>2, <1>3 DEF IInv

\* Starting, stopping and restarting the server leave connections, copies and
\* feeds alone, and make no request (Server.start, shutdown, Resume).
LEMMA ServerInv ==
    ASSUME IInv,
           \/ \E e \in Event : Start(e)
           \/ StopBegin \/ StopEnd \/ StopFails \/ ServeFails
           \/ \E ok \in BOOLEAN : Restart(ok)
    PROVE  IInv'
<1>1. /\ UNCHANGED <<conn, head, floor, tablet, copy>>
      /\ compacting' \in {compacting, None}
      /\ stopping' \in {stopping, TRUE, FALSE}
  BY DEF Start, StopBegin, StopEnd, StopFails, ServeFails, Restart, feedVars, tabletVars
<1>2. /\ request' \in [Tablet -> Maybe(Asked)]
      /\ \A t \in Tablet : request'[t] # None =>
            request[t] # None /\ request'[t].kind = request[t].kind /\ request'[t].conn = request[t].conn
  <2>1. CASE request' = request
    BY <2>1 DEF IInv, TypeOK
  <2>2. CASE request' = [t \in Tablet |-> None]
    BY <2>2 DEF Maybe
  <2>3. CASE StopBegin
    <3>1. \A t \in Tablet : request'[t] = IF request[t] = None THEN None ELSE [request[t] EXCEPT !.waited = TRUE]
      BY <2>3 DEF StopBegin
    <3>2. \A t \in Tablet : request[t] # None => request[t] \in Asked
      BY DEF IInv, TypeOK, Maybe
    <3>3. \A t \in Tablet : request[t] # None =>
              request'[t] \in Asked /\ request'[t].kind = request[t].kind /\ request'[t].conn = request[t].conn
      BY <3>1, <3>2, AskedWaited
    <3>4. \A t \in Tablet : request[t] = None => request'[t] = None
      BY <3>1
    <3>5. request' = [t \in Tablet |-> request'[t]]
      BY <2>3 DEF StopBegin
    <3> QED
      BY <3>3, <3>4, <3>5 DEF Maybe
  <2> QED
    BY <2>1, <2>2, <2>3 DEF Start, StopEnd, StopFails, ServeFails, Restart, tabletVars
<1>3. /\ running' \in Maybe(Event)
      /\ runtime' \in [event : Maybe(Event), enabled : BOOLEAN]
      /\ runtime'.enabled => runtime'.event # None
  <2>1. /\ running \in Maybe(Event) /\ runtime \in [event : Maybe(Event), enabled : BOOLEAN]
        /\ runtime.enabled => runtime.event # None
    BY DEF IInv, TypeOK
  <2>2. CASE \E e \in Event : Start(e)
    BY <2>2, LANAssumption DEF Start, Maybe
  <2>3. CASE StopEnd
    BY <2>1, <2>3 DEF StopEnd
  <2>4. CASE StopBegin \/ StopFails \/ ServeFails
    BY <2>1, <2>4 DEF StopBegin, StopFails, ServeFails, Maybe
  <2>5. CASE \E ok \in BOOLEAN : Restart(ok)
    BY <2>1, <2>5 DEF Restart, Maybe
  <2> QED
    BY <2>2, <2>3, <2>4, <2>5
<1>4. TypeOK'
  BY <1>1, <1>2, <1>3 DEF IInv, TypeOK, Conn, Maybe
<1>5. PeersBounded'
  BY <1>1 DEF IInv, PeersBounded, ActiveConns, Active, Conn
<1>6. ArchiveInv'
  BY <1>1 DEF IInv, ArchiveInv
<1>7. OwnerInv' /\ CopyInv' /\ (MaxConn <= ListLimit => ReachInv')
  <2>1. head' \in [Event -> Nat] /\ \A e \in Event : head[e] <= head'[e]
    BY <1>1 DEF IInv, TypeOK
  <2> QED
    BY <1>1, <1>2, <2>1, Kept
<1> QED
  BY <1>4, <1>5, <1>6, <1>7 DEF IInv

\* The type invariant where only a row of packet_lan_connections changes.
LEMMA ConnType ==
    ASSUME IInv, conn' \in Seq(Connection), Len(conn') <= MaxConn, Conn \subseteq Conn',
           tablet' \in [Tablet -> Maybe(Conn')],
           UNCHANGED <<serverVars, feedVars, copy, request>>
    PROVE  TypeOK' /\ ArchiveInv'
<1>1. TypeOK'
  BY DEF IInv, TypeOK, serverVars, feedVars
<1>2. ArchiveInv'
  BY DEF IInv, ArchiveInv, feedVars
<1> QED
  BY <1>1, <1>2

\* A new invitation counts as one more, below the limit (CreateLANInvitation).
LEMMA CreateInvitationInv == ASSUME IInv, NEW e \in Event, CreateInvitation(e) PROVE IInv'
<1> DEFINE new == [event |-> e, owner |-> None, state |-> "open"]
<1>1. /\ Len(conn) < MaxConn /\ Cardinality(ActiveConns(e)) < MaxPeers
      /\ conn' = Append(conn, new)
      /\ UNCHANGED <<serverVars, feedVars, tabletVars>>
  BY DEF CreateInvitation
<1>2. new \in Connection
  BY DEF Connection, Maybe, States
<1> HIDE DEF new
<1>3. /\ conn \in Seq(Connection) /\ Len(conn) \in Nat /\ Conn = 1 .. Len(conn)
      /\ MaxConn \in Nat /\ MaxPeers \in Nat
  BY Conns, LANAssumption DEF IInv, TypeOK
<1>4. conn' \in Seq(Connection) /\ Len(conn') = Len(conn) + 1
  BY <1>1, <1>2, <1>3
<1>5. /\ \A c \in Conn : conn'[c] = conn[c]
      /\ Conn' = Conn \cup {Len(conn) + 1} /\ Len(conn) + 1 \notin Conn
  BY <1>1, <1>3, <1>4 DEF Conn
<1>6. TypeOK' /\ ArchiveInv'
  <2>1. tablet' \in [Tablet -> Maybe(Conn')]
    BY <1>1, <1>5 DEF IInv, TypeOK, Maybe, tabletVars
  <2>2. Len(conn') <= MaxConn /\ Conn \subseteq Conn'
    BY <1>1, <1>3, <1>4, <1>5
  <2>3. UNCHANGED <<serverVars, feedVars, copy, request>>
    BY <1>1 DEF tabletVars
  <2> QED
    BY <1>4, <2>1, <2>2, <2>3, ConnType, Zenon
<1>7. PeersBounded'
  <2> SUFFICES ASSUME NEW a \in Event
               PROVE  Cardinality(ActiveConns(a)') <= MaxPeers
    BY DEF PeersBounded
  <2>1. Cardinality(ActiveConns(a)) <= MaxPeers
    BY DEF IInv, PeersBounded
  <2>2. IsFiniteSet(ActiveConns(a))
    <3>1. IsFiniteSet(Conn) /\ ActiveConns(a) \subseteq Conn
      BY <1>3, FS_Interval DEF ActiveConns
    <3> QED
      BY <3>1, FS_Subset
  <2>3. Cardinality(ActiveConns(a)) \in Nat
    BY <2>2, FS_CardinalityType
  <2>4. CASE a = e
    <3>1. ActiveConns(a)' \subseteq ActiveConns(a) \cup {Len(conn) + 1}
      BY <1>5 DEF ActiveConns, Active
    <3>2. /\ IsFiniteSet(ActiveConns(a) \cup {Len(conn) + 1})
          /\ Cardinality(ActiveConns(a) \cup {Len(conn) + 1}) <= Cardinality(ActiveConns(a)) + 1
          /\ Cardinality(ActiveConns(a) \cup {Len(conn) + 1}) \in Nat
      <4>1. /\ IsFiniteSet(ActiveConns(a) \cup {Len(conn) + 1})
            /\ Cardinality(ActiveConns(a) \cup {Len(conn) + 1}) =
                  IF Len(conn) + 1 \in ActiveConns(a) THEN Cardinality(ActiveConns(a))
                                                      ELSE Cardinality(ActiveConns(a)) + 1
        BY <2>2, FS_AddElement, Zenon
      <4> QED
        BY <2>3, <4>1
    <3>3. /\ Cardinality(ActiveConns(a)') <= Cardinality(ActiveConns(a) \cup {Len(conn) + 1})
          /\ Cardinality(ActiveConns(a)') \in Nat
      BY <3>1, <3>2, FS_Subset, FS_CardinalityType
    <3> QED
      BY <1>1, <1>3, <2>3, <2>4, <3>2, <3>3
  <2>5. CASE a # e
    <3>1. conn'[Len(conn) + 1].event = e
      <4>1. conn'[Len(conn) + 1] = new
        BY <1>1, <1>2, <1>3
      <4> QED BY <4>1 DEF new
    <3>2. ActiveConns(a)' = ActiveConns(a)
      BY <1>5, <2>5, <3>1 DEF ActiveConns, Active
    <3> QED
      BY <2>1, <3>2
  <2> QED
    BY <2>4, <2>5
<1>8. OwnerInv' /\ CopyInv' /\ (MaxConn <= ListLimit => ReachInv')
  <2>1. head' = head /\ floor' = floor /\ compacting' = compacting /\ tablet' = tablet /\ copy' = copy /\ request' = request
    BY <1>1 DEF feedVars, tabletVars
  <2>2. head' \in [Event -> Nat] /\ \A a \in Event : head[a] <= head'[a]
    BY <2>1 DEF IInv, TypeOK
  <2> QED
    BY <1>5, <2>1, <2>2, Kept
<1> QED
  BY <1>6, <1>7, <1>8 DEF IInv

\* The expiry of an invitation, the end of a connection and a claim change one
\* row; none of them brings a connection back (ClaimLAN, RevokeLAN).
LEMMA RowInv ==
    ASSUME IInv, NEW c \in Conn,
           \/ InvitationExpires(c) \/ End(c)
           \/ \E t \in Tablet, answered \in BOOLEAN : Claim(t, c, answered)
    PROVE  IInv'
<1>1. conn \in Seq(Connection) /\ conn[c] \in Connection /\ Len(conn) <= MaxConn
  BY Conns DEF IInv, TypeOK
<1>2. /\ UNCHANGED <<serverVars, feedVars, copy, request>>
      /\ head' = head /\ floor' = floor /\ compacting' = compacting
  BY DEF InvitationExpires, End, Claim, feedVars, tabletVars
<1>3. PICK r \in Connection :
          /\ conn' = [conn EXCEPT ![c] = r]
          /\ r.event = conn[c].event
          /\ conn[c].owner # None => r.owner = conn[c].owner
          /\ conn[c].state = "ended" => r.state = "ended"
          /\ (r.state = "open" \/ (r.state = "claimed only" /\ r.owner # None)) => Active(c)
          /\ tablet' # tablet =>
                \E t \in Tablet : r.owner = t /\ tablet' = [tablet EXCEPT ![t] = c]
  <2>1. CASE InvitationExpires(c)
    <3> DEFINE r == [conn[c] EXCEPT !.state = "claimed only"]
    <3>1. conn[c].state = "open" /\ tablet' = tablet
      BY <2>1 DEF InvitationExpires, tabletVars
    <3>2. conn' = [conn EXCEPT ![c] = r]
      BY <2>1 DEF InvitationExpires
    <3>3. r \in Connection /\ r.event = conn[c].event /\ r.owner = conn[c].owner /\ r.state = "claimed only"
      BY <1>1 DEF Connection, States
    <3> HIDE DEF r
    <3> QED BY <3>1, <3>2, <3>3 DEF Active
  <2>2. CASE End(c)
    <3> DEFINE r == [conn[c] EXCEPT !.state = "ended"]
    <3>1. tablet' = tablet
      BY <2>2 DEF End, tabletVars
    <3>2. conn' = [conn EXCEPT ![c] = r]
      BY <2>2 DEF End
    <3>3. r \in Connection /\ r.event = conn[c].event /\ r.owner = conn[c].owner /\ r.state = "ended"
      BY <1>1 DEF Connection, States
    <3> HIDE DEF r
    <3> QED BY <3>1, <3>2, <3>3
  <2>3. CASE \E t \in Tablet, answered \in BOOLEAN : Claim(t, c, answered)
    <3>1. PICK t \in Tablet : \E answered \in BOOLEAN : Claim(t, c, answered)
      BY <2>3
    <3> DEFINE r == [conn[c] EXCEPT !.owner = t]
    <3>2. /\ Claimable(t, c) /\ conn' = [conn EXCEPT ![c] = r]
          /\ tablet' \in {tablet, [tablet EXCEPT ![t] = c]}
      BY <3>1 DEF Claim
    <3>3. r \in Connection /\ r.event = conn[c].event /\ r.owner = t /\ r.state = conn[c].state
      BY <1>1 DEF Connection, Maybe
    <3>4. None \notin Tablet
      BY LANAssumption
    <3> HIDE DEF r
    <3>5. /\ conn[c].owner # None => conn[c].owner = t
          /\ (r.state = "open" \/ (r.state = "claimed only" /\ r.owner # None)) => Active(c)
      BY <3>2, <3>3, <3>4 DEF Claimable, Active
    <3> QED BY <3>2, <3>3, <3>5
  <2> QED
    BY <2>1, <2>2, <2>3
<1>4. /\ conn' \in Seq(Connection) /\ Len(conn') = Len(conn) /\ Conn' = Conn
      /\ conn'[c] = r /\ \A d \in Conn \ {c} : conn'[d] = conn[d]
  BY <1>3, ConnChanged DEF IInv
<1>5. TypeOK' /\ ArchiveInv'
  <2>1. tablet' \in [Tablet -> Maybe(Conn')]
    BY <1>3, <1>4 DEF IInv, TypeOK, Maybe
  <2> QED
    BY <1>1, <1>2, <1>4, <2>1, ConnType
<1>6. PeersBounded'
  <2>1. \A d \in Conn : conn'[d].event = conn[d].event /\ (Active(d)' => Active(d))
    <3> TAKE d \in Conn
    <3>1. CASE d = c
      BY <1>3, <1>4, <3>1 DEF Active
    <3>2. CASE d # c
      BY <1>4, <3>2 DEF Active
    <3> QED BY <3>1, <3>2
  <2> QED
    BY <1>4, <2>1, PeersKept
<1>7. OwnerInv' /\ CopyInv' /\ (MaxConn <= ListLimit => ReachInv')
  <2>1. head' \in [Event -> Nat] /\ \A a \in Event : head[a] <= head'[a]
    BY <1>2 DEF IInv, TypeOK
  <2>2. \A d \in Conn : /\ conn'[d].event = conn[d].event
                        /\ conn[d].owner # None => conn'[d].owner = conn[d].owner
                        /\ conn[d].state = "ended" => conn'[d].state = "ended"
    BY <1>3, <1>4
  <2>3. \A t \in Tablet : tablet'[t] # None => tablet'[t] = tablet[t] \/ conn'[tablet'[t]].owner = t
    BY <1>3, <1>4 DEF IInv, TypeOK
  <2> QED
    BY <1>2, <2>1, <2>2, <2>3, Kept
<1> QED
  BY <1>5, <1>6, <1>7 DEF IInv

\* The parts that speak of connections alone, where none changes.
LEMMA PeersSame == ASSUME IInv, UNCHANGED conn PROVE PeersBounded'
BY DEF IInv, PeersBounded, ActiveConns, Active, Conn

\* A request is made by the tablet that owns its connection, and for the feed
\* only with a copy of that event (authenticate).
LEMMA RequestInv == ASSUME IInv, NEW t \in Tablet, NEW kind \in Kinds, Request(t, kind) PROVE IInv'
<1> DEFINE new == [kind |-> kind, conn |-> tablet[t], waited |-> FALSE]
<1>1. /\ Authenticated(t, tablet[t])
      /\ kind = "feed" => Follows(t)
      /\ request' = [request EXCEPT ![t] = new]
      /\ UNCHANGED <<serverVars, conn, feedVars, tablet, copy>>
  BY DEF Request
<1>2. tablet[t] \in Conn /\ tablet[t] \in 1 .. MaxConn /\ conn[tablet[t]].owner = t
  BY <1>1, Conns DEF IInv, TypeOK, Maybe, Authenticated
<1>3. new \in Asked /\ new.kind = kind /\ new.conn = tablet[t]
  BY <1>2 DEF Asked
<1> HIDE DEF new
<1>4. request' \in [Tablet -> Maybe(Asked)] /\ request'[t] = new /\ \A u \in Tablet \ {t} : request'[u] = request[u]
  BY <1>1, <1>3 DEF IInv, TypeOK, Maybe
<1>5. TypeOK'
  BY <1>1, <1>2, <1>3, <1>4 DEF IInv, TypeOK, Conn, serverVars, feedVars
<1>6. PeersBounded' /\ ArchiveInv'
  BY <1>1, PeersSame DEF IInv, ArchiveInv, feedVars
<1>7. OwnerInv'
  BY <1>1, <1>2, <1>3, <1>4 DEF IInv, OwnerInv
<1>8. CopyInv'
  <2>1. CopyComplete'
    BY <1>1 DEF IInv, CopyInv, CopyComplete, feedVars
  <2>2. kind = "feed" => copy[t] # None /\ copy[t].event = conn[tablet[t]].event
    BY <1>1 DEF Follows, HasCopy
  <2> QED
    BY <1>1, <1>3, <1>4, <2>1, <2>2 DEF IInv, CopyInv
<1>9. ReachInv => ReachInv'
  BY <1>1 DEF ReachInv, feedVars
<1> QED
  BY <1>5, <1>6, <1>7, <1>8, <1>9 DEF IInv

\* The head of a feed moves on by one (PublishPacketActions).
LEMMA PublishedHead ==
    ASSUME IInv, NEW e \in Event, Published(e)
    PROVE  /\ head' \in [Event -> Nat] /\ \A a \in Event : head[a] <= head'[a]
           /\ \A a \in Event : floor[a] <= head'[a] /\ head'[a] <= MaxAction[a]
           /\ floor' = floor /\ compacting' = compacting
           /\ ArchiveInv'
<1>1. /\ head[e] < MaxAction[e] /\ head' = [head EXCEPT ![e] = head[e] + 1]
      /\ compacting # None /\ compacting.event = e => head[e] < compacting.head + Keep
      /\ floor' = floor /\ compacting' = compacting
  BY DEF Published
<1>2. /\ head \in [Event -> Nat] /\ floor \in [Event -> Nat] /\ MaxAction \in [Event -> Nat] /\ Keep \in Nat
      /\ \A a \in Event : floor[a] <= head[a] /\ head[a] <= MaxAction[a]
      /\ compacting # None => compacting.event \in Event /\ compacting.head \in Nat
  BY LANAssumption DEF IInv, TypeOK, Maybe
<1>3. /\ head' \in [Event -> Nat] /\ head'[e] = head[e] + 1
      /\ \A a \in Event \ {e} : head'[a] = head[a]
  BY <1>1, <1>2
<1>4. \A a \in Event : head[a] <= head'[a] /\ floor[a] <= head'[a] /\ head'[a] <= MaxAction[a]
  <2> TAKE a \in Event
  <2>1. head[a] \in Nat /\ floor[a] \in Nat /\ MaxAction[a] \in Nat /\ floor[a] <= head[a] /\ head[a] <= MaxAction[a]
    BY <1>2
  <2>2. CASE a = e
    BY <1>1, <1>3, <2>1, <2>2
  <2>3. CASE a # e
    BY <1>3, <2>1, <2>3
  <2> QED BY <2>2, <2>3
<1>5. ArchiveInv'
  <2> SUFFICES ASSUME compacting # None
               PROVE  /\ compacting.head <= head'[compacting.event]
                      /\ head'[compacting.event] <= compacting.head + Keep
    BY <1>1 DEF ArchiveInv
  <2>1. /\ compacting.head <= head[compacting.event] /\ head[compacting.event] <= compacting.head + Keep
        /\ compacting.event \in Event /\ compacting.head \in Nat /\ head[compacting.event] \in Nat
    BY <1>2 DEF IInv, ArchiveInv
  <2>2. CASE compacting.event = e
    BY <1>1, <1>2, <1>3, <2>1, <2>2
  <2>3. CASE compacting.event # e
    BY <1>3, <2>1, <2>3
  <2> QED BY <2>2, <2>3
<1> QED
  BY <1>1, <1>3, <1>4, <1>5

\* An edit at the Desk, the operations of a tablet, and a request that stays
\* unanswered (handleOperations).
LEMMA PublishInv ==
    ASSUME IInv,
           \/ \E e \in Event : DeskEdit(e)
           \/ \E t \in Reader : Operations(t) \/ Unanswered(t)
    PROVE  IInv'
<1>1. UNCHANGED <<serverVars, conn, tablet, copy>>
  BY DEF DeskEdit, Operations, Unanswered, tabletVars
<1>2. (\E e \in Event : Published(e)) \/ UNCHANGED feedVars
  <2>1. \A t \in Tablet : request[t] # None => conn[request[t].conn].event \in Event
    BY Conns DEF IInv, TypeOK, Connection
  <2> QED
    BY <2>1, LANAssumption DEF DeskEdit, Operations, Unanswered
<1>3. request' = request \/ \E t \in Reader : request' = [request EXCEPT ![t] = None]
  BY DEF DeskEdit, Operations, Unanswered, tabletVars
<1>4. /\ request' \in [Tablet -> Maybe(Asked)]
      /\ \A t \in Tablet : request'[t] # None => request'[t] = request[t]
  BY <1>3, LANAssumption DEF IInv, TypeOK, Maybe
<1>5. /\ head' \in [Event -> Nat] /\ \A a \in Event : head[a] <= head'[a]
      /\ \A a \in Event : floor[a] <= head'[a] /\ head'[a] <= MaxAction[a]
      /\ floor' = floor /\ compacting' = compacting
      /\ ArchiveInv'
  <2>1. CASE \E e \in Event : Published(e)
    BY <2>1, PublishedHead
  <2>2. CASE UNCHANGED feedVars
    BY <2>2 DEF IInv, TypeOK, ArchiveInv, feedVars
  <2> QED BY <1>2, <2>1, <2>2
<1>6. TypeOK'
  BY <1>1, <1>4, <1>5 DEF IInv, TypeOK, Conn, serverVars
<1>7. OwnerInv' /\ CopyInv' /\ (MaxConn <= ListLimit => ReachInv')
  BY <1>1, <1>4, <1>5, Kept
<1> QED
  BY <1>1, <1>5, <1>6, <1>7, PeersSame DEF IInv

\* The copy of one tablet changes, and its request is answered: what has to be
\* shown of the new copy.
LEMMA CopyChanged ==
    ASSUME IInv, NEW t \in Tablet, NEW new \in Copy,
           copy' = [copy EXCEPT ![t] = new],
           request' = [request EXCEPT ![t] = None],
           UNCHANGED <<serverVars, conn, feedVars, tablet>>,
           new.via \in Conn, conn[new.via].owner = t, conn[new.via].event = new.event,
           new.known = 1 .. new.cursor, new.cursor <= head[new.event],
           (MaxConn <= ListLimit /\ conn[new.via].state # "ended") =>
               /\ new.cursor >= floor[new.event]
               /\ compacting # None /\ compacting.event = new.event => new.cursor >= compacting.head
    PROVE  IInv'
<1>1. /\ copy' \in [Tablet -> Maybe(Copy)] /\ copy'[t] = new
      /\ \A u \in Tablet \ {t} : copy'[u] = copy[u]
  BY DEF IInv, TypeOK, Maybe
<1>2. /\ request' \in [Tablet -> Maybe(Asked)] /\ request'[t] = None
      /\ \A u \in Tablet \ {t} : request'[u] = request[u]
  BY DEF IInv, TypeOK, Maybe
<1>3. head' = head /\ floor' = floor /\ compacting' = compacting /\ tablet' = tablet /\ conn' = conn /\ Conn' = Conn
  BY DEF feedVars, Conn
<1>4. TypeOK'
  BY <1>1, <1>2, <1>3 DEF IInv, TypeOK, serverVars
<1>5. PeersBounded' /\ ArchiveInv'
  BY <1>3, PeersSame DEF IInv, ArchiveInv
<1>6. OwnerInv'
  BY <1>1, <1>2, <1>3 DEF IInv, OwnerInv
<1>7. CopyInv'
  <2>1. CopyComplete'
    BY <1>1, <1>3 DEF IInv, CopyInv, CopyComplete
  <2> QED
    BY <1>1, <1>2, <1>3, <2>1 DEF IInv, CopyInv
<1>8. ASSUME MaxConn <= ListLimit PROVE ReachInv'
  BY <1>1, <1>3, <1>8 DEF IInv, ReachInv
<1> QED
  BY <1>4, <1>5, <1>6, <1>7, <1>8 DEF IInv

\* A bootstrap hands out the whole feed (PacketIssuanceBootstrap).
LEMMA BootstrapInv == ASSUME IInv, NEW t \in Tablet, Bootstrap(t) PROVE IInv'
<1> DEFINE c == request[t].conn
           e == conn[c].event
           new == [event |-> e, cursor |-> head[e], known |-> 1 .. head[e], expired |-> FALSE, via |-> c]
<1>1. /\ request[t] # None
      /\ copy' = [copy EXCEPT ![t] = new]
      /\ request' = [request EXCEPT ![t] = None]
      /\ UNCHANGED <<serverVars, conn, feedVars, tablet>>
  BY DEF Bootstrap
<1>2. c \in Conn /\ c \in 1 .. MaxConn /\ e \in Event /\ conn[c].owner = t
  BY <1>1, Conns DEF IInv, TypeOK, OwnerInv, Connection
<1>3. head[e] \in Nat /\ floor[e] \in Nat /\ floor[e] <= head[e]
  BY <1>2 DEF IInv, TypeOK
<1>4. compacting # None /\ compacting.event = e => compacting.head <= head[e] /\ compacting.head \in Nat
  BY DEF IInv, ArchiveInv, TypeOK, Maybe
<1>5. /\ new \in Copy /\ new.via = c /\ new.event = e /\ new.cursor = head[e]
      /\ new.known = 1 .. head[e]
  <2> HIDE DEF c, e
  <2> QED BY <1>2, <1>3 DEF Copy
<1> HIDE DEF new
<1>6. /\ new.via \in Conn /\ conn[new.via].owner = t /\ conn[new.via].event = new.event
      /\ new.known = 1 .. new.cursor /\ new.cursor <= head[new.event]
      /\ new.cursor >= floor[new.event]
      /\ compacting # None /\ compacting.event = new.event => new.cursor >= compacting.head
  <2> HIDE DEF c
  <2> QED BY <1>2, <1>3, <1>4, <1>5
<1> QED
  BY <1>1, <1>5, <1>6, CopyChanged

\* A page that follows the cursor without a gap begins right after it and ends at
\* its greatest number (ListPacketFeedRows, PacketIssuanceFeedPage).
LEMMA PageContiguous ==
    ASSUME IInv, NEW e \in Event, NEW after \in Nat, after + 1 \in Rows(e, after)
    PROVE  LET last == Max(Rows(e, after))
           IN  /\ last \in Nat /\ after < last /\ last <= head[e]
               /\ Rows(e, after) = after + 1 .. last
<1> DEFINE there == {n \in floor[e] + 1 .. head[e] : n > after}
           below(n) == {m \in there : m < n}
           rows == Rows(e, after)
<1>1. head[e] \in Nat /\ floor[e] \in Nat /\ PageLimit \in Nat
  BY LANAssumption DEF IInv, TypeOK
<1>2. rows = {n \in there : Cardinality(below(n)) < PageLimit}
  BY DEF Rows
<1>3. there \subseteq Nat /\ \A n \in there : after < n /\ n <= head[e]
  BY <1>1
<1>4. there = after + 1 .. head[e]
  <2>1. after + 1 \in there
    BY <1>2
  <2> QED BY <1>1, <2>1
<1>5. IsFiniteSet(there)
  <2>1. IsFiniteSet(after + 1 .. head[e])
    <3>1. after + 1 \in Int /\ head[e] \in Int
      BY <1>1
    <3> QED BY <3>1, FS_Interval, Zenon
  <2> HIDE DEF there
  <2> QED BY <1>4, <2>1
<1>6. ASSUME NEW n \in rows, NEW m \in there, m <= n PROVE m \in rows
  <2>1. n \in there /\ Cardinality(below(n)) < PageLimit
    BY <1>2
  <2>2. below(m) \subseteq below(n) /\ below(n) \subseteq there
    BY <1>3, <1>6, <2>1
  <2>3. IsFiniteSet(below(n)) /\ IsFiniteSet(below(m)) /\ Cardinality(below(m)) <= Cardinality(below(n))
    BY <1>5, <2>2, FS_Subset
  <2>4. Cardinality(below(n)) \in Nat /\ Cardinality(below(m)) \in Nat
    BY <2>3, FS_CardinalityType
  <2>5. Cardinality(below(m)) < PageLimit
    BY <1>1, <2>1, <2>3, <2>4
  <2> QED
    BY <1>2, <2>5
<1>7. rows \subseteq there
  BY <1>2
<1> HIDE DEF there, below, rows
<1>8. rows \in SUBSET Nat /\ rows # {} /\ \A n \in rows : n <= head[e]
  BY <1>3, <1>7 DEF rows
<1>9. Max(rows) \in rows /\ \A n \in rows : n <= Max(rows)
  BY <1>1, <1>8, GreatestNat
<1>10. Max(rows) \in Nat /\ after < Max(rows) /\ Max(rows) <= head[e]
  BY <1>3, <1>7, <1>9
<1>11. rows = after + 1 .. Max(rows)
  <2>1. ASSUME NEW m \in after + 1 .. Max(rows) PROVE m \in rows
    <3>1. m \in there /\ m <= Max(rows)
      BY <1>1, <1>4, <1>10
    <3> QED BY <1>6, <1>9, <3>1
  <2>2. ASSUME NEW m \in rows PROVE m \in after + 1 .. Max(rows)
    BY <1>3, <1>7, <1>9, <1>10
  <2> QED BY <2>1, <2>2
<1> QED
  BY <1>10, <1>11 DEF rows

\* A copy that has expired is otherwise as it was.
LEMMA CopyExpired ==
    ASSUME NEW p \in Copy
    PROVE  LET new == [p EXCEPT !.expired = TRUE]
           IN  /\ new \in Copy /\ new.event = p.event /\ new.cursor = p.cursor
               /\ new.known = p.known /\ new.via = p.via
BY DEF Copy

\* One that continues has the rows of its page.
Continued(p, n, R) == [p EXCEPT !.cursor = n, !.known = p.known \cup R]

\* It keeps its event and connection and has the rows beside what it knew (handleFeed).
LEMMA CopyContinued ==
    ASSUME NEW p \in Copy, NEW n \in Nat, NEW R \in SUBSET Nat
    PROVE  /\ Continued(p, n, R) \in Copy
           /\ Continued(p, n, R).event = p.event /\ Continued(p, n, R).cursor = n
           /\ Continued(p, n, R).known = p.known \cup R /\ Continued(p, n, R).via = p.via
BY DEF Copy, Continued

\* A page of the feed leaves no gap (PacketIssuanceFeedPage).
LEMMA FeedInv == ASSUME IInv, NEW t \in Tablet, Feed(t) PROVE IInv'
<1> DEFINE e == conn[request[t].conn].event
           p == copy[t]
           rows == Rows(e, p.cursor)
           new == IF CursorExpired(e, p.cursor) THEN [p EXCEPT !.expired = TRUE]
                  ELSE IF Gap(rows, p.cursor) \/ rows = {} THEN p
                  ELSE Continued(p, NextCursor(e, rows), rows)
<1>1. /\ request[t] # None /\ request[t].kind = "feed"
      /\ copy' = [copy EXCEPT ![t] = new]
      /\ request' = [request EXCEPT ![t] = None]
      /\ UNCHANGED <<serverVars, conn, feedVars, tablet>>
  BY Zenon DEF Feed, Continued
<1>2. /\ p # None /\ p \in Copy /\ p.event = e
      /\ p.via \in Conn /\ conn[p.via].owner = t /\ conn[p.via].event = p.event
      /\ p.known = 1 .. p.cursor /\ p.cursor <= head[e]
  BY <1>1 DEF IInv, TypeOK, Maybe, OwnerInv, CopyInv, CopyComplete
<1>3. p.cursor \in Nat /\ e \in Event
  BY <1>2 DEF Copy
<1>4. head[e] \in Nat /\ floor[e] \in Nat /\ (compacting # None => compacting.head \in Nat)
  BY <1>3 DEF IInv, TypeOK, Maybe
<1>5. (MaxConn <= ListLimit /\ conn[p.via].state # "ended") =>
          /\ p.cursor >= floor[e]
          /\ compacting # None /\ compacting.event = e => p.cursor >= compacting.head
  BY <1>2 DEF IInv, ReachInv
<1> HIDE DEF e, p
<1>6. /\ new \in Copy /\ new.via = p.via /\ new.event = e
      /\ new.known = 1 .. new.cursor /\ new.cursor <= head[e] /\ p.cursor <= new.cursor /\ new.cursor \in Nat
  <2>1. CASE CursorExpired(e, p.cursor)
    <3>1. new = [p EXCEPT !.expired = TRUE]
      BY <2>1
    <3> HIDE DEF new
    <3>2. new \in Copy /\ new.event = p.event /\ new.cursor = p.cursor /\ new.known = p.known /\ new.via = p.via
      BY <1>2, <3>1, CopyExpired
    <3> QED BY <1>2, <1>3, <3>2
  <2>2. CASE ~CursorExpired(e, p.cursor) /\ (Gap(rows, p.cursor) \/ rows = {})
    <3>1. new = p
      BY <2>2
    <3> HIDE DEF new
    <3> QED BY <1>2, <1>3, <3>1
  <2>3. CASE ~CursorExpired(e, p.cursor) /\ ~(Gap(rows, p.cursor) \/ rows = {})
    <3>1. new = Continued(p, Max(rows), rows)
      BY <2>3 DEF NextCursor
    <3>2. p.cursor + 1 \in rows
      BY <2>3 DEF Gap
    <3>3. /\ Max(rows) \in Nat /\ p.cursor < Max(rows) /\ Max(rows) <= head[e]
          /\ rows = p.cursor + 1 .. Max(rows)
      BY <1>3, <3>2, PageContiguous
    <3> HIDE DEF new, rows
    <3>4. rows \in SUBSET Nat
      BY <1>3, <3>3
    <3>5. /\ new \in Copy /\ new.event = p.event /\ new.cursor = Max(rows)
          /\ new.known = p.known \cup rows /\ new.via = p.via
      <4>1. PICK n \in Nat : n = Max(rows)
        BY <3>3
      <4>2. p \in Copy /\ new = Continued(p, n, rows)
        BY <1>2, <3>1, <4>1
      <4>3. /\ Continued(p, n, rows) \in Copy
            /\ Continued(p, n, rows).event = p.event /\ Continued(p, n, rows).cursor = n
            /\ Continued(p, n, rows).known = p.known \cup rows /\ Continued(p, n, rows).via = p.via
        BY <3>4, <4>2, CopyContinued
      <4> QED BY <4>1, <4>2, <4>3
    <3>6. p.known \cup rows = 1 .. Max(rows)
      BY <1>2, <1>3, <3>3
    <3> QED BY <1>2, <1>3, <3>3, <3>5, <3>6
  <2> QED BY <2>1, <2>2, <2>3
<1> HIDE DEF new
<1>7. (MaxConn <= ListLimit /\ conn[new.via].state # "ended") =>
          /\ new.cursor >= floor[new.event]
          /\ compacting # None /\ compacting.event = new.event => new.cursor >= compacting.head
  BY <1>3, <1>4, <1>5, <1>6
<1> QED
  BY <1>1, <1>2, <1>6, <1>7, CopyChanged

\* The check of an archiving finds no active connection of the event, hence no
\* copy of it that may go on (Server.Compact).
LEMMA CompactCheckInv == ASSUME IInv, NEW e \in Event, CompactCheck(e) PROVE IInv'
<1> DEFINE new == [event |-> e, head |-> head[e]]
<1>1. /\ Archivable(e) /\ compacting' = new
      /\ UNCHANGED <<serverVars, conn, head, floor, tabletVars>>
  BY DEF CompactCheck
<1>2. head[e] \in Nat /\ Keep \in Nat /\ ListLimit \in Nat /\ MaxConn \in Nat
  BY LANAssumption DEF IInv, TypeOK
<1>3. new \in [event : Event, head : Nat] /\ new.event = e /\ new.head = head[e]
  BY <1>2
<1> HIDE DEF new
<1>4. TypeOK'
  BY <1>1, <1>3 DEF IInv, TypeOK, Maybe, Conn, serverVars, tabletVars
<1>5. PeersBounded'
  BY <1>1, PeersSame
<1>6. ArchiveInv'
  BY <1>1, <1>2, <1>3 DEF ArchiveInv
<1>7. OwnerInv' /\ CopyInv'
  BY <1>1 DEF IInv, OwnerInv, CopyInv, CopyComplete, tabletVars
<1>8. ASSUME MaxConn <= ListLimit PROVE ReachInv'
  <2>1. /\ Len(conn) \in Nat /\ Conn = 1 .. Len(conn) /\ Len(conn) <= MaxConn
        /\ \A c \in Conn : conn[c] \in Connection
    BY Conns DEF IInv, TypeOK
  <2>2. ASSUME NEW c \in Conn, conn[c].event = e PROVE ~Active(c)
    <3> DEFINE later == {d \in Conn : d > c /\ conn[d].event = e}
    <3>1. IsFiniteSet(Conn) /\ Cardinality(Conn) = Len(conn)
      BY <2>1, FS_Interval
    <3>2. later \subseteq Conn /\ c \notin later
      BY <2>1
    <3>3. Cardinality(later) <= Len(conn) /\ Cardinality(later) # Len(conn)
      BY <2>2, <3>1, <3>2, FS_Subset
    <3>4. Cardinality(later) \in Nat
      BY <3>1, <3>2, FS_Subset, FS_CardinalityType
    <3>5. Cardinality(later) < ListLimit
      BY <1>2, <1>8, <2>1, <3>3, <3>4
    <3>6. c \in Listed(e)
      BY <2>2, <3>5 DEF Listed
    <3> QED
      BY <1>1, <3>6 DEF Archivable
  <2>3. \A t \in Tablet : copy[t] # None =>
            /\ copy[t].via \in Conn /\ conn[copy[t].via].owner = t /\ conn[copy[t].via].event = copy[t].event
    BY DEF IInv, TypeOK, OwnerInv
  <2>4. \A c \in Conn : Active(c) \/ conn[c].state = "ended" \/ conn[c].owner = None
    BY <2>1 DEF Connection, States, Active
  <2>5. None \notin Tablet
    BY LANAssumption
  <2>6. \A t \in Tablet : copy[t] # None /\ copy[t].event = e => conn[copy[t].via].state = "ended"
    BY <2>2, <2>3, <2>4, <2>5
  <2> QED
    BY <1>1, <1>3, <1>8, <2>6 DEF IInv, ReachInv, tabletVars
<1> QED
  BY <1>4, <1>5, <1>6, <1>7, <1>8 DEF IInv

\* The transaction of an archiving takes nothing beyond the head its check has
\* seen (CompactPacketIssuanceFeed).
LEMMA CompactArchiveInv == ASSUME IInv, CompactArchive PROVE IInv'
<1> DEFINE e == compacting.event
<1>1. /\ compacting # None /\ compacting' = None
      /\ floor' = IF Through(e) > floor[e] THEN [floor EXCEPT ![e] = Through(e)] ELSE floor
      /\ UNCHANGED <<serverVars, conn, head, tabletVars>>
  BY DEF CompactArchive
<1>2. e \in Event /\ compacting.head \in Nat
  BY <1>1 DEF IInv, TypeOK, Maybe
<1>3. /\ head \in [Event -> Nat] /\ floor \in [Event -> Nat] /\ head[e] \in Nat /\ floor[e] \in Nat
      /\ Keep \in Nat /\ Batch \in Nat /\ \A a \in Event : floor[a] <= head[a]
  BY <1>2, LANAssumption DEF IInv, TypeOK
<1>4. head[e] <= compacting.head + Keep
  BY <1>1 DEF IInv, ArchiveInv
<1>5. Through(e) \in Int /\ Through(e) <= head[e] - Keep
  BY <1>3, MinOfTwo DEF Through
<1> HIDE DEF e
<1>6. /\ floor' \in [Event -> Nat]
      /\ \A a \in Event : floor'[a] = floor[a] \/ (a = e /\ floor'[a] = Through(e))
  BY <1>1, <1>2, <1>3, <1>5
<1>7. \A a \in Event : floor'[a] <= head[a]
  BY <1>3, <1>5, <1>6
<1>8. TypeOK'
  BY <1>1, <1>6, <1>7 DEF IInv, TypeOK, Maybe, Conn, serverVars, tabletVars
<1>9. PeersBounded' /\ ArchiveInv'
  BY <1>1, PeersSame DEF ArchiveInv
<1>10. OwnerInv' /\ CopyInv'
  BY <1>1 DEF IInv, OwnerInv, CopyInv, CopyComplete, tabletVars
<1>11. ASSUME MaxConn <= ListLimit PROVE ReachInv'
  <2> SUFFICES ASSUME NEW t \in Tablet, copy[t] # None, conn[copy[t].via].state # "ended"
               PROVE  copy[t].cursor >= floor'[copy[t].event]
    BY <1>1 DEF ReachInv, tabletVars
  <2>1. /\ copy[t].cursor >= floor[copy[t].event]
        /\ e = copy[t].event => copy[t].cursor >= compacting.head
    BY <1>1, <1>11 DEF IInv, ReachInv, e
  <2>2. copy[t].event \in Event /\ copy[t].cursor \in Nat
    BY DEF IInv, TypeOK, Maybe, Copy
  <2> QED
    BY <1>2, <1>3, <1>4, <1>5, <1>6, <2>1, <2>2
<1> QED
  BY <1>8, <1>9, <1>10, <1>11 DEF IInv

-----------------------------------------------------------------------------
(* The theorems.                                                           *)

\* The inductive invariant holds in every state of every behaviour.
THEOREM Invariance == Spec => []IInv
<1>1. ASSUME IInv, [Next]_vars PROVE IInv'
  <2>1. CASE UNCHANGED vars
    <3>1. TypeOK' /\ ArchiveInv' /\ PeersBounded'
      BY <1>1, <2>1, PeersSame DEF vars, IInv, TypeOK, Conn, ArchiveInv
    <3>2. OwnerInv' /\ CopyInv' /\ (ReachInv => ReachInv')
      BY <1>1, <2>1 DEF vars, IInv, OwnerInv, CopyInv, CopyComplete, ReachInv
    <3> QED BY <1>1, <3>1, <3>2 DEF IInv
  <2>2. CASE \E e \in Event : DeskEdit(e)
    BY <1>1, <2>2, PublishInv
  <2>3. CASE \E e \in Event : CompactCheck(e)
    BY <1>1, <2>3, CompactCheckInv
  <2>4. CASE \E e \in Event : CreateInvitation(e)
    BY <1>1, <2>4, CreateInvitationInv
  <2>5. CASE \/ \E e \in Event : Start(e)
             \/ StopBegin \/ StopEnd \/ StopFails \/ ServeFails
             \/ \E ok \in BOOLEAN : Restart(ok)
    BY <1>1, <2>5, ServerInv
  <2>6. CASE \E c \in Conn : InvitationExpires(c) \/ End(c)
    BY <1>1, <2>6, RowInv
  <2>7. CASE \E t \in Tablet, c \in Conn, answered \in BOOLEAN : Claim(t, c, answered)
    BY <1>1, <2>7, RowInv
  <2>8. CASE \E t \in Reader, kind \in Kinds : Request(t, kind)
    BY <1>1, <2>8, RequestInv, LANAssumption
  <2>9. CASE \E t \in Reader : Operations(t) \/ Unanswered(t)
    BY <1>1, <2>9, PublishInv
  <2>10. CASE \E t \in Reader : Bootstrap(t)
    BY <1>1, <2>10, BootstrapInv, LANAssumption
  <2>11. CASE \E t \in Reader : Feed(t)
    BY <1>1, <2>11, FeedInv, LANAssumption
  <2>12. CASE CompactArchive
    BY <1>1, <2>12, CompactArchiveInv
  <2> QED
    BY <1>1, <2>1, <2>2, <2>3, <2>4, <2>5, <2>6, <2>7, <2>8, <2>9, <2>10, <2>11, <2>12 DEF Next
<1> QED
  BY <1>1, InitInv, PTL DEF Spec

\* Every variable keeps its type.
THEOREM TypeCorrect == Spec => []TypeOK
<1>1. IInv => TypeOK
  BY DEF IInv
<1> QED
  BY <1>1, Invariance, PTL

\* However invitations, claims, expiries and revocations interleave, an event
\* never has more than MaxPeers connections and open invitations
\* (CreateLANInvitation, ClaimLAN).
THEOREM LimitKept == Spec => []PeersBounded
<1>1. IInv => PeersBounded
  BY DEF IInv
<1> QED
  BY <1>1, Invariance, PTL

\* Of two tablets that scanned one invitation at most one is paired (ClaimLAN).
THEOREM PairedOnce == Spec => []OneTabletPerConnection
<1>1. IInv => OneTabletPerConnection
  BY DEF IInv, OwnerInv, OneTabletPerConnection
<1> QED
  BY <1>1, Invariance, PTL

\* A tablet has every action up to its cursor, whatever is archived between two
\* of its requests (PacketIssuanceFeedPage).
THEOREM NothingPassedOver == Spec => []CopyComplete
<1>1. IInv => CopyComplete
  BY DEF IInv, CopyInv
<1> QED
  BY <1>1, Invariance, PTL

\* While no event has more connections than ListLANConnections returns, archiving
\* takes nothing from a tablet that is connected (Server.Compact).
THEOREM ConnectedFollows ==
    ASSUME MaxConn <= ListLimit
    PROVE  Spec => []ConnectedNotExpired
<1>1. IInv => ConnectedNotExpired
  BY DEF IInv, ReachInv, ConnectedNotExpired
<1> QED
  BY <1>1, Invariance, PTL
=============================================================================
