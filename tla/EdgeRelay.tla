------------------------------- MODULE EdgeRelay -------------------------------
(***************************************************************************)
(* The relay of edge observations to a Hub (edge_relay_store.go,           *)
(* edge_relay.go).                                                         *)
(*                                                                         *)
(* Rows of edge_observation_outbox are claimed one at a time under a lease *)
(* that is committed before any network traffic, sent to the configured    *)
(* endpoint and settled by a second transaction.  Several instances of the *)
(* application may have the event open; each runs at most one session for  *)
(* it.  The operator changes the destination while attempts are under way, *)
(* leases run out under a slow or suspended instance, connections fail     *)
(* before or after the Hub has stored the packet, and instances crash.     *)
(***************************************************************************)
EXTENDS Integers

CONSTANTS
    Instance,     \* running copies of the application
    Endpoint,     \* Hub addresses with their TLS bundle
    None,         \* the empty address
    MaxRow,       \* bound on the accepted rows
    MaxRevision,  \* bound on the saved configurations
    Contended     \* whether other events may use all 16 sessions of an instance

ASSUME RelayAssumption ==
    /\ None \notin Endpoint
    /\ None \notin Instance
    /\ MaxRow \in Nat
    /\ MaxRevision \in Nat
    /\ Contended \in BOOLEAN

VARIABLES
    config,    \* edge_relay_config
    count,     \* rows of the outbox: their sequences are 1..count
    row,       \* state, lease token, lease and backoff of each row
    app,       \* EdgeRelayManager: down, up or closing (StopAll)
    manager,   \* the Configure command that holds the manager's mutex
    session,   \* edgeRelaySession.run
    received,  \* what the Hubs hold: <<endpoint, row>>
    consent    \* history: where the operator has agreed to send a row

vars == <<config, count, row, app, manager, session, received, consent>>

Row == 1 .. MaxRow
Rows == 1 .. count

Config == [endpoint : Endpoint \cup {None}, enabled : BOOLEAN, revision : 0 .. MaxRevision]

NoConfig == [endpoint |-> None, enabled |-> FALSE, revision |-> 0]

OutboxRow == [state : {"pending", "sent", "acked"}, token : Instance \cup {None},
              leased : BOOLEAN, waiting : BOOLEAN]

NewRow == [state |-> "pending", token |-> None, leased |-> FALSE, waiting |-> FALSE]

Command == [busy : BOOLEAN, revision : 0 .. MaxRevision, slot : BOOLEAN]

NoCommand == [busy |-> FALSE, revision |-> 0, slot |-> FALSE]

Session == [phase : {"off", "idle", "claimed", "acked", "failed"}, config : Config,
            row : 0 .. MaxRow, cancelled : BOOLEAN, late : BOOLEAN]

Off == [phase |-> "off", config |-> NoConfig, row |-> 0, cancelled |-> FALSE, late |-> FALSE]

\* startLocked: a session for the given configuration, if it is enabled
Started(c) == IF c.enabled THEN [Off EXCEPT !.phase = "idle", !.config = c] ELSE Off

Holds(i) == session[i].phase \in {"claimed", "acked", "failed"}

TypeOK ==
    /\ config \in Config
    /\ count \in 0 .. MaxRow
    /\ row \in [Row -> OutboxRow]
    /\ app \in [Instance -> {"down", "up", "closing"}]
    /\ manager \in [Instance -> Command]
    /\ session \in [Instance -> Session]
    /\ received \subseteq Endpoint \X Row
    /\ consent \in [Row -> SUBSET (Endpoint \cup {None})]

Init ==
    /\ config = NoConfig
    /\ count = 0
    /\ row = [r \in Row |-> NewRow]
    /\ app = [i \in Instance |-> "down"]
    /\ manager = [i \in Instance |-> NoCommand]
    /\ session = [i \in Instance |-> Off]
    /\ received = {}
    /\ consent = [r \in Row |-> {}]

Unsettled == {r \in Rows : row[r].state # "acked"}

-----------------------------------------------------------------------------
(* acceptEdgeObservation: a new observation gains a row, meant for the     *)
(* destination of that moment.                                             *)
Accept ==
    /\ count < MaxRow
    /\ count' = count + 1
    /\ consent' = [consent EXCEPT ![count + 1] = {config.endpoint}]
    /\ UNCHANGED <<config, row, app, manager, session, received>>

-----------------------------------------------------------------------------
(* The manager.                                                            *)

\* ResumeConfigured when the application starts: it is an error, logged and
\* not repeated, when the sessions of other events fill the manager.
Resume(i) ==
    /\ app[i] = "down"
    /\ app' = [app EXCEPT ![i] = "up"]
    /\ \E full \in {FALSE, Contended} :
          session' = [session EXCEPT ![i] = IF full THEN Off ELSE Started(config)]
    /\ UNCHANGED <<config, count, row, manager, received, consent>>

Busy == {i \in Instance : manager[i].busy}

\* Configure up to the join: the mutex is taken, the session cancelled.  The
\* page the operator works from may show an older revision.  The slot is the
\* room for a session of this event, which nobody takes while the mutex is held.
ConfigureBegin(i) ==
    /\ app[i] = "up"
    /\ i \notin Busy
    /\ config.revision < MaxRevision
    /\ \E revision \in 0 .. config.revision, full \in {FALSE, Contended} :
          LET running == session[i].phase # "off" IN
          /\ manager' = [manager EXCEPT ![i] =
                [busy |-> TRUE, revision |-> revision, slot |-> running \/ ~full]]
          /\ session' = [session EXCEPT ![i].cancelled = running]
    /\ UNCHANGED <<config, count, row, app, received, consent>>

\* The destination of rows that are waiting would change.
Redirects(request) == request.endpoint # config.endpoint /\ Unsettled # {}

SameSettings(request) ==
    request.endpoint = config.endpoint /\ request.enabled = config.enabled

\* History: what the operator agrees to is the destination of a request that he has
\* confirmed, from a page that shows what is configured now.
Agreed(request, confirm) == confirm /\ request.revision = config.revision

\* Mutant: a redirection of the queue needs no confirmation.
Refused_Unconfirmed(request, confirm) == request.revision # config.revision

\* Mutant: the page may show an older revision.
Refused_AnyRevision(request, confirm) == Redirects(request) /\ ~confirm

\* ConfigureEdgeRelay refuses a stale page and an unconfirmed redirection.
Refused(request, confirm) ==
    \/ request.revision # config.revision
    \/ Redirects(request) /\ ~confirm

Saved(request, confirm) ==
    IF Refused(request, confirm) \/ SameSettings(request) THEN config
    ELSE [request EXCEPT !.revision = config.revision + 1]

\* Mutant: a refused command leaves the session it has stopped.
Restarted_OnSuccess(request, confirm) ==
    IF Refused(request, confirm) THEN Off ELSE Started(Saved(request, confirm))

\* Configure starts a session for what is saved now, in the error case too.
Restarted(request, confirm) == Started(Saved(request, confirm))

\* Configure after the join.  A request to enable was turned away at once when
\* there was no slot.
ConfigureSave(i) ==
    /\ i \in Busy
    /\ session[i].phase = "off"
    /\ \E endpoint \in Endpoint \cup {None}, enabled, confirm \in BOOLEAN, started \in {TRUE, manager[i].slot} :
          LET request == [endpoint |-> endpoint, enabled |-> enabled, revision |-> manager[i].revision] IN
          /\ enabled => endpoint # None /\ manager[i].slot
          /\ config' = Saved(request, confirm)
          /\ config'.revision <= MaxRevision
          /\ session' = [session EXCEPT ![i] = IF started THEN Restarted(request, confirm) ELSE Off]
          /\ consent' = [r \in Row |-> IF Agreed(request, confirm) /\ r \in Unsettled
                                       THEN consent[r] \cup {endpoint} ELSE consent[r]]
    /\ manager' = [manager EXCEPT ![i] = NoCommand]
    /\ UNCHANGED <<count, row, app, received>>

\* StopAll cancels the session and waits for it.
StopAll(i) ==
    /\ app[i] = "up"
    /\ i \notin Busy
    /\ app' = [app EXCEPT ![i] = "closing"]
    /\ session' = [session EXCEPT ![i].cancelled = TRUE]
    /\ UNCHANGED <<config, count, row, manager, received, consent>>

Exit(i) ==
    /\ app[i] = "closing"
    /\ session[i].phase = "off"
    /\ app' = [app EXCEPT ![i] = "down"]
    /\ UNCHANGED <<config, count, row, manager, session, received, consent>>

Crash(i) ==
    /\ app[i] # "down"
    /\ app' = [app EXCEPT ![i] = "down"]
    /\ session' = [session EXCEPT ![i] = Off]
    /\ manager' = [manager EXCEPT ![i] = NoCommand]
    /\ UNCHANGED <<config, count, row, received, consent>>

-----------------------------------------------------------------------------
(* The session loop.                                                       *)

\* Mutant: the lease is not looked at.
Claimable_Leased(r) == r \in Unsettled /\ ~row[r].waiting

Claimable(r) == r \in Unsettled /\ ~row[r].waiting /\ ~row[r].leased

\* Mutant: a session keeps the settings it was started with.
ConfigCurrent_Cached(i) == session[i].config.enabled

ConfigCurrent(i) == config.enabled /\ session[i].config = config

\* ClaimEdgeRelay: the oldest row that is due, under a fresh lease.  An
\* instance holds one claim at a time, so its name stands for the token.
Claim(i) ==
    /\ session[i].phase = "idle"
    /\ ~session[i].cancelled
    /\ ConfigCurrent(i)
    /\ \E r \in Rows :
          /\ Claimable(r)
          /\ \A s \in Rows : Claimable(s) => r <= s
          /\ row' = [row EXCEPT ![r] = [@ EXCEPT !.state = "sent", !.token = i, !.leased = TRUE]]
          /\ session' = [session EXCEPT ![i] = [@ EXCEPT !.phase = "claimed", !.row = r]]
    /\ UNCHANGED <<config, count, app, manager, received, consent>>

\* The loop ends: cancelled, or nothing claimed and the settings are not ours.
SessionEnd(i) ==
    /\ session[i].phase = "idle"
    /\ session[i].cancelled \/ session[i].config # config
    /\ session' = [session EXCEPT ![i] = Off]
    /\ UNCHANGED <<config, count, row, app, manager, received, consent>>

\* LineClient.Send: the Hub stores the packet and its answer arrives.
Deliver(i) ==
    /\ session[i].phase = "claimed"
    /\ received' = received \cup {<<session[i].config.endpoint, session[i].row>>}
    /\ session' = [session EXCEPT ![i].phase = "acked"]
    /\ UNCHANGED <<config, count, row, app, manager, consent>>

\* A packet that does not decode, no connection, a timeout, a cancelled call or
\* a lost answer: the packet may have arrived all the same.
DeliverFails(i) ==
    /\ session[i].phase = "claimed"
    /\ received' \in {received, received \cup {<<session[i].config.endpoint, session[i].row>>}}
    /\ session' = [session EXCEPT ![i].phase = "failed"]
    /\ UNCHANGED <<config, count, row, app, manager, consent>>

\* Mutant: the settings are not read again.
ClaimValid_TokenOnly(i) ==
    row[session[i].row].token = i /\ row[session[i].row].state = "sent"

\* Mutant: the row is found by its sequence alone.
ClaimValid_ConfigOnly(i) ==
    /\ config.enabled
    /\ config.revision = session[i].config.revision
    /\ config.endpoint = session[i].config.endpoint

\* FinishEdgeRelay: same settings, same lease token, still sent.
ClaimValid(i) ==
    /\ config.enabled
    /\ config.revision = session[i].config.revision
    /\ config.endpoint = session[i].config.endpoint
    /\ row[session[i].row].token = i
    /\ row[session[i].row].state = "sent"

\* The lease is cleared; a failure is pending again, behind its backoff.
Outcome(phase) ==
    IF phase = "acked" THEN [NewRow EXCEPT !.state = "acked"] ELSE [NewRow EXCEPT !.waiting = TRUE]

\* The attempt is over and the loop goes on.
Released(s) == [s EXCEPT !.phase = "idle", !.row = 0, !.late = FALSE]

Finish(i) ==
    /\ session[i].phase \in {"acked", "failed"}
    /\ ClaimValid(i)
    /\ row' = [row EXCEPT ![session[i].row] = Outcome(session[i].phase)]
    /\ session' = [session EXCEPT ![i] = Released(@)]
    /\ UNCHANGED <<config, count, app, manager, received, consent>>

\* FinishEdgeRelay changes nothing when the claim is stale,
FinishStale(i) ==
    /\ session[i].phase \in {"acked", "failed"}
    /\ ~ClaimValid(i)
    /\ session' = [session EXCEPT ![i] = Released(@)]
    /\ UNCHANGED <<config, count, row, app, manager, received, consent>>

\* or when the database fails or takes longer than 2 seconds.
FinishFails(i) ==
    /\ session[i].phase \in {"acked", "failed"}
    /\ ClaimValid(i)
    /\ session' = [session EXCEPT ![i] = Released(@)]
    /\ UNCHANGED <<config, count, row, app, manager, received, consent>>

-----------------------------------------------------------------------------
(* Time: lease_until and next_attempt_at pass.                             *)

LeaseExpires(r) ==
    /\ row[r].leased
    /\ row' = [row EXCEPT ![r].leased = FALSE]
    /\ session' = [i \in Instance |-> IF Holds(i) /\ session[i].row = r /\ row[r].token = i
                                      THEN [session[i] EXCEPT !.late = TRUE] ELSE session[i]]
    /\ UNCHANGED <<config, count, app, manager, received, consent>>

BackoffPasses(r) ==
    /\ row[r].waiting
    /\ row' = [row EXCEPT ![r].waiting = FALSE]
    /\ UNCHANGED <<config, count, app, manager, session, received, consent>>

-----------------------------------------------------------------------------
Next ==
    \/ Accept
    \/ \E i \in Instance : Resume(i)
    \/ \E i \in Instance : ConfigureBegin(i)
    \/ \E i \in Instance : ConfigureSave(i)
    \/ \E i \in Instance : StopAll(i)
    \/ \E i \in Instance : Exit(i)
    \/ \E i \in Instance : Crash(i)
    \/ \E i \in Instance : Claim(i)
    \/ \E i \in Instance : SessionEnd(i)
    \/ \E i \in Instance : Deliver(i)
    \/ \E i \in Instance : DeliverFails(i)
    \/ \E i \in Instance : Finish(i)
    \/ \E i \in Instance : FinishStale(i)
    \/ \E i \in Instance : FinishFails(i)
    \/ \E r \in Row : LeaseExpires(r)
    \/ \E r \in Row : BackoffPasses(r)

Spec == Init /\ [][Next]_vars

-----------------------------------------------------------------------------
(* Safety.                                                                 *)

\* No packet reaches a Hub other than the one that was configured when its row was
\* accepted, unless the operator has confirmed, from a page that was up to date,
\* that the queue goes there: not through a session that another instance's
\* Configure has overtaken, nor by a request that is unconfirmed or made from an
\* older revision (ConfigureEdgeRelay, ClaimEdgeRelay).
SentWithConsent == \A r \in Row, e \in Endpoint : <<e, r>> \in received => e \in consent[r]

\* Two instances send one row at once only when a lease has run out under one
\* of them ("prevent two app instances from draining one row at once").
ExclusiveSend ==
    \A i, j \in Instance :
        i # j /\ Holds(i) /\ Holds(j) /\ session[i].row = session[j].row
            => session[i].late \/ session[j].late

\* A row is settled only while its packet is held by the Hub that is
\* configured at that moment: an answer of the previous Hub does not count
\* after a redirection (FinishEdgeRelay).
AckedAtConfigured ==
    [][\A r \in Row : row[r].state # "acked" /\ row'[r].state = "acked" =>
         config.enabled /\ <<config.endpoint, r>> \in received]_vars

\* "A stale worker/config cannot acknowledge another lease or re-open an ACKed
\* row": a settled row never changes, and a row under a live lease changes its
\* state by the hand of the holder only.
LeaseProtectsRow ==
    [][\A r \in Row :
         /\ row[r].state = "acked" => row'[r] = row[r]
         /\ row[r].leased /\ row'[r].state # row[r].state =>
              \E i \in Instance : row[r].token = i /\ session[i].row = r /\ session'[i].phase = "idle"]_vars

-----------------------------------------------------------------------------
(* Liveness.  Sessions and commands run on, a stopped application is       *)
(* started again, time passes.  Crashes, commands and failing connections  *)
(* end at some point, and so do leases of 30 seconds that run out during   *)
(* an attempt, which is limited to 2 seconds and 2 for its record.         *)

Overrun(r) == LeaseExpires(r) /\ \E i \in Instance : session'[i] # session[i]

Disturbance ==
    \/ \E i \in Instance : Crash(i) \/ StopAll(i) \/ ConfigureBegin(i) \/ DeliverFails(i)
                           \/ FinishFails(i)
    \/ \E r \in Row : Overrun(r)

Fairness ==
    /\ \A i \in Instance :
          /\ WF_vars(Resume(i))
          /\ WF_vars(ConfigureSave(i))
          /\ WF_vars(Exit(i))
          /\ WF_vars(Claim(i))
          /\ WF_vars(SessionEnd(i))
          /\ WF_vars(Deliver(i))
          /\ WF_vars(Finish(i))
          /\ WF_vars(FinishStale(i))
    /\ \A r \in Row : WF_vars(LeaseExpires(r)) /\ WF_vars(BackoffPasses(r))
    /\ <>[][~Disturbance]_vars

FairSpec == Spec /\ Fairness

\* An enabled queue drains: no refused command, overtaken session, expired
\* lease or restart leaves a row that nobody delivers ("A failed/stale UI
\* command must not leave an enabled queue stopped").
EventuallyRelayed ==
    \A r \in Row : r <= count ~> row[r].state = "acked" \/ ~config.enabled
=============================================================================
