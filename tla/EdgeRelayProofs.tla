--------------------------- MODULE EdgeRelayProofs ---------------------------
(***************************************************************************)
(* The edge relay for every set of instances and Hub addresses and any     *)
(* number of rows and saved configurations: no packet goes where the       *)
(* operator has not agreed to send it, leases exclude, and what is settled *)
(* stays settled and was received.                                         *)
(***************************************************************************)
EXTENDS EdgeRelay, TLAPS

\* A session runs only for settings that are enabled and name a Hub.
SettingsInv ==
    /\ config.enabled => config.endpoint # None
    /\ \A i \in Instance :
          session[i].phase # "off" => session[i].config.enabled /\ session[i].config.endpoint # None

\* Rows that are not accepted yet are blank, a lease is on a row that is being
\* sent, a settled row has neither lease nor backoff, and the operator has
\* agreed to send every other row to the configured address.
QueueInv ==
    \A r \in Row :
        /\ r > count => row[r] = NewRow /\ consent[r] = {}
        /\ row[r].leased => row[r].state = "sent"
        /\ row[r].state = "acked" => ~row[r].leased /\ ~row[r].waiting
        /\ r <= count /\ row[r].state # "acked" => config.endpoint \in consent[r]

\* A session that holds a row may send it to its address, has the lease unless
\* it is late, and reports success only of a packet that has arrived.
HeldInv ==
    \A i \in Instance : Holds(i) =>
        /\ session[i].row \in Rows
        /\ session[i].config.endpoint \in consent[session[i].row]
        /\ ~session[i].late => /\ row[session[i].row].token = i
                               /\ row[session[i].row].leased
        /\ session[i].phase = "acked" => <<session[i].config.endpoint, session[i].row>> \in received

IInv ==
    /\ TypeOK
    /\ SettingsInv
    /\ QueueInv
    /\ HeldInv
    /\ SentWithConsent

-----------------------------------------------------------------------------
(* What the helpers return.                                                *)

\* The blank records have the types of the tables and of a session.
LEMMA BlankValid ==
    /\ NoConfig \in Config /\ ~NoConfig.enabled
    /\ NewRow \in OutboxRow /\ NewRow.state = "pending" /\ ~NewRow.leased /\ ~NewRow.waiting
    /\ NoCommand \in Command
    /\ Off \in Session /\ Off.phase = "off"
BY RelayAssumption DEF NoConfig, Config, NewRow, OutboxRow, NoCommand, Command, Off, Session

\* A session of a configuration that is valid is valid, and holds nothing
\* (startLocked).
LEMMA StartedValid ==
    ASSUME NEW c \in Config, c.enabled => c.endpoint # None
    PROVE  /\ Started(c) \in Session
           /\ Started(c).phase \in {"off", "idle"}
           /\ Started(c).phase # "off" => Started(c).config.enabled /\ Started(c).config.endpoint # None
<1>1. ASSUME NEW o \in Session
      PROVE  /\ [o EXCEPT !.phase = "idle", !.config = c] \in Session
             /\ [o EXCEPT !.phase = "idle", !.config = c].phase = "idle"
             /\ [o EXCEPT !.phase = "idle", !.config = c].config = c
  BY DEF Session
<1> QED
  BY <1>1, BlankValid DEF Started

\* A released session holds nothing and keeps its settings (edgeRelaySession.run).
LEMMA ReleasedValid ==
    ASSUME NEW s \in Session
    PROVE  /\ Released(s) \in Session
           /\ Released(s).phase = "idle"
           /\ Released(s).config = s.config
<1>1. ASSUME NEW q \in 0 .. MaxRow, NEW l \in BOOLEAN
      PROVE  [s EXCEPT !.phase = "idle", !.row = q, !.late = l] \in Session
  BY DEF Session
<1>2. 0 \in 0 .. MaxRow /\ FALSE \in BOOLEAN
  BY RelayAssumption
<1>3. Released(s) \in Session
  BY <1>1, <1>2, Zenon DEF Released
<1> QED
  BY <1>3 DEF Released, Session

\* A settled row has no lease; only a failure waits for its backoff
\* (FinishEdgeRelay).
LEMMA OutcomeValid ==
    ASSUME NEW phase \in {"acked", "failed"}
    PROVE  /\ Outcome(phase) \in OutboxRow
           /\ ~Outcome(phase).leased
           /\ Outcome(phase).state = "acked" <=> phase = "acked"
           /\ phase = "acked" => ~Outcome(phase).waiting
<1>1. ASSUME NEW o \in OutboxRow, ~o.leased, ~o.waiting
      PROVE  /\ [o EXCEPT !.state = "acked"] \in OutboxRow
             /\ [o EXCEPT !.state = "acked"].state = "acked"
             /\ ~[o EXCEPT !.state = "acked"].leased
             /\ ~[o EXCEPT !.state = "acked"].waiting
  BY <1>1 DEF OutboxRow
<1>2. ASSUME NEW o \in OutboxRow, ~o.leased
      PROVE  /\ [o EXCEPT !.waiting = TRUE] \in OutboxRow
             /\ [o EXCEPT !.waiting = TRUE].state = o.state
             /\ ~[o EXCEPT !.waiting = TRUE].leased
  BY <1>2 DEF OutboxRow
<1> QED
  BY <1>1, <1>2, BlankValid DEF Outcome

\* A session whose phase, row or flags are overwritten is a session
\* (edgeRelaySession).
LEMMA SessionUpdates ==
    ASSUME NEW s \in Session
    PROVE  /\ \A p \in {"acked", "failed"} : [s EXCEPT !.phase = p] \in Session
           /\ \A q \in 0 .. MaxRow : [s EXCEPT !.phase = "claimed", !.row = q] \in Session
           /\ \A b \in BOOLEAN : [s EXCEPT !.cancelled = b] \in Session
           /\ [s EXCEPT !.cancelled = TRUE] \in Session
           /\ [s EXCEPT !.late = TRUE] \in Session
BY DEF Session

\* A row that is leased, or whose lease or backoff passes, is a row
\* (edge_observation_outbox).
LEMMA RowUpdates ==
    ASSUME NEW o \in OutboxRow
    PROVE  /\ \A i \in Instance : [o EXCEPT !.state = "sent", !.token = i, !.leased = TRUE] \in OutboxRow
           /\ [o EXCEPT !.leased = FALSE] \in OutboxRow
           /\ [o EXCEPT !.waiting = FALSE] \in OutboxRow
BY DEF OutboxRow

\* A held row has been accepted (ClaimEdgeRelay).
LEMMA HeldRow ==
    ASSUME IInv, NEW j \in Instance, Holds(j)
    PROVE  session[j].row \in Rows /\ session[j].row \in Row /\ session[j].row <= count
<1>1. session[j].row \in Rows
  BY DEF IInv, HeldInv
<1>2. count \in 0 .. MaxRow
  BY DEF IInv, TypeOK
<1> QED
  BY <1>1, <1>2, RelayAssumption DEF Rows, Row

\* What ConfigureEdgeRelay leaves in the table: the old settings, or the
\* request under the next revision.
LEMMA SavedValid ==
    ASSUME TypeOK, SettingsInv, NEW request \in Config, NEW confirm \in BOOLEAN,
           request.enabled => request.endpoint # None,
           Saved(request, confirm).revision <= MaxRevision
    PROVE  /\ Saved(request, confirm) \in Config
           /\ Saved(request, confirm).enabled => Saved(request, confirm).endpoint # None
BY RelayAssumption DEF Saved, Config, TypeOK, SettingsInv

-----------------------------------------------------------------------------
(* The inductive invariant holds initially and is kept by every action.    *)

\* An event without a relay satisfies the invariant.
LEMMA InitInv == Init => IInv
<1> SUFFICES ASSUME Init PROVE IInv
  OBVIOUS
<1> USE RelayAssumption, BlankValid DEF Init
<1>1. TypeOK
  BY DEF TypeOK
<1>2. SettingsInv /\ QueueInv
  BY DEF SettingsInv, QueueInv, Row
<1>3. HeldInv /\ SentWithConsent
  BY DEF HeldInv, SentWithConsent, Holds
<1> QED
  BY <1>1, <1>2, <1>3 DEF IInv

\* Accepting an observation keeps it (acceptEdgeObservation).
LEMMA AcceptInv == IInv /\ Accept => IInv'
<1> SUFFICES ASSUME IInv, Accept PROVE IInv'
  OBVIOUS
<1> USE RelayAssumption DEF IInv, Accept
<1>1. TypeOK'
  BY DEF TypeOK, Row, Config
<1>2. SettingsInv'
  BY DEF SettingsInv
<1>3. QueueInv'
  BY BlankValid DEF QueueInv, TypeOK, Row
<1>4. HeldInv'
  BY DEF HeldInv, TypeOK, Row, Rows, Holds
<1>5. SentWithConsent'
  BY DEF SentWithConsent, QueueInv, TypeOK, Row
<1> QED
  BY <1>1, <1>2, <1>3, <1>4, <1>5

\* A step that touches the tables and the Hubs in nothing, and of the sessions
\* only ends them, starts them with valid settings, releases or cancels them,
\* keeps the invariant.
LEMMA QuietStep ==
    ASSUME IInv,
           UNCHANGED <<config, count, row, received, consent>>,
           app' \in [Instance -> {"down", "up", "closing"}],
           manager' \in [Instance -> Command],
           session' \in [Instance -> Session],
           \A j \in Instance :
              \/ session'[j].phase = "off"
              \/ /\ session'[j].phase = "idle"
                 /\ session'[j].config.enabled
                 /\ session'[j].config.endpoint # None
              \/ /\ session'[j].phase = session[j].phase
                 /\ session'[j].config = session[j].config
                 /\ session'[j].row = session[j].row
                 /\ session'[j].late = session[j].late
    PROVE  IInv'
<1>1. TypeOK'
  BY DEF IInv, TypeOK
<1>2. SettingsInv'
  BY DEF IInv, SettingsInv
<1>3. QueueInv' /\ SentWithConsent'
  BY DEF IInv, QueueInv, SentWithConsent
<1>4. HeldInv'
  <2> SUFFICES ASSUME NEW j \in Instance, Holds(j)' PROVE HeldInv!(j)!2'
    BY DEF HeldInv
  <2>1. /\ Holds(j)
        /\ session'[j].phase = session[j].phase
        /\ session'[j].config = session[j].config
        /\ session'[j].row = session[j].row
        /\ session'[j].late = session[j].late
    BY DEF Holds
  <2> QED
    BY <2>1 DEF IInv, HeldInv, Rows
<1> QED
  BY <1>1, <1>2, <1>3, <1>4 DEF IInv

\* The start of the application is such a step, whatever room is left for a
\* session (ResumeConfigured).
LEMMA ResumeInv == ASSUME IInv, NEW i \in Instance, Resume(i) PROVE IInv'
<1>1. PICK full \in {FALSE, Contended} :
          session' = [session EXCEPT ![i] = IF full THEN Off ELSE Started(config)]
  BY DEF Resume
<1>2. config \in Config /\ (config.enabled => config.endpoint # None)
  BY DEF IInv, TypeOK, SettingsInv
<1>3. session' \in [Instance -> Session]
  BY <1>1, <1>2, StartedValid, BlankValid DEF IInv, TypeOK
<1>4. \/ session'[i].phase = "off"
      \/ session'[i].phase = "idle" /\ session'[i].config.enabled /\ session'[i].config.endpoint # None
  BY <1>1, <1>2, StartedValid, BlankValid DEF IInv, TypeOK
<1>5. \A j \in Instance : j # i => session'[j] = session[j]
  BY <1>1 DEF IInv, TypeOK
<1>6. /\ UNCHANGED <<config, count, row, received, consent>>
      /\ app' \in [Instance -> {"down", "up", "closing"}]
      /\ manager' \in [Instance -> Command]
  BY DEF Resume, IInv, TypeOK
<1> QED
  BY <1>3, <1>4, <1>5, <1>6, QuietStep

\* So is the first half of Configure, which cancels the session.
LEMMA ConfigureBeginInv == ASSUME IInv, NEW i \in Instance, ConfigureBegin(i) PROVE IInv'
<1>1. PICK revision \in 0 .. config.revision, full \in {FALSE, Contended} :
          /\ manager' = [manager EXCEPT ![i] = [busy |-> TRUE, revision |-> revision,
                                                slot |-> session[i].phase # "off" \/ ~full]]
          /\ session' = [session EXCEPT ![i].cancelled = session[i].phase # "off"]
  BY DEF ConfigureBegin
<1>2. manager' \in [Instance -> Command]
  <2>1. revision \in 0 .. MaxRevision
    BY RelayAssumption DEF IInv, TypeOK, Config
  <2>2. [busy |-> TRUE, revision |-> revision, slot |-> session[i].phase # "off" \/ ~full] \in Command
    BY <2>1, RelayAssumption DEF Command
  <2> QED
    BY <1>1, <2>2 DEF IInv, TypeOK
<1>3. session' \in [Instance -> Session]
  <2>1. (session[i].phase # "off") \in BOOLEAN /\ session[i] \in Session
    BY DEF IInv, TypeOK
  <2>2. [session[i] EXCEPT !.cancelled = session[i].phase # "off"] \in Session
    BY <2>1, SessionUpdates, Zenon DEF Session
  <2> QED
    BY <1>1, <2>2 DEF IInv, TypeOK
<1>4. \A j \in Instance :
         /\ session'[j].phase = session[j].phase
         /\ session'[j].config = session[j].config
         /\ session'[j].row = session[j].row
         /\ session'[j].late = session[j].late
  BY <1>1 DEF IInv, TypeOK, Session
<1>5. /\ UNCHANGED <<config, count, row, received, consent>>
      /\ app' \in [Instance -> {"down", "up", "closing"}]
  BY DEF ConfigureBegin, IInv, TypeOK
<1> QED
  BY <1>2, <1>3, <1>4, <1>5, QuietStep

\* The second half saves or refuses and starts a session again: a new address
\* for rows that wait is one the operator has agreed to (ConfigureEdgeRelay).
LEMMA ConfigureSaveInv == ASSUME IInv, NEW i \in Instance, ConfigureSave(i) PROVE IInv'
<1>1. PICK endpoint \in Endpoint \cup {None}, enabled \in BOOLEAN, confirm \in BOOLEAN,
           started \in {TRUE, manager[i].slot} :
          LET request == [endpoint |-> endpoint, enabled |-> enabled, revision |-> manager[i].revision] IN
          /\ enabled => endpoint # None /\ manager[i].slot
          /\ config' = Saved(request, confirm)
          /\ config'.revision <= MaxRevision
          /\ session' = [session EXCEPT ![i] = IF started THEN Restarted(request, confirm) ELSE Off]
          /\ consent' = [r \in Row |-> IF Agreed(request, confirm) /\ r \in Unsettled
                                       THEN consent[r] \cup {endpoint} ELSE consent[r]]
  BY DEF ConfigureSave
<1> DEFINE request == [endpoint |-> endpoint, enabled |-> enabled, revision |-> manager[i].revision]
<1>2. request \in Config /\ (request.enabled => request.endpoint # None) /\ request.endpoint = endpoint
  <2>1. manager[i].revision \in 0 .. MaxRevision
    BY DEF IInv, TypeOK, Command
  <2> QED
    BY <1>1, <2>1 DEF Config
<1>3. /\ config' = Saved(request, confirm)
      /\ config'.revision <= MaxRevision
      /\ session' = [session EXCEPT ![i] = IF started THEN Restarted(request, confirm) ELSE Off]
      /\ consent' = [r \in Row |-> IF Agreed(request, confirm) /\ r \in Unsettled
                                   THEN consent[r] \cup {endpoint} ELSE consent[r]]
  BY <1>1
<1> HIDE DEF request
<1>4. config' \in Config /\ (config'.enabled => config'.endpoint # None)
  BY <1>2, <1>3, SavedValid DEF IInv
<1>5. /\ session' \in [Instance -> Session]
      /\ session'[i].phase \in {"off", "idle"}
      /\ session'[i].phase # "off" => session'[i].config.enabled /\ session'[i].config.endpoint # None
      /\ \A j \in Instance : j # i => session'[j] = session[j]
  <2>1. session' = [session EXCEPT ![i] = IF started THEN Started(config') ELSE Off]
    BY <1>3 DEF Restarted
  <2>2. /\ Started(config') \in Session
        /\ Started(config').phase \in {"off", "idle"}
        /\ Started(config').phase # "off" =>
              Started(config').config.enabled /\ Started(config').config.endpoint # None
    BY <1>4, StartedValid
  <2> QED
    BY <2>1, <2>2, BlankValid DEF IInv, TypeOK
<1>6. /\ manager' = [manager EXCEPT ![i] = NoCommand]
      /\ UNCHANGED <<count, row, app, received>>
  BY DEF ConfigureSave
<1>7. \A r \in Row : consent[r] \subseteq consent'[r]
  BY <1>3
<1>8. TypeOK'
  <2>1. consent' \in [Row -> SUBSET (Endpoint \cup {None})]
    BY <1>3 DEF IInv, TypeOK
  <2> QED
    BY <1>4, <1>5, <1>6, <2>1, BlankValid DEF IInv, TypeOK
<1>9. SettingsInv'
  BY <1>4, <1>5 DEF IInv, SettingsInv
<1>10. QueueInv'
  <2> SUFFICES ASSUME NEW r \in Row PROVE QueueInv!(r)'
    BY DEF QueueInv
  <2>1. r \in Unsettled <=> r <= count /\ row[r].state # "acked"
    BY RelayAssumption DEF Unsettled, Rows, Row, IInv, TypeOK
  <2>2. r > count => r \notin Unsettled
    BY RelayAssumption DEF Unsettled, Rows, Row, IInv, TypeOK
  <2>3. ASSUME r \in Unsettled PROVE config'.endpoint \in consent'[r]
    <3>1. CASE config'.endpoint = config.endpoint
      BY <1>7, <2>1, <2>3, <3>1 DEF IInv, QueueInv
    <3>2. CASE config'.endpoint # config.endpoint
      <4>1. ~Refused(request, confirm) /\ config'.endpoint = endpoint
        BY <1>2, <1>3, <3>2 DEF Saved, Config
      <4>2. Redirects(request)
        BY <1>2, <2>3, <3>2, <4>1 DEF Redirects
      <4>3. Agreed(request, confirm)
        BY <4>1, <4>2 DEF Refused, Agreed
      <4> QED
        BY <1>3, <2>3, <4>1, <4>3
    <3> QED
      BY <3>1, <3>2
  <2> QED
    BY <1>3, <1>6, <2>1, <2>2, <2>3 DEF IInv, QueueInv
<1>11. HeldInv'
  <2> SUFFICES ASSUME NEW j \in Instance, Holds(j)' PROVE HeldInv!(j)!2'
    BY DEF HeldInv
  <2>1. j # i /\ session'[j] = session[j] /\ Holds(j)
    BY <1>5 DEF Holds
  <2>2. session[j].row \in Rows /\ session[j].config.endpoint \in consent[session[j].row]
    BY <2>1 DEF IInv, HeldInv
  <2>3. session[j].row \in Row
    BY <2>2, RelayAssumption DEF Rows, Row, IInv, TypeOK
  <2> QED
    BY <1>6, <1>7, <2>1, <2>2, <2>3 DEF IInv, HeldInv, Rows
<1>12. SentWithConsent'
  BY <1>6, <1>7 DEF IInv, SentWithConsent
<1> QED
  BY <1>8, <1>9, <1>10, <1>11, <1>12 DEF IInv

\* The steps that stop a session or end the application (StopAll, the end of
\* the run loop, a crash) are quiet.
LEMMA StoppingInv ==
    ASSUME IInv, NEW i \in Instance, StopAll(i) \/ Exit(i) \/ Crash(i) \/ SessionEnd(i)
    PROVE  IInv'
<1>1. /\ UNCHANGED <<config, count, row, received, consent>>
      /\ app' \in [Instance -> {"down", "up", "closing"}]
      /\ manager' \in [Instance -> Command]
  BY BlankValid DEF StopAll, Exit, Crash, SessionEnd, IInv, TypeOK
<1>2. CASE session' = [session EXCEPT ![i] = Off]
  BY <1>1, <1>2, BlankValid, QuietStep DEF IInv, TypeOK
<1>3. CASE session' = [session EXCEPT ![i].cancelled = TRUE]
  <2>1. session' \in [Instance -> Session]
    BY <1>3, SessionUpdates DEF IInv, TypeOK
  <2>2. \A j \in Instance :
           /\ session'[j].phase = session[j].phase
           /\ session'[j].config = session[j].config
           /\ session'[j].row = session[j].row
           /\ session'[j].late = session[j].late
    BY <1>3 DEF IInv, TypeOK, Session
  <2> QED
    BY <1>1, <2>1, <2>2, QuietStep
<1>4. CASE UNCHANGED session
  BY <1>1, <1>4, QuietStep DEF IInv, TypeOK
<1> QED
  BY <1>2, <1>3, <1>4 DEF StopAll, Exit, Crash, SessionEnd

\* A claim keeps the invariant: its row is not leased, and the operator has
\* agreed to send it to the address of the session, which is the configured one
\* (ClaimEdgeRelay).
LEMMA ClaimInv == ASSUME IInv, NEW i \in Instance, Claim(i) PROVE IInv'
<1>1. PICK r \in Rows :
          /\ Claimable(r)
          /\ row' = [row EXCEPT ![r] = [@ EXCEPT !.state = "sent", !.token = i, !.leased = TRUE]]
          /\ session' = [session EXCEPT ![i] = [@ EXCEPT !.phase = "claimed", !.row = r]]
  BY DEF Claim
<1>2. /\ session[i].phase = "idle"
      /\ session[i].config = config
      /\ UNCHANGED <<config, count, app, manager, received, consent>>
  BY DEF Claim, ConfigCurrent
<1>3. r \in Row /\ r \in 0 .. MaxRow /\ r <= count
  BY <1>1, RelayAssumption DEF Rows, Row, IInv, TypeOK
<1>4. ~row[r].leased /\ ~row[r].waiting /\ row[r].state # "acked"
  BY <1>1 DEF Claimable, Unsettled
<1>5. /\ row' \in [Row -> OutboxRow]
      /\ \A s \in Row : s # r => row'[s] = row[s]
      /\ row'[r].state = "sent" /\ row'[r].token = i /\ row'[r].leased
  <2>1. [row[r] EXCEPT !.state = "sent", !.token = i, !.leased = TRUE] \in OutboxRow
    BY <1>3, RowUpdates DEF IInv, TypeOK
  <2>2. /\ [row[r] EXCEPT !.state = "sent", !.token = i, !.leased = TRUE].state = "sent"
        /\ [row[r] EXCEPT !.state = "sent", !.token = i, !.leased = TRUE].token = i
        /\ [row[r] EXCEPT !.state = "sent", !.token = i, !.leased = TRUE].leased
    BY <1>3 DEF IInv, TypeOK, OutboxRow
  <2> QED
    BY <1>1, <1>3, <2>1, <2>2 DEF IInv, TypeOK
<1>6. /\ session' \in [Instance -> Session]
      /\ \A j \in Instance : j # i => session'[j] = session[j]
      /\ session'[i].phase = "claimed" /\ session'[i].row = r /\ session'[i].config = session[i].config
  <2>1. [session[i] EXCEPT !.phase = "claimed", !.row = r] \in Session
    BY <1>3, SessionUpdates DEF IInv, TypeOK
  <2>2. /\ [session[i] EXCEPT !.phase = "claimed", !.row = r].phase = "claimed"
        /\ [session[i] EXCEPT !.phase = "claimed", !.row = r].row = r
        /\ [session[i] EXCEPT !.phase = "claimed", !.row = r].config = session[i].config
    BY DEF IInv, TypeOK, Session
  <2> QED
    BY <1>1, <2>1, <2>2 DEF IInv, TypeOK
<1>7. TypeOK'
  BY <1>2, <1>5, <1>6 DEF IInv, TypeOK
<1>8. SettingsInv' /\ SentWithConsent'
  BY <1>2, <1>6 DEF IInv, SettingsInv, SentWithConsent
<1>9. QueueInv'
  BY <1>2, <1>3, <1>4, <1>5, RelayAssumption DEF IInv, QueueInv, TypeOK, Row
<1>10. HeldInv'
  <2> SUFFICES ASSUME NEW j \in Instance, Holds(j)' PROVE HeldInv!(j)!2'
    BY DEF HeldInv
  <2>1. CASE j = i
    <3>1. config.endpoint \in consent[r]
      BY <1>3, <1>4 DEF IInv, QueueInv
    <3> QED
      BY <1>1, <1>2, <1>5, <1>6, <2>1, <3>1 DEF Rows
  <2>2. CASE j # i
    <3>1. session'[j] = session[j] /\ Holds(j)
      BY <1>6, <2>2 DEF Holds
    <3>2. session[j].row \in Row
      BY <3>1, HeldRow
    <3>3. ~session[j].late => session[j].row # r
      BY <1>4, <3>1 DEF IInv, HeldInv
    <3>4. ~session[j].late => row'[session[j].row] = row[session[j].row]
      BY <1>5, <3>2, <3>3
    <3> QED
      BY <1>2, <3>1, <3>4 DEF IInv, HeldInv, Rows
  <2> QED
    BY <2>1, <2>2
<1> QED
  BY <1>7, <1>8, <1>9, <1>10 DEF IInv

\* So does an attempt, whether the Hub stores the packet, its answer is lost, or
\* nothing arrives (LineClient.Send).
LEMMA DeliverInv ==
    ASSUME IInv, NEW i \in Instance, Deliver(i) \/ DeliverFails(i)
    PROVE  IInv'
<1> DEFINE packet == <<session[i].config.endpoint, session[i].row>>
<1>1. PICK phase \in {"acked", "failed"} :
          /\ session' = [session EXCEPT ![i].phase = phase]
          /\ received' \in {received, received \cup {packet}}
          /\ phase = "acked" => packet \in received'
  BY DEF Deliver, DeliverFails
<1>2. /\ session[i].phase = "claimed"
      /\ UNCHANGED <<config, count, row, app, manager, consent>>
  BY DEF Deliver, DeliverFails
<1>3. /\ session[i].row \in Rows
      /\ session[i].config.endpoint \in consent[session[i].row]
  BY <1>2 DEF IInv, HeldInv, Holds
<1>4. session[i].row \in Row
  BY <1>3, RelayAssumption DEF IInv, TypeOK, Rows, Row
<1>5. session[i].config.endpoint \in Endpoint
  BY <1>2 DEF IInv, SettingsInv, TypeOK, Session, Config
<1>6. /\ session' \in [Instance -> Session]
      /\ \A j \in Instance :
            /\ session'[j].row = session[j].row
            /\ session'[j].config = session[j].config
            /\ session'[j].late = session[j].late
            /\ session'[j].phase = IF j = i THEN phase ELSE session[j].phase
  <2>1. session' \in [Instance -> Session]
    BY <1>1, SessionUpdates DEF IInv, TypeOK
  <2> QED
    BY <1>1, <2>1 DEF IInv, TypeOK, Session
<1>7. TypeOK'
  BY <1>1, <1>2, <1>4, <1>5, <1>6 DEF IInv, TypeOK
<1>8. SettingsInv'
  BY <1>2, <1>6 DEF IInv, SettingsInv
<1>9. QueueInv'
  BY <1>2 DEF IInv, QueueInv
<1>10. SentWithConsent'
  BY <1>1, <1>2, <1>3 DEF IInv, SentWithConsent
<1>11. HeldInv'
  <2> SUFFICES ASSUME NEW j \in Instance, Holds(j)' PROVE HeldInv!(j)!2'
    BY DEF HeldInv
  <2>1. Holds(j)
    BY <1>2, <1>6 DEF Holds
  <2>2. session'[j].phase = "acked" => <<session[j].config.endpoint, session[j].row>> \in received'
    BY <1>1, <1>6, <2>1 DEF IInv, HeldInv
  <2> QED
    BY <1>2, <1>6, <2>1, <2>2 DEF IInv, HeldInv, Rows
<1> QED
  BY <1>7, <1>8, <1>9, <1>10, <1>11 DEF IInv

\* So does settling a claim that is still valid, which takes the row from
\* nobody else: its token is the session's own (FinishEdgeRelay).
LEMMA FinishInv == ASSUME IInv, NEW i \in Instance, Finish(i) PROVE IInv'
<1>1. /\ session[i].phase \in {"acked", "failed"}
      /\ row[session[i].row].token = i
      /\ row' = [row EXCEPT ![session[i].row] = Outcome(session[i].phase)]
      /\ session' = [session EXCEPT ![i] = Released(session[i])]
      /\ UNCHANGED <<config, count, app, manager, received, consent>>
  BY DEF Finish, ClaimValid
<1>2. session[i].row \in Rows
  BY <1>1 DEF IInv, HeldInv, Holds
<1>3. session[i].row \in Row /\ session[i].row <= count
  BY <1>2, RelayAssumption DEF IInv, TypeOK, Rows, Row
<1>4. row[session[i].row].state = "sent"
  BY DEF Finish, ClaimValid
<1> DEFINE done == Outcome(session[i].phase)
<1>5. done \in OutboxRow /\ ~done.leased /\ (done.state = "acked" => ~done.waiting)
  BY <1>1, OutcomeValid
<1>6. /\ row' \in [Row -> OutboxRow]
      /\ row'[session[i].row] = done
      /\ \A s \in Row : s # session[i].row => row'[s] = row[s]
  BY <1>1, <1>3, <1>5 DEF IInv, TypeOK
<1> HIDE DEF done
<1>7. /\ session' \in [Instance -> Session]
      /\ \A j \in Instance : j # i => session'[j] = session[j]
      /\ session'[i].phase = "idle" /\ session'[i].config = session[i].config
  BY <1>1, ReleasedValid DEF IInv, TypeOK
<1>8. TypeOK'
  BY <1>1, <1>6, <1>7 DEF IInv, TypeOK
<1>9. SettingsInv' /\ SentWithConsent'
  BY <1>1, <1>7 DEF IInv, SettingsInv, SentWithConsent
<1>10. QueueInv'
  BY <1>1, <1>3, <1>4, <1>5, <1>6, RelayAssumption DEF IInv, QueueInv, TypeOK, Row
<1>11. HeldInv'
  <2> SUFFICES ASSUME NEW j \in Instance, Holds(j)' PROVE HeldInv!(j)!2'
    BY DEF HeldInv
  <2>1. j # i /\ session'[j] = session[j] /\ Holds(j)
    BY <1>7 DEF Holds
  <2>2. session[j].row \in Row
    BY <2>1, HeldRow
  <2>3. ~session[j].late => session[j].row # session[i].row
    BY <1>1, <2>1 DEF IInv, HeldInv
  <2>4. ~session[j].late => row'[session[j].row] = row[session[j].row]
    BY <1>6, <2>2, <2>3
  <2> QED
    BY <1>1, <2>1, <2>4 DEF IInv, HeldInv, Rows
<1> QED
  BY <1>8, <1>9, <1>10, <1>11 DEF IInv

\* A claim that is dropped, stale or not recorded, is a quiet step
\* (FinishEdgeRelay).
LEMMA FinishDroppedInv ==
    ASSUME IInv, NEW i \in Instance, FinishStale(i) \/ FinishFails(i)
    PROVE  IInv'
<1>1. /\ session[i].phase \in {"acked", "failed"}
      /\ session' = [session EXCEPT ![i] = Released(session[i])]
      /\ UNCHANGED <<config, count, row, app, manager, received, consent>>
  BY DEF FinishStale, FinishFails
<1>2. /\ session' \in [Instance -> Session]
      /\ \A j \in Instance : j # i => session'[j] = session[j]
      /\ session'[i].phase = "idle" /\ session'[i].config = session[i].config
  BY <1>1, ReleasedValid DEF IInv, TypeOK
<1>3. session[i].config.enabled /\ session[i].config.endpoint # None
  BY <1>1 DEF IInv, SettingsInv
<1>4. /\ app' \in [Instance -> {"down", "up", "closing"}]
      /\ manager' \in [Instance -> Command]
  BY <1>1 DEF IInv, TypeOK
<1> QED
  BY <1>1, <1>2, <1>3, <1>4, QuietStep

\* A lease that runs out makes the session under it late.
LEMMA LeaseExpiresInv == ASSUME IInv, NEW r \in Row, LeaseExpires(r) PROVE IInv'
<1>1. /\ row' = [row EXCEPT ![r].leased = FALSE]
      /\ session' = [i \in Instance |-> IF Holds(i) /\ session[i].row = r /\ row[r].token = i
                                        THEN [session[i] EXCEPT !.late = TRUE] ELSE session[i]]
      /\ UNCHANGED <<config, count, app, manager, received, consent>>
  BY DEF LeaseExpires
<1>2. /\ row' \in [Row -> OutboxRow]
      /\ \A s \in Row : s # r => row'[s] = row[s]
      /\ row'[r].state = row[r].state /\ row'[r].token = row[r].token
      /\ row'[r].waiting = row[r].waiting /\ ~row'[r].leased
  <2>1. row' \in [Row -> OutboxRow]
    BY <1>1, RowUpdates DEF IInv, TypeOK
  <2> QED
    BY <1>1, <2>1 DEF IInv, TypeOK, OutboxRow
<1>3. /\ session' \in [Instance -> Session]
      /\ \A j \in Instance :
            /\ session'[j].phase = session[j].phase
            /\ session'[j].row = session[j].row
            /\ session'[j].config = session[j].config
            /\ ~session'[j].late => ~session[j].late /\ ~(Holds(j) /\ session[j].row = r /\ row[r].token = j)
  <2>1. session' \in [Instance -> Session]
    BY <1>1, SessionUpdates DEF IInv, TypeOK
  <2> QED
    BY <1>1, <2>1 DEF IInv, TypeOK, Session
<1>4. TypeOK'
  BY <1>1, <1>2, <1>3 DEF IInv, TypeOK
<1>5. SettingsInv' /\ SentWithConsent'
  BY <1>1, <1>3 DEF IInv, SettingsInv, SentWithConsent
<1>6. QueueInv'
  <2> SUFFICES ASSUME NEW s \in Row PROVE QueueInv!(s)'
    BY DEF QueueInv
  <2>1. CASE s = r
    <3>1. row[r].leased
      BY DEF LeaseExpires
    <3>2. ~(r > count)
      BY <3>1, BlankValid DEF IInv, QueueInv
    <3> QED
      BY <1>1, <1>2, <2>1, <3>1, <3>2 DEF IInv, QueueInv
  <2>2. CASE s # r
    BY <1>1, <1>2, <2>2 DEF IInv, QueueInv
  <2> QED
    BY <2>1, <2>2
<1>7. HeldInv'
  <2> SUFFICES ASSUME NEW j \in Instance, Holds(j)' PROVE HeldInv!(j)!2'
    BY DEF HeldInv
  <2>1. Holds(j)
    BY <1>3 DEF Holds
  <2>2. session[j].row \in Row
    BY <2>1, HeldRow
  <2>3. ~session'[j].late => row'[session[j].row] = row[session[j].row]
    BY <1>2, <1>3, <2>1, <2>2 DEF IInv, HeldInv
  <2> QED
    BY <1>1, <1>3, <2>1, <2>3 DEF IInv, HeldInv, Rows
<1> QED
  BY <1>4, <1>5, <1>6, <1>7 DEF IInv

\* The end of a backoff makes a row claimable and nothing else.
LEMMA BackoffPassesInv == ASSUME IInv, NEW r \in Row, BackoffPasses(r) PROVE IInv'
<1>1. /\ row[r].waiting
      /\ row' = [row EXCEPT ![r].waiting = FALSE]
      /\ UNCHANGED <<config, count, app, manager, session, received, consent>>
  BY DEF BackoffPasses
<1>2. /\ row' \in [Row -> OutboxRow]
      /\ \A s \in Row : /\ row'[s].state = row[s].state
                        /\ row'[s].token = row[s].token
                        /\ row'[s].leased = row[s].leased
                        /\ s # r => row'[s] = row[s]
  <2>1. row' \in [Row -> OutboxRow]
    BY <1>1, RowUpdates DEF IInv, TypeOK
  <2> QED
    BY <1>1, <2>1 DEF IInv, TypeOK, OutboxRow
<1>3. TypeOK'
  BY <1>1, <1>2 DEF IInv, TypeOK
<1>4. SettingsInv' /\ SentWithConsent'
  BY <1>1 DEF IInv, SettingsInv, SentWithConsent
<1>5. QueueInv'
  <2>1. ~(r > count) /\ row[r].state # "acked"
    BY <1>1, BlankValid DEF IInv, QueueInv
  <2> QED
    BY <1>1, <1>2, <2>1 DEF IInv, QueueInv
<1>6. HeldInv'
  <2> SUFFICES ASSUME NEW j \in Instance, Holds(j)' PROVE HeldInv!(j)!2'
    BY DEF HeldInv
  <2>1. Holds(j)
    BY <1>1 DEF Holds
  <2>2. session[j].row \in Row
    BY <2>1, HeldRow
  <2> QED
    BY <1>1, <1>2, <2>1, <2>2 DEF IInv, HeldInv, Rows
<1> QED
  BY <1>3, <1>4, <1>5, <1>6 DEF IInv

\* Every step of the relay keeps the invariant.
LEMMA NextInv == IInv /\ [Next]_vars => IInv'
<1> SUFFICES ASSUME IInv, [Next]_vars PROVE IInv'
  OBVIOUS
<1>1. CASE UNCHANGED vars
  BY <1>1 DEF vars, IInv, TypeOK, SettingsInv, QueueInv, HeldInv, SentWithConsent, Holds, Rows
<1>2. CASE Next
  BY <1>2, AcceptInv, ResumeInv, ConfigureBeginInv, ConfigureSaveInv, StoppingInv, ClaimInv, DeliverInv,
     FinishInv, FinishDroppedInv, LeaseExpiresInv, BackoffPassesInv DEF Next
<1> QED
  BY <1>1, <1>2

-----------------------------------------------------------------------------
(* The theorems.                                                           *)

\* The inductive invariant of the relay: settings, queue, held rows and what
\* the Hubs have received agree (edge_relay_store.go, edge_relay.go).
THEOREM Invariance == Spec => []IInv
BY InitInv, NextInv, PTL DEF Spec

\* Every variable keeps its type (the columns of edge_relay_config and
\* edge_observation_outbox, the fields of a session).
THEOREM TypeCorrect == Spec => []TypeOK
<1>1. IInv => TypeOK
  BY DEF IInv
<1> QED
  BY <1>1, Invariance, PTL

\* No packet reaches a Hub that was neither configured when its row was accepted
\* nor agreed to by a confirmed and current request, whichever instance has
\* overtaken which (ConfigureEdgeRelay, ClaimEdgeRelay).
THEOREM ConsentKept == Spec => []SentWithConsent
<1>1. IInv => SentWithConsent
  BY DEF IInv
<1> QED
  BY <1>1, Invariance, PTL

\* Two sessions that hold one row: a lease has run out under one of them
\* (ClaimEdgeRelay, FinishEdgeRelay).
THEOREM LeaseExcludes == Spec => []ExclusiveSend
<1>1. IInv => ExclusiveSend
  BY DEF IInv, HeldInv, ExclusiveSend
<1> QED
  BY <1>1, Invariance, PTL

\* A row becomes settled only while the configured Hub holds its packet
\* (FinishEdgeRelay).
THEOREM AckMeansReceived == Spec => AckedAtConfigured
<1>1. ASSUME IInv, [Next]_vars, NEW r \in Row, row[r].state # "acked", row'[r].state = "acked"
      PROVE  config.enabled /\ <<config.endpoint, r>> \in received
  <2>1. CASE \E i \in Instance : Finish(i)
    <3>1. PICK i \in Instance : Finish(i)
      BY <2>1
    <3>2. r = session[i].row /\ session[i].phase = "acked"
      BY <1>1, <3>1 DEF Finish, Outcome, NewRow, IInv, TypeOK
    <3>3. config.enabled /\ config.endpoint = session[i].config.endpoint
      BY <3>1 DEF Finish, ClaimValid
    <3>4. Holds(i)
      BY <3>2 DEF Holds
    <3> QED
      BY <1>1, <3>2, <3>3, <3>4 DEF IInv, HeldInv
  <2>2. CASE \E i \in Instance : Claim(i)
    BY <1>1, <2>2, RelayAssumption DEF Claim, IInv, TypeOK, Rows, Row, OutboxRow
  <2>3. CASE \E s \in Row : LeaseExpires(s) \/ BackoffPasses(s)
    <3>1. PICK s \in Row : row' = [row EXCEPT ![s].leased = FALSE] \/ row' = [row EXCEPT ![s].waiting = FALSE]
      BY <2>3 DEF LeaseExpires, BackoffPasses
    <3>2. row'[r].state = row[r].state
      BY <1>1, <3>1 DEF IInv, TypeOK, OutboxRow
    <3> QED
      BY <1>1, <3>2
  <2>4. CASE UNCHANGED row
    BY <1>1, <2>4
  <2> QED
    BY <1>1, <2>1, <2>2, <2>3, <2>4
       DEF Next, vars, Accept, Resume, ConfigureBegin, ConfigureSave, StopAll, Exit, Crash, SessionEnd,
           Deliver, DeliverFails, FinishStale, FinishFails
<1>2. IInv /\ [Next]_vars =>
          [\A r \in Row : row[r].state # "acked" /\ row'[r].state = "acked" =>
               config.enabled /\ <<config.endpoint, r>> \in received]_vars
  BY <1>1
<1> QED
  BY <1>2, Invariance, PTL DEF Spec, AckedAtConfigured

\* A settled row never changes, and a row under a live lease changes its state
\* by the hand of the holder only (FinishEdgeRelay, ClaimEdgeRelay).
THEOREM LeaseProtects == Spec => LeaseProtectsRow
<1>1. ASSUME IInv, Next, NEW r \in Row
      PROVE  /\ row[r].state = "acked" => row'[r] = row[r]
             /\ row[r].leased /\ row'[r].state # row[r].state =>
                  \E i \in Instance : row[r].token = i /\ session[i].row = r /\ session'[i].phase = "idle"
  <2>1. CASE \E i \in Instance : Finish(i)
    <3>1. PICK i \in Instance : Finish(i)
      BY <2>1
    <3>2. /\ row' = [row EXCEPT ![session[i].row] = Outcome(session[i].phase)]
          /\ row[session[i].row].token = i
          /\ row[session[i].row].state = "sent"
          /\ session' = [session EXCEPT ![i] = Released(session[i])]
      BY <3>1 DEF Finish, ClaimValid
    <3>3. session'[i].phase = "idle"
      BY <1>1, <3>2, ReleasedValid DEF IInv, TypeOK
    <3> QED
      BY <1>1, <3>2, <3>3 DEF IInv, TypeOK
  <2>2. CASE \E i \in Instance : Claim(i)
    <3>1. PICK i \in Instance, s \in Rows :
              Claimable(s) /\ row' = [row EXCEPT ![s] = [@ EXCEPT !.state = "sent", !.token = i, !.leased = TRUE]]
      BY <2>2 DEF Claim
    <3> QED
      BY <1>1, <3>1 DEF Claimable, Unsettled, IInv, TypeOK
  <2>3. CASE \E s \in Row : LeaseExpires(s) \/ BackoffPasses(s)
    BY <1>1, <2>3 DEF LeaseExpires, BackoffPasses, IInv, TypeOK, QueueInv, OutboxRow
  <2>4. CASE UNCHANGED row
    BY <2>4
  <2> QED
    BY <1>1, <2>1, <2>2, <2>3, <2>4
       DEF Next, Accept, Resume, ConfigureBegin, ConfigureSave, StopAll, Exit, Crash, SessionEnd, Deliver,
           DeliverFails, FinishStale, FinishFails
<1>2. IInv /\ [Next]_vars =>
          [\A r \in Row :
             /\ row[r].state = "acked" => row'[r] = row[r]
             /\ row[r].leased /\ row'[r].state # row[r].state =>
                  \E i \in Instance : row[r].token = i /\ session[i].row = r /\ session'[i].phase = "idle"]_vars
  BY <1>1
<1> QED
  BY <1>2, Invariance, PTL DEF Spec, LeaseProtectsRow
=============================================================================
