-------------------------- MODULE PacketRelayProofs ---------------------------
(***************************************************************************)
(* The Desk and the site it follows, for any roster, any number of         *)
(* operations, edits and rebases.  What is proved of every Desk is cited   *)
(* for the site as Site!ReceiveStep and so on.                             *)
(***************************************************************************)
EXTENDS PacketRelay, PacketProofs

-----------------------------------------------------------------------------
(* The site's registrations and operations are those of the Desk.          *)

\* Registrations, and what the tables hold of them.
LEMMA SameData ==
    /\ Site!Registration = Registration /\ Site!Action = Action
    /\ Site!Accepted = Accepted /\ Site!Final = Final
    /\ \A S : Site!Maybe(S) = Maybe(S)
    /\ Site!Row = Row /\ Site!Change = Change /\ Site!Entry = Entry
    /\ \A r : Site!Bare(r) = Bare(r)
    /\ \A r, heads : Site!Stored(r, heads) = Stored(r, heads)
<1>1. \A S : Site!Maybe(S) = Maybe(S)
  BY DEF Site!Maybe, Maybe
<1>2. Site!Registration = Registration
  BY Zenon DEF Site!Registration, Registration, Site!Maybe, Maybe, Site!Person, Person,
               Site!Status, Status
<1>3. Site!Action = Action
  BY DEF Site!Action, Action
<1>4. Site!Accepted = Accepted /\ Site!Final = Final
  BY DEF Site!Accepted, Accepted, Site!Final, Final
<1>5. Site!Row = Row /\ Site!Change = Change
  BY <1>1, <1>2, <1>3, Zenon DEF Site!Row, Row, Site!Change, Change
<1>6. Site!Image = Image
  BY <1>5, Zenon DEF Site!Image, Image
<1>7. Site!Entry = Entry
  BY <1>3, <1>4, <1>6, Zenon DEF Site!Entry, Entry
<1>8. \A r : Site!Bare(r) = Bare(r)
  BY DEF Site!Bare, Bare
<1>9. \A r, heads : Site!Stored(r, heads) = Stored(r, heads)
  BY DEF Site!Stored, Stored
<1> QED
  BY <1>1, <1>2, <1>3, <1>4, <1>5, <1>7, <1>8, <1>9

\* Commands.
LEMMA SameCommands ==
    /\ Site!Command = Command
    /\ \A c : (Site!Carries(c) <=> Carries(c)) /\ Site!Rows(c) = Rows(c)
    /\ \A S : Site!OperationOn(S) = OperationOn(S)
<1>1. Site!Command = Command
  BY Zenon DEF Site!Command, Command, Site!Types, Types, Site!Maybe, Maybe, Site!Person, Person,
               Site!Single, Single, Site!Moving, Moving
<1>2. \A c : (Site!Carries(c) <=> Carries(c)) /\ Site!Rows(c) = Rows(c)
  BY DEF Site!Carries, Carries, Site!Rows, Rows, Site!Single, Single, Site!Creating, Creating,
         Site!Person, Person
<1>3. \A S : Site!OperationOn(S) = OperationOn(S)
  BY <1>1, SameData, Zenon DEF Site!OperationOn, OperationOn
<1> QED
  BY <1>1, <1>2, <1>3

\* The operations that tablets and operators have made are one set for both.
LEMMA SameOperations == (Site!OpInv <=> OpInv) /\ (Site!OpInv' <=> OpInv')
<1>1. /\ Site!Registration = Registration /\ Site!Action = Action /\ Site!Command = Command
      /\ \A c : (Site!Carries(c) <=> Carries(c)) /\ Site!Rows(c) = Rows(c)
  BY SameData, SameCommands
<1>2. /\ \A c, o : Site!Enters(c, o) <=> Enters(c, o)
      /\ \A c : (Site!Corrects(c) <=> Corrects(c)) /\ (Site!Corrects(c)' <=> Corrects(c)')
  BY DEF Site!Enters, Enters, Site!Entering, Entering, Site!Corrects, Corrects, Site!Moving, Moving
<1>3. Site!OpInv <=> OpInv
  BY <1>1, <1>2, Zenon DEF Site!OpInv, OpInv
<1>4. Site!OpInv' <=> OpInv'
  BY <1>1, <1>2, Zenon DEF Site!OpInv, OpInv
<1> QED
  BY <1>3, <1>4

\* What is assumed of the Desk's constants holds with the site's editor as the local one.
LEMMA SameAssumptions == Site!TransitionsAssumption /\ Site!DeskAssumption
<1>1. Site!TransitionsAssumption
  BY TransitionsAssumption, Zenon DEF Site!TransitionsAssumption, TransitionsAssumption
<1>2. Edit \cup SiteEdit = SiteEdit \cup Edit
  OBVIOUS
<1>3. Site!Person = Person
  BY DEF Site!Person, Person
<1>4. Site!DeskAssumption
  BY <1>2, <1>3, DeskAssumption, SameData, SameCommands, Zenon DEF Site!DeskAssumption, DeskAssumption
<1> QED
  BY <1>1, <1>4

-----------------------------------------------------------------------------
(* What a feed says of a registration up to a sequence.                    *)

LastUpTo(f, i, n) ==
    {m \in 1 .. n : /\ i \in DOMAIN f[m].changes
                    /\ \A k \in m + 1 .. n : i \notin DOMAIN f[k].changes}
UpTo(f, i, n) ==
    IF LastUpTo(f, i, n) # {}
    THEN CHOOSE v \in {f[m].changes[i].after : m \in LastUpTo(f, i, n)} : TRUE
    ELSE IF InitRoster[i] = None THEN None ELSE Bare(InitRoster[i])

\* A feed says the same up to a sequence, whatever follows.
LEMMA UpToSame ==
    ASSUME NEW f, NEW g, NEW i, NEW n \in Nat, \A m \in 1 .. n : f[m] = g[m]
    PROVE  UpTo(f, i, n) = UpTo(g, i, n)
<1>1. LastUpTo(f, i, n) = LastUpTo(g, i, n)
  <2>1. ASSUME NEW m \in 1 .. n
        PROVE  \A k \in m + 1 .. n : k \in 1 .. n
    OBVIOUS
  <2> QED BY <2>1 DEF LastUpTo
<1>2. {f[m].changes[i].after : m \in LastUpTo(f, i, n)} = {g[m].changes[i].after : m \in LastUpTo(g, i, n)}
  <2>1. \A m \in LastUpTo(f, i, n) : f[m] = g[m]
    BY DEF LastUpTo
  <2> QED BY <1>1, <2>1
<1> QED
  BY <1>1, <1>2, Zenon DEF UpTo

\* Before its first action it says what was installed.
LEMMA UpToZero ==
    ASSUME NEW f, NEW i
    PROVE  UpTo(f, i, 0) = IF InitRoster[i] = None THEN None ELSE Bare(InitRoster[i])
<1>1. LastUpTo(f, i, 0) = {}
  BY DEF LastUpTo
<1> QED
  BY <1>1 DEF UpTo

\* One action further it says what that action says, of the registrations it is about.
LEMMA UpToNext ==
    ASSUME NEW f, NEW i, NEW n \in Nat
    PROVE  UpTo(f, i, n + 1) = IF i \in DOMAIN f[n + 1].changes THEN f[n + 1].changes[i].after
                               ELSE UpTo(f, i, n)
<1>1. CASE i \in DOMAIN f[n + 1].changes
  <2>1. LastUpTo(f, i, n + 1) = {n + 1}
    <3>1. n + 1 \in LastUpTo(f, i, n + 1)
      BY <1>1 DEF LastUpTo
    <3>2. ASSUME NEW m \in LastUpTo(f, i, n + 1) PROVE m = n + 1
      <4>1. m \in 1 .. n + 1 /\ \A k \in m + 1 .. n + 1 : i \notin DOMAIN f[k].changes
        BY DEF LastUpTo
      <4> QED BY <1>1, <4>1
    <3> QED BY <3>1, <3>2
  <2>2. {f[m].changes[i].after : m \in LastUpTo(f, i, n + 1)} = {f[n + 1].changes[i].after}
    BY <2>1
  <2> QED BY <1>1, <2>1, <2>2 DEF UpTo
<1>2. CASE i \notin DOMAIN f[n + 1].changes
  <2>1. ASSUME NEW m PROVE m \in LastUpTo(f, i, n + 1) <=> m \in LastUpTo(f, i, n)
    <3>1. ASSUME m \in LastUpTo(f, i, n + 1) PROVE m \in LastUpTo(f, i, n)
      <4>1. /\ m \in 1 .. n + 1 /\ i \in DOMAIN f[m].changes
            /\ \A k \in m + 1 .. n + 1 : i \notin DOMAIN f[k].changes
        BY <3>1 DEF LastUpTo
      <4>2. m \in 1 .. n /\ \A k \in m + 1 .. n : k \in m + 1 .. n + 1
        BY <1>2, <4>1
      <4> QED BY <4>1, <4>2 DEF LastUpTo
    <3>2. ASSUME m \in LastUpTo(f, i, n) PROVE m \in LastUpTo(f, i, n + 1)
      <4>1. /\ m \in 1 .. n /\ i \in DOMAIN f[m].changes
            /\ \A k \in m + 1 .. n : i \notin DOMAIN f[k].changes
        BY <3>2 DEF LastUpTo
      <4>2. \A k \in m + 1 .. n + 1 : k = n + 1 \/ k \in m + 1 .. n
        BY <4>1
      <4> QED BY <1>2, <4>1, <4>2 DEF LastUpTo
    <3> QED BY <3>1, <3>2
  <2>2. LastUpTo(f, i, n + 1) = LastUpTo(f, i, n)
    BY <2>1
  <2> QED BY <1>2, <2>2, Zenon DEF UpTo
<1> QED
  BY <1>1, <1>2

-----------------------------------------------------------------------------
(* The inductive invariant.                                                *)

\* packet_issuance_site_registrations
SiteValue == [value : Registration, deleted : BOOLEAN]

\* What feed f says of a registration up to sequence n, rows[i] says as well; evidence is not
\* compared.
Agrees(f, rows, n) ==
    \A i \in Id : UpTo(f, i, n) # None => rows[i] # None /\ Bare(rows[i]) = UpTo(f, i, n)

\* The site's roster.
SiteRoster == [i \in Id |-> IF Site!Live(i) THEN siteProj[i].value ELSE None]

\* The tables of the site: what its feed says is what it has.
SiteInv ==
    /\ Site!StateInv /\ Site!FeedInv
    /\ Agrees(siteFeed, SiteRoster, Len(siteFeed))

\* The Desk's view of the site, and a bootstrap on its way.
ViewInv ==
    /\ base \in [Id -> Maybe(SiteValue)]
    /\ cursor \in 0 .. Len(siteFeed)
    /\ heard \in [Op \cup SiteEdit -> {"none", "applied", "observed", "review"}]
    /\ rebases \in 0 .. MaxRebase /\ again \in BOOLEAN

BootInv ==
    boot # None =>
        /\ boot.cursor \in 0 .. Len(siteFeed) /\ boot.rows \in [Id -> Maybe(Registration)]
        /\ Agrees(siteFeed, boot.rows, boot.cursor)

BaseInv ==
    \A i \in Id : UpTo(siteFeed, i, cursor) # None => Baseline(i) = UpTo(siteFeed, i, cursor)

RelayInv == OpInv /\ StateInv /\ SiteInv /\ ViewInv /\ BootInv /\ BaseInv

\* The baseline is right as the model states it.
LEMMA BaseTracks == BaseInv <=> BaselineTracksSite
BY Zenon DEF BaseInv, BaselineTracksSite, SiteAt, UpTo, LastUpTo

\* The site's feed grows at its end.
Longer(f, g) == g = f \/ \E e \in Entry : g = Append(f, e)

\* What it said up to a sequence stays.
LEMMA PastKept ==
    ASSUME NEW f \in Seq(Entry), NEW g, Longer(f, g)
    PROVE  /\ g \in Seq(Entry) /\ Len(f) \in Nat /\ Len(g) \in Nat /\ Len(f) =< Len(g)
           /\ \A i : \A n \in 0 .. Len(f) : UpTo(g, i, n) = UpTo(f, i, n)
<1>1. CASE g = f
  BY <1>1
<1>2. CASE \E e \in Entry : g = Append(f, e)
  <2>1. PICK e \in Entry : g = Append(f, e)
    BY <1>2
  <2>2. /\ g \in Seq(Entry) /\ Len(f) \in Nat /\ Len(g) = Len(f) + 1
        /\ \A n \in 1 .. Len(f) : g[n] = f[n]
    BY <2>1, Appended
  <2>3. ASSUME NEW i, NEW n \in 0 .. Len(f) PROVE UpTo(g, i, n) = UpTo(f, i, n)
    <3>1. n \in Nat /\ \A m \in 1 .. n : g[m] = f[m]
      BY <2>2
    <3> QED BY <3>1, UpToSame
  <2> QED BY <2>2, <2>3
<1> QED
  BY <1>1, <1>2 DEF Longer

\* A step that leaves the Desk's view of the site alone.
LEMMA ViewKept ==
    ASSUME SiteInv, ViewInv, BootInv, BaseInv, Longer(siteFeed, siteFeed'),
           UNCHANGED <<base, cursor, heard, boot, rebases>>, again' \in BOOLEAN
    PROVE  ViewInv' /\ BootInv' /\ BaseInv'
<1>1. siteFeed \in Seq(Entry)
  BY SameData, Zenon DEF SiteInv, Site!StateInv
<1>2. PICK f, g : f = siteFeed /\ g = siteFeed'
  OBVIOUS
<1>3. /\ Len(f) \in Nat /\ Len(g) \in Nat /\ Len(f) =< Len(g)
      /\ \A i : \A n \in 0 .. Len(f) : UpTo(g, i, n) = UpTo(f, i, n)
  BY <1>1, <1>2, PastKept
<1>4. ViewInv'
  BY <1>2, <1>3 DEF ViewInv
<1>5. BaseInv'
  <2>1. PICK n : n = cursor
    OBVIOUS
  <2>2. n \in 0 .. Len(f) /\ n' = n
    BY <1>2, <2>1 DEF ViewInv
  <2>3. \A i \in Id : UpTo(f, i, n) # None => Baseline(i) = UpTo(f, i, n)
    BY <1>2, <2>1, Zenon DEF BaseInv
  <2>4. \A i \in Id : UpTo(g, i, n) # None => Baseline(i)' = UpTo(g, i, n)
    BY <1>3, <2>2, <2>3 DEF Baseline
  <2> QED BY <1>2, <2>1, <2>4, Zenon DEF BaseInv
<1>6. BootInv'
  <2> SUFFICES ASSUME boot # None PROVE BootInv'
    BY DEF BootInv
  <2>1. PICK n, rows : n = boot.cursor /\ rows = boot.rows
    OBVIOUS
  <2>2. n \in 0 .. Len(f) /\ rows \in [Id -> Maybe(Registration)] /\ Agrees(f, rows, n)
    BY <1>2, <2>1 DEF BootInv
  <2>3. n \in 0 .. Len(g) /\ Agrees(g, rows, n)
    BY <1>3, <2>2 DEF Agrees
  <2> QED BY <1>2, <2>1, <2>2, <2>3 DEF BootInv
<1> QED
  BY <1>4, <1>5, <1>6

-----------------------------------------------------------------------------
(* The steps of the site.                                                  *)

\* A registration of the site.
LEMMA SiteRow ==
    ASSUME Site!StateInv, NEW i \in Id, Site!Live(i)
    PROVE  /\ siteProj[i].value \in Registration /\ siteProj[i].value # None
           /\ Site!Current(i) \in Registration /\ Site!Current(i) # None
           /\ Bare(Site!Current(i)) = Bare(siteProj[i].value)
<1>1. Site!Found(i)
  BY DEF Site!Live
<1>2. /\ Site!Current(i) \in Site!Registration /\ siteProj[i].value \in Site!Registration
      /\ Site!Bare(Site!Current(i)) = Site!Bare(siteProj[i].value)
  BY <1>1, SameAssumptions, Site!CurrentType, Zenon
<1>3. None \notin Registration
  BY DeskAssumption
<1> QED
  BY <1>2, <1>3, SameData

\* What the site does to its roster, its feed says.
LEMMA SiteTells ==
    ASSUME SiteInv, Site!StateInv', Site!FeedInv',
           (siteProj' = siteProj /\ siteFeed' = siteFeed) \/ \E e \in Entry : Site!Announced(e)
    PROVE  SiteInv' /\ Longer(siteFeed, siteFeed')
<1>1. siteFeed \in Seq(Entry) /\ siteProj' \in [Id -> Maybe(Row)]
  BY SameData, Zenon DEF SiteInv, Site!StateInv
<1>2. None \notin Registration
  BY DeskAssumption
<1>3. CASE siteProj' = siteProj /\ siteFeed' = siteFeed
  <2>1. SiteRoster' = SiteRoster
    BY <1>3, Zenon DEF SiteRoster, Site!Live, Site!Found
  <2> QED BY <1>3, <2>1 DEF SiteInv, Longer
<1>4. ASSUME NEW e \in Entry, Site!Announced(e)
      PROVE  SiteInv' /\ Longer(siteFeed, siteFeed')
  <2>1. /\ siteFeed' = Append(siteFeed, e)
        /\ \A i \in Id :
              IF i \notin DOMAIN e.changes THEN siteProj'[i] = siteProj[i]
              ELSE e.changes[i].after # None =>
                      Site!Live(i)' /\ Bare(siteProj'[i].value) = e.changes[i].after
    BY <1>4, SameData DEF Site!Announced
  <2>2. PICK f, g, n : f = siteFeed /\ g = siteFeed' /\ n = Len(f)
    OBVIOUS
  <2>3. /\ n \in Nat /\ Len(g) = n + 1 /\ g[n + 1] = e
        /\ \A m \in 1 .. n : f[m] = g[m]
    BY <1>1, <2>1, <2>2, Appended
  <2>4. ASSUME NEW i \in Id, UpTo(g, i, n + 1) # None
        PROVE  SiteRoster'[i] # None /\ Bare(SiteRoster'[i]) = UpTo(g, i, n + 1)
    <3>1. UpTo(g, i, n + 1) = IF i \in DOMAIN e.changes THEN e.changes[i].after ELSE UpTo(f, i, n)
      <4>1. UpTo(f, i, n) = UpTo(g, i, n)
        BY <2>3, UpToSame
      <4>2. UpTo(g, i, n + 1) = IF i \in DOMAIN g[n + 1].changes THEN g[n + 1].changes[i].after
                                ELSE UpTo(g, i, n)
        BY <2>3, UpToNext, Zenon
      <4> QED BY <2>3, <4>1, <4>2
    <3>2. CASE i \in DOMAIN e.changes
      <4>1. Site!Live(i)' /\ Bare(siteProj'[i].value) = e.changes[i].after
        BY <2>1, <2>4, <3>1, <3>2
      <4>2. siteProj'[i].value \in Registration
        BY <1>1, <4>1 DEF Site!Live, Site!Found, Maybe, Row
      <4>3. SiteRoster'[i] = siteProj'[i].value
        BY <4>1 DEF SiteRoster
      <4> QED BY <1>2, <3>1, <3>2, <4>1, <4>2, <4>3
    <3>3. CASE i \notin DOMAIN e.changes
      <4>1. siteProj'[i] = siteProj[i]
        BY <2>1, <3>3
      <4>2. SiteRoster'[i] = SiteRoster[i]
        BY <4>1, Zenon DEF SiteRoster, Site!Live, Site!Found
      <4>3. Agrees(f, SiteRoster, n)
        BY <2>2, Zenon DEF SiteInv
      <4>4. SiteRoster[i] # None /\ Bare(SiteRoster[i]) = UpTo(f, i, n)
        BY <2>4, <3>1, <3>3, <4>3 DEF Agrees
      <4> QED BY <3>1, <3>3, <4>2, <4>4
    <3> QED BY <3>2, <3>3
  <2>5. Agrees(g, SiteRoster', n + 1)
    BY <2>4 DEF Agrees
  <2>6. Agrees(siteFeed, SiteRoster, Len(siteFeed))'
    BY <2>2, <2>3, <2>5
  <2> QED BY <1>4, <2>1, <2>6 DEF SiteInv, Longer
<1> QED
  BY <1>3, <1>4

\* A step of the site leaves the Desk's tables as they are; at most an operation is made.
LEMMA DeskKept ==
    ASSUME StateInv, UNCHANGED <<proj, outcome, feed, floor, passed, resolved, shown>>,
           \A q \in Op : op[q] # None => op'[q] # None
    PROVE  StateInv'
BY DEF StateInv

\* So the invariant is kept if the site's tables are and its feed tells of the change.
LEMMA SiteKeeps ==
    ASSUME RelayInv, OpInv', Site!StateInv', Site!FeedInv',
           UNCHANGED <<proj, outcome, feed, floor, passed, resolved, shown, relayVars>>,
           \A q \in Op : op[q] # None => op'[q] # None,
           (siteProj' = siteProj /\ siteFeed' = siteFeed) \/ \E e \in Entry : Site!Announced(e)
    PROVE  RelayInv'
<1>1. StateInv'
  BY DeskKept DEF RelayInv
<1>2. SiteInv' /\ Longer(siteFeed, siteFeed')
  BY SiteTells DEF RelayInv
<1>3. ViewInv' /\ BootInv' /\ BaseInv'
  BY <1>2, ViewKept DEF RelayInv, relayVars, ViewInv
<1> QED
  BY <1>1, <1>2, <1>3 DEF RelayInv

\* An operation arrives at the site.
LEMMA SiteReceiveStep ==
    ASSUME RelayInv, NEW o \in Op, SiteReceive(o)
    PROVE  RelayInv'
<1>1. /\ Site!Receive(o) /\ op' = op
      /\ UNCHANGED <<proj, outcome, feed, floor, passed, resolved, shown, relayVars>>
  BY DEF SiteReceive, Site!Receive
<1>2. OpInv /\ Site!StateInv /\ Site!FeedInv
  BY DEF RelayInv, SiteInv
<1>3. /\ Site!OpInv' /\ Site!StateInv' /\ Site!FeedInv'
      /\ (siteProj' = siteProj /\ siteFeed' = siteFeed) \/ \E e \in Site!Entry : Site!Announced(e)
  BY <1>1, <1>2, SameOperations, SameAssumptions, Site!ReceiveStep, Zenon
<1> QED
  BY <1>1, <1>3, SameOperations, SameData, SiteKeeps

\* A decision made on the site.
LEMMA SiteDecideStep ==
    ASSUME RelayInv, NEW o \in Op, NEW r \in Op, NEW keep \in BOOLEAN, SiteDecide(o, r, keep)
    PROVE  RelayInv'
<1>1. /\ Site!Decide(o, r, keep, Site!Candidate(o)) /\ op[r] = None
      /\ UNCHANGED <<proj, outcome, feed, floor, passed, resolved, shown, relayVars>>
  BY DEF SiteDecide
<1>2. OpInv /\ Site!StateInv /\ Site!FeedInv
  BY DEF RelayInv, SiteInv
<1>3. \A q \in Op : op[q] # None => op'[q] # None
  <2>1. PICK x : op' = [op EXCEPT ![r] = x]
    BY <1>1, Zenon DEF Site!Decide
  <2> QED BY <1>1, <1>2, <2>1 DEF OpInv
<1>4. shown' \in {None, shown}
  BY <1>1
<1>5. /\ Site!OpInv' /\ Site!StateInv' /\ Site!FeedInv'
      /\ \E e \in Site!Entry : Site!Announced(e)
  BY <1>1, <1>2, <1>4, SameOperations, SameAssumptions, Site!DecideStep, SMTT(30)
<1> QED
  BY <1>1, <1>3, <1>5, SameOperations, SameData, SiteKeeps

\* A change with the site's editor.
LEMMA SiteChangeStep ==
    ASSUME RelayInv, NEW a \in SiteEdit, NEW i \in Id, SiteChange(a, i)
    PROVE  RelayInv'
<1>1. /\ Site!DeskEdit(a, i) /\ op' = op
      /\ UNCHANGED <<proj, outcome, feed, floor, passed, resolved, shown, relayVars>>
  BY DEF SiteChange, Site!DeskEdit
<1>2. OpInv /\ Site!StateInv /\ Site!FeedInv
  BY DEF RelayInv, SiteInv
<1>3. /\ Site!OpInv' /\ Site!StateInv' /\ Site!FeedInv'
      /\ \E e \in Site!Entry : Site!Announced(e)
  BY <1>1, <1>2, SameOperations, SameAssumptions, Site!EditStep, Zenon
<1> QED
  BY <1>1, <1>3, SameOperations, SameData, SiteKeeps

\* The site archives a part of its feed.
LEMMA SiteCompactStep ==
    ASSUME RelayInv, NEW n \in 1 .. Len(siteFeed), SiteCompact(n)
    PROVE  RelayInv'
<1>1. /\ Site!Compact(n) /\ op' = op
      /\ UNCHANGED <<proj, outcome, feed, floor, passed, resolved, shown, relayVars>>
  BY DEF SiteCompact, Site!Compact
<1>2. OpInv /\ Site!StateInv /\ Site!FeedInv
  BY DEF RelayInv, SiteInv
<1>3. /\ Site!OpInv' /\ Site!StateInv' /\ Site!FeedInv'
      /\ siteProj' = siteProj /\ siteFeed' = siteFeed
  BY <1>1, <1>2, SameOperations, SameAssumptions, Site!OtherSteps, Zenon
<1> QED
  BY <1>1, <1>3, SameOperations, SiteKeeps

\* The site publishes an action for a decided operation.
LEMMA SitePublishes ==
    ASSUME SiteInv, NEW r \in Op, NEW out \in Final, siteOutcome' = [siteOutcome EXCEPT ![r] = out],
           NEW e \in Entry, siteFeed' = Append(siteFeed, e), e.id = r
    PROVE  Site!FeedInv' /\ siteFeed' \in Seq(Entry) /\ Len(siteFeed') >= Len(siteFeed)
<1>1. Site!StateInv /\ Site!FeedInv /\ e \in Site!Entry
  BY SameData DEF SiteInv
<1>2. siteOutcome \in [Op -> Final \cup {"none", "waiting"}] /\ siteFeed \in Seq(Entry)
  BY <1>1, SameData, Zenon DEF Site!StateInv
<1>3. siteOutcome'[r] \notin {"none", "waiting"}
  BY <1>2 DEF Final, Accepted
<1>4. \A q \in Op : siteOutcome[q] \notin {"none", "waiting"}
                    => siteOutcome'[q] \notin {"none", "waiting"}
  BY <1>2, <1>3
<1>5. Site!FeedInv'
  BY <1>1, <1>3, <1>4, SameAssumptions, Site!FeedGrows
<1> QED
  BY <1>2, <1>5, Appended

\* The Desk's decision on a conflict is delivered to the site: it is published if the site has the
\* conflict as well, as the decision or, where that one is decided, as another conflict.
LEMMA SiteResolveTells ==
    ASSUME RelayInv, NEW r \in Op, SiteResolve(r)
    PROVE  /\ OpInv' /\ Site!StateInv' /\ Site!FeedInv' /\ UNCHANGED <<deskVars, relayVars>>
           /\ \/ siteProj' = siteProj /\ siteFeed' = siteFeed /\ siteOutcome'[r] = "rejected"
              \/ /\ siteOutcome[op[r].cmd.ref] = "conflict"
                 /\ \E e \in Entry : Site!Announced(e) /\ e.id = r /\ e.outcome = siteOutcome'[r]
           /\ \A q \in Op : q # r => siteOutcome'[q] = siteOutcome[q]
<1>1. OpInv /\ SiteInv /\ Site!StateInv /\ Site!FeedInv
  BY DEF RelayInv, SiteInv
<1>2. /\ op[r] # None /\ op' = op /\ siteOutcome[r] = "none" /\ UNCHANGED <<siteFloor, deskVars, relayVars>>
  BY DEF SiteResolve, IsResolution, deskVars
<1>3. PICK o, from, to : o = op[r].cmd.ref /\ from = op[r].before /\ to = op[r].after
  OBVIOUS
<1>4. /\ DOMAIN to = DOMAIN from /\ DOMAIN to \subseteq Id /\ r \in Action /\ {r} \in SUBSET Action
      /\ \A i \in DOMAIN to : from[i] \in Registration /\ to[i] \in Registration
  BY <1>1, <1>2, <1>3 DEF OpInv, Action
<1>5. /\ siteProj \in [Id -> Maybe(Row)]
      /\ siteOutcome \in [Op -> Final \cup {"none", "waiting"}]
      /\ \A q \in Op : siteOutcome[q] # "none" => op[q] # None
      /\ siteFeed \in Seq(Entry) /\ siteFloor \in 0 .. Len(siteFeed)
      /\ siteResolved \in [Op -> Maybe(Op)]
      /\ passed \subseteq Timed /\ (shown = None \/ shown.op \in Op)
  BY <1>1, SameData, Zenon DEF Site!StateInv
<1>6. ASSUME NEW out \in Final, siteOutcome' = [siteOutcome EXCEPT ![r] = out],
             siteProj' \in [Id -> Maybe(Row)], siteResolved' \in [Op -> Maybe(Op)],
             siteFeed' \in Seq(Entry), Len(siteFeed') >= Len(siteFeed)
      PROVE  Site!StateInv'
  <2>1. /\ siteOutcome' \in [Op -> Final \cup {"none", "waiting"}]
        /\ \A q \in Op : siteOutcome'[q] # "none" => op'[q] # None
    BY <1>2, <1>5, <1>6
  <2>2. siteFloor' \in 0 .. Len(siteFeed') /\ passed' \subseteq Timed /\ (shown' = None \/ shown'.op \in Op)
    BY <1>2, <1>5, <1>6 DEF deskVars
  <2> QED BY <1>6, <2>1, <2>2, SameData, Zenon DEF Site!StateInv
<1>7. OpInv' /\ UNCHANGED <<deskVars, relayVars>>
  BY <1>1, <1>2, OpsSame
<1>8. CASE siteOutcome[o] = "conflict" /\ siteResolved[o] = None
  <2>1. /\ siteOutcome' = [siteOutcome EXCEPT ![r] = "applied"]
        /\ siteResolved' = [siteResolved EXCEPT ![o] = r]
        /\ siteProj' = [i \in Id |->
              IF i \notin DOMAIN to THEN siteProj[i]
              ELSE IF ~IsVirtual(i, to[i]) THEN Stored(Bare(to[i]), {r})
              ELSE IF siteProj[i] = None THEN None
              ELSE [siteProj[i] EXCEPT !.deleted = TRUE]]
        /\ siteFeed' = Append(siteFeed, [id |-> r, outcome |-> "applied",
                                         changes |-> DecidedChanges(from, to)])
    BY <1>3, <1>8, Zenon DEF SiteResolve
  <2>2. PICK ch : ch = DecidedChanges(from, to)
    OBVIOUS
  <2>3. PICK e : e = [id |-> r, outcome |-> "applied", changes |-> ch]
    OBVIOUS
  <2>4. /\ DOMAIN ch = DOMAIN to /\ ch = [i \in DOMAIN to |-> ch[i]]
        /\ \A i \in DOMAIN to : ch[i] = [before |-> Bare(from[i]),
                                         after |-> IF IsVirtual(i, to[i]) THEN None ELSE Bare(to[i])]
    BY <2>2 DEF DecidedChanges
  <2>5. ASSUME NEW i \in DOMAIN to
        PROVE  /\ Bare(from[i]) \in Registration /\ Bare(to[i]) \in Registration
               /\ Bare(from[i]) # None /\ Bare(Bare(to[i])) = Bare(to[i]) /\ ch[i] \in Image
    <3>1. /\ Bare(from[i]) \in Registration /\ Bare(to[i]) \in Registration
          /\ Bare(from[i]) # None /\ Bare(Bare(to[i])) = Bare(to[i])
      <4>1. from[i] \in Registration /\ to[i] \in Registration
        BY <1>4
      <4>2. Bare(from[i]) \in Registration /\ Bare(to[i]) \in Registration
        BY <4>1, BareType
      <4>3. Bare(Bare(to[i])) = Bare(to[i])
        BY <4>1, BareAgain
      <4> QED BY <4>2, <4>3, DeskAssumption
    <3>2. ch[i] \in Image
      BY <2>4, <3>1 DEF Image, Change, Maybe
    <3> QED BY <3>1, <3>2
  <2>6. ch \in [DOMAIN to -> Image]
    BY <2>4, <2>5
  <2>7. e \in Entry
    BY <1>4, <2>3, <2>6, EntryType DEF Accepted
  <2>8. ASSUME NEW i \in Id PROVE siteProj'[i] \in Maybe(Row)
    <3>1. CASE i \notin DOMAIN to
      BY <1>5, <2>1, <3>1
    <3>2. CASE i \in DOMAIN to /\ ~IsVirtual(i, to[i])
      <4>1. siteProj'[i] = Stored(Bare(to[i]), {r}) /\ Bare(to[i]) \in Registration
        BY <2>1, <2>5, <3>2
      <4>2. Stored(Bare(to[i]), {r}) \in Row
        BY <1>4, <4>1, StoredRow
      <4> QED BY <4>1, <4>2 DEF Maybe
    <3>3. CASE i \in DOMAIN to /\ IsVirtual(i, to[i])
      <4>1. siteProj'[i] = IF siteProj[i] = None THEN None ELSE [siteProj[i] EXCEPT !.deleted = TRUE]
        BY <2>1, <3>3
      <4> QED BY <1>5, <4>1 DEF Maybe, Row
    <3> QED BY <3>1, <3>2, <3>3
  <2>9. siteProj' \in [Id -> Maybe(Row)] /\ siteResolved' \in [Op -> Maybe(Op)]
    <3>1. siteProj' = [i \in Id |-> siteProj'[i]]
      BY <2>1
    <3> QED BY <1>5, <2>1, <2>8, <3>1 DEF Maybe
  <2>10. ASSUME NEW i \in DOMAIN to
         PROVE  IF ch[i].after # None
                THEN Site!Live(i)' /\ Site!Bare(siteProj'[i].value) = ch[i].after
                ELSE Site!Live(i)' => Site!IsVirtual(i, Site!Bare(siteProj'[i].value))
    <3>1. CASE ~IsVirtual(i, to[i])
      <4>1. siteProj'[i] = Stored(Bare(to[i]), {r}) /\ ch[i].after = Bare(to[i])
        BY <1>4, <2>1, <2>4, <3>1
      <4>2. /\ siteProj'[i] # None /\ siteProj'[i].deleted = FALSE
            /\ siteProj'[i].value = Bare(to[i])
        <5>1. PICK x : x = Bare(to[i])
          OBVIOUS
        <5>2. x \in Registration
          BY <2>5, <5>1
        <5>3. /\ Stored(x, {r}) # None /\ Stored(x, {r}).value = x
              /\ Stored(x, {r}).deleted = FALSE
          BY <1>4, <5>2, StoredRow
        <5> QED BY <4>1, <5>1, <5>3
      <4> QED BY <2>5, <4>1, <4>2, SameData, DeskAssumption DEF Site!Live, Site!Found
    <3>2. CASE IsVirtual(i, to[i])
      <4>1. /\ siteProj'[i] = IF siteProj[i] = None THEN None ELSE [siteProj[i] EXCEPT !.deleted = TRUE]
            /\ ch[i].after = None
        BY <1>4, <2>1, <2>4, <3>2
      <4>2. ~ Site!Live(i)'
        BY <1>4, <1>5, <4>1 DEF Site!Live, Site!Found, Maybe, Row
      <4> QED BY <4>1, <4>2
    <3> QED BY <3>1, <3>2
  <2>11. Site!Announced(e)
    <3>1. /\ siteFeed' = Append(siteFeed, e) /\ e.changes = ch /\ DOMAIN ch = DOMAIN to
          /\ \A i \in Id \ DOMAIN to : siteProj'[i] = siteProj[i]
      BY <2>1, <2>2, <2>3, <2>4
    <3> QED BY <2>10, <3>1 DEF Site!Announced
  <2>12. Site!FeedInv' /\ siteFeed' \in Seq(Entry) /\ Len(siteFeed') >= Len(siteFeed)
    BY <1>1, <2>1, <2>2, <2>3, <2>7, SitePublishes DEF Final, Accepted
  <2>13. Site!StateInv'
    BY <1>6, <2>1, <2>9, <2>12 DEF Final, Accepted
  <2>14. e.id = r /\ e.outcome = "applied" /\ siteOutcome'[r] = "applied"
    BY <1>5, <2>1, <2>3
  <2>15. \A q \in Op : q # r => siteOutcome'[q] = siteOutcome[q]
    BY <1>5, <2>1
  <2> QED BY <1>3, <1>8, <1>7, <2>7, <2>11, <2>12, <2>13, <2>14, <2>15
<1>9. CASE ~(siteOutcome[o] = "conflict" /\ siteResolved[o] = None)
  <2>1. PICK out \in {"conflict", "rejected"} :
           /\ siteOutcome' = [siteOutcome EXCEPT ![r] = out]
           /\ siteFeed' = IF out = "conflict"
                          THEN Append(siteFeed, [id |-> r, outcome |-> "conflict", changes |-> NoChanges])
                          ELSE siteFeed
           /\ siteProj' = siteProj /\ siteResolved' = siteResolved
           /\ out = "conflict" => siteOutcome[o] = "conflict"
    <3>1. PICK out : out = IF siteOutcome[o] = "conflict" THEN "conflict" ELSE "rejected"
      OBVIOUS
    <3>2. /\ siteOutcome' = [siteOutcome EXCEPT ![r] =
                  IF siteOutcome[o] = "conflict" THEN "conflict" ELSE "rejected"]
          /\ siteFeed' = IF siteOutcome[o] = "conflict"
                         THEN Append(siteFeed, [id |-> r, outcome |-> "conflict", changes |-> NoChanges])
                         ELSE siteFeed
          /\ siteProj' = siteProj /\ siteResolved' = siteResolved
      BY <1>3, <1>9, Zenon DEF SiteResolve
    <3> QED BY <3>1, <3>2
  <2>2. PICK e : e = [id |-> r, outcome |-> "conflict", changes |-> NoChanges]
    OBVIOUS
  <2>3. NoChanges \in [{} -> Image] /\ {} \in SUBSET Id
    BY DEF NoChanges
  <2>4. e \in Entry /\ e.id = r /\ DOMAIN e.changes = {}
    <3>1. e \in Entry
      BY <1>4, <2>2, <2>3, EntryType
    <3> QED BY <2>2, <3>1 DEF NoChanges
  <2>5. out \in Final
    BY <2>1 DEF Final
  <2>6. \A q \in Op : q # r => siteOutcome'[q] = siteOutcome[q]
    BY <1>5, <2>1
  <2>7. CASE out = "conflict"
    <3>1. siteFeed' = Append(siteFeed, e)
      BY <2>1, <2>2, <2>7
    <3>2. Site!FeedInv' /\ siteFeed' \in Seq(Entry) /\ Len(siteFeed') >= Len(siteFeed)
      BY <1>1, <2>1, <2>4, <2>5, <3>1, SitePublishes
    <3>3. Site!StateInv'
      BY <1>5, <1>6, <2>1, <2>5, <3>2
    <3>4. Site!Announced(e)
      BY <2>1, <2>4, <3>1 DEF Site!Announced
    <3>5. siteOutcome[o] = "conflict" /\ e.outcome = siteOutcome'[r]
      BY <1>5, <2>1, <2>2, <2>7
    <3> QED BY <1>3, <1>7, <2>4, <2>6, <3>2, <3>3, <3>4, <3>5
  <2>8. CASE out # "conflict"
    <3>1. siteFeed' = siteFeed
      BY <2>1, <2>8
    <3>2. Site!StateInv'
      <4>1. siteFeed' \in Seq(Entry) /\ Len(siteFeed') >= Len(siteFeed)
        BY <1>5, <3>1
      <4>2. siteProj' \in [Id -> Maybe(Row)] /\ siteResolved' \in [Op -> Maybe(Op)]
        BY <1>5, <2>1
      <4> QED BY <1>6, <2>1, <2>5, <4>1, <4>2
    <3>3. \A q \in Op : siteOutcome[q] \notin {"none", "waiting"}
                        => siteOutcome'[q] \notin {"none", "waiting"}
      BY <1>2, <1>5, <2>1
    <3>4. Site!FeedInv'
      BY <1>1, <3>1, <3>3 DEF Site!FeedInv
    <3>5. siteOutcome'[r] = "rejected"
      BY <1>5, <2>1, <2>8
    <3> QED BY <1>7, <2>1, <2>6, <3>1, <3>2, <3>4, <3>5
  <2> QED BY <2>7, <2>8
<1> QED
  BY <1>8, <1>9

\* It keeps the invariant.
LEMMA SiteResolveStep ==
    ASSUME RelayInv, NEW r \in Op, SiteResolve(r)
    PROVE  RelayInv'
<1>1. /\ OpInv' /\ Site!StateInv' /\ Site!FeedInv'
      /\ UNCHANGED <<op, proj, outcome, feed, floor, passed, resolved, shown, relayVars>>
      /\ (siteProj' = siteProj /\ siteFeed' = siteFeed) \/ \E e \in Entry : Site!Announced(e)
  BY SiteResolveTells, Zenon DEF deskVars
<1> QED
  BY <1>1, SiteKeeps

-----------------------------------------------------------------------------
(* The steps of the Desk.                                                  *)

\* An operation that has been made stays as it is.
LEMMA OpsStay ==
    ASSUME OpInv, [DeskNext]_deskVars
    PROVE  \A q \in Op : op[q] # None => op'[q] = op[q]
<1>1. ASSUME NEW o \in Op, op[o] = None, NEW x, op' = [op EXCEPT ![o] = x]
      PROVE  \A q \in Op : op[q] # None => op'[q] = op[q]
  BY <1>1 DEF OpInv
<1>2. ASSUME NEW o \in Op, Create(o) PROVE \A q \in Op : op[q] # None => op'[q] = op[q]
  <2>1. op[o] = None /\ \E x : op' = [op EXCEPT ![o] = x]
    BY <1>2, Zenon DEF Create
  <2> QED BY <1>1, <2>1
<1>3. ASSUME NEW r \in Op, NEW keep \in BOOLEAN, Resolve(r, keep)
      PROVE  \A q \in Op : op[q] # None => op'[q] = op[q]
  <2>1. op[r] = None /\ \E x : op' = [op EXCEPT ![r] = x]
    BY <1>3, Zenon DEF Resolve, Decide
  <2> QED BY <1>1, <2>1
<1>4. ASSUME \/ \E o \in Op : Receive(o) \/ Show(o)
             \/ \E e \in Edit, i \in Id : DeskEdit(e, i)
             \/ \E x \in Timed : Pass(x)
             \/ \E n \in 1 .. Len(feed) : Compact(n)
             \/ UNCHANGED deskVars
      PROVE  op' = op
  BY <1>4 DEF Receive, Show, DeskEdit, Pass, Compact, deskVars
<1> QED
  BY <1>2, <1>3, <1>4 DEF DeskNext

\* What the Desk does by itself is nothing to the site's tables.
LEMMA SiteKept ==
    ASSUME SiteInv, StateInv', UNCHANGED siteVars, \A q \in Op : op[q] # None => op'[q] # None
    PROVE  SiteInv'
<1>1. Site!StateInv /\ Site!FeedInv /\ Agrees(siteFeed, SiteRoster, Len(siteFeed))
  BY DEF SiteInv
<1>2. Site!StateInv'
  BY <1>1, Zenon DEF siteVars, StateInv, Site!StateInv
<1>3. SiteRoster' = SiteRoster
  BY Zenon DEF SiteRoster, Site!Live, Site!Found, siteVars
<1>4. Site!FeedInv'
  BY <1>1, Zenon DEF siteVars, Site!FeedInv
<1> QED
  BY <1>1, <1>2, <1>3, <1>4 DEF siteVars, SiteInv

\* The Desk's own operations.
LEMMA DeskStepHolds ==
    ASSUME RelayInv, DeskStep
    PROVE  RelayInv'
<1>1. /\ DeskNext /\ UNCHANGED <<siteVars, base, cursor, heard, boot, rebases>>
      /\ again' \in BOOLEAN
  <2>1. (again \/ \E o \in Op : heard[o] # "none" /\ outcome'[o] # outcome[o]) \in BOOLEAN
    OBVIOUS
  <2> QED BY <2>1, Zenon DEF DeskStep
<1>2. OpInv' /\ StateInv'
  BY <1>1, CoreStep DEF RelayInv
<1>3. \A q \in Op : op[q] # None => op'[q] # None
  BY <1>1, OpsStay DEF RelayInv
<1>4. SiteInv'
  BY <1>1, <1>2, <1>3, SiteKept DEF RelayInv
<1>5. ViewInv' /\ BootInv' /\ BaseInv'
  BY <1>1, ViewKept DEF RelayInv, Longer, siteVars
<1> QED
  BY <1>2, <1>4, <1>5 DEF RelayInv

\* A bootstrap has the site's roster at the cursor it names (FetchPacketBootstrap).
LEMMA FetchStep ==
    ASSUME RelayInv, FetchBootstrap
    PROVE  RelayInv'
<1>1. /\ boot' = SiteSnapshot /\ UNCHANGED <<deskVars, siteVars, base, cursor, heard, rebases, again>>
  BY DEF FetchBootstrap
<1>2. OpInv' /\ StateInv'
  <2>1. OpInv /\ StateInv /\ UNCHANGED deskVars
    BY <1>1 DEF RelayInv
  <2> QED BY <2>1, CoreStep
<1>3. SiteInv'
  BY <1>1, <1>2, SiteKept DEF RelayInv, deskVars
<1>4. ViewInv' /\ BaseInv'
  <2>1. ViewInv'
    BY <1>1 DEF RelayInv, ViewInv, siteVars
  <2>2. BaseInv'
    BY <1>1, Zenon DEF RelayInv, BaseInv, Baseline, siteVars
  <2> QED BY <2>1, <2>2
<1>5. BootInv'
  <2>1. PICK f, n, rows : f = siteFeed /\ n = Len(siteFeed) /\ rows = SiteSnapshot.rows
    OBVIOUS
  <2>2. n \in Nat
    <3>1. siteFeed \in Seq(Entry)
      BY SameData, Zenon DEF RelayInv, SiteInv, Site!StateInv
    <3> QED BY <2>1, <3>1
  <2>3. boot' = SiteSnapshot /\ siteFeed' = f /\ SiteSnapshot.cursor = n
    BY <1>1, <2>1 DEF siteVars, SiteSnapshot
  <2>4. ASSUME NEW i \in Id
        PROVE  /\ rows[i] \in Maybe(Registration)
               /\ SiteRoster[i] # None => rows[i] # None /\ Bare(rows[i]) = Bare(SiteRoster[i])
    <3>1. rows[i] = IF Site!Live(i) THEN Site!Current(i) ELSE None
      BY <2>1 DEF SiteSnapshot, Site!Live, Site!Found
    <3>2. CASE Site!Live(i)
      BY <3>1, <3>2, SiteRow DEF SiteRoster, Maybe, RelayInv, SiteInv
    <3>3. CASE ~Site!Live(i)
      BY <3>1, <3>3 DEF SiteRoster, Maybe
    <3> QED BY <3>2, <3>3
  <2>5. rows \in [Id -> Maybe(Registration)]
    <3>1. rows = [i \in Id |-> rows[i]]
      BY <2>1 DEF SiteSnapshot
    <3> QED BY <2>4, <3>1
  <2>6. Agrees(f, SiteRoster, n)
    BY <2>1 DEF RelayInv, SiteInv
  <2>7. Agrees(f, rows, n)
    BY <2>4, <2>6 DEF Agrees
  <2>8. n \in 0 .. Len(f)
    BY <2>1, <2>2
  <2> QED BY <2>1, <2>3, <2>5, <2>7, <2>8 DEF BootInv
<1> QED
  BY <1>2, <1>3, <1>4, <1>5 DEF RelayInv

-----------------------------------------------------------------------------
(* Merging what the site has published.                                    *)

\* An image as a feed has it, or as a rebase makes it of baseline and bootstrap.
IsChange(ch) == ch.before \in Maybe(Registration) /\ ch.after \in Maybe(Registration)

\* A merge leaves a registration, or none (mergePacketFeedChange).
LEMMA MergedType ==
    ASSUME StateInv, NEW i \in Id, NEW ch, IsChange(ch)
    PROVE  /\ Live(i) <=> Present(i) # None
           /\ Live(i) => Present(i) = Current(i) /\ Current(i) \in Registration
           /\ MergedWith(i, ch) \in Maybe(Registration)
           /\ ch.after # None => MergedWith(i, ch) \in Registration
<1>1. None \notin Registration
  BY DeskAssumption
<1>2. ASSUME Live(i) PROVE Present(i) = Current(i) /\ Current(i) \in Registration
  BY <1>2, CurrentType DEF Present, Live
<1>3. Live(i) <=> Present(i) # None
  BY <1>1, <1>2 DEF Present
<1>4. PICK a, b : b = ch.before /\ a = ch.after
  OBVIOUS
<1>5. CASE a = None
  <2>1. MergedWith(i, ch) = None
    BY <1>4, <1>5 DEF MergedWith
  <2> QED BY <1>2, <1>3, <1>4, <1>5, <2>1 DEF Maybe
<1>6. CASE a # None
  <2>1. a \in Registration
    BY <1>4, <1>6 DEF IsChange, Maybe
  <2>2. MergedWith(i, ch) \in Registration
    <3>1. CASE Present(i) = None
      BY <1>4, <1>6, <2>1, <3>1 DEF MergedWith
    <3>2. CASE Present(i) # None /\ b = None
      <4>1. MergedWith(i, ch) = Present(i)
        BY <1>4, <1>6, <3>2 DEF MergedWith
      <4> QED BY <1>2, <1>3, <3>2, <4>1
    <3>3. CASE Present(i) # None /\ b # None
      <4>1. MergedWith(i, ch) = Overlay(b, a, Present(i))
        BY <1>4, <1>6, <3>3, Zenon DEF MergedWith
      <4>2. b \in Registration /\ Present(i) \in Registration
        BY <1>2, <1>3, <1>4, <3>3 DEF IsChange, Maybe
      <4> QED BY <2>1, <4>1, <4>2, OverlayType
    <3> QED BY <3>1, <3>2, <3>3
  <2> QED BY <1>2, <1>3, <2>2 DEF Maybe
<1> QED
  BY <1>5, <1>6

\* What is written of it (applyPacketFeedPlans).
LEMMA PlannedType ==
    ASSUME StateInv, NEW i \in Id, NEW r \in Maybe(Registration), NEW heads \in SUBSET Action
    PROVE  /\ Planned(i, r, heads) \in Maybe(Row)
           /\ r # None => Planned(i, r, heads).value = r
           /\ r = None => \/ Planned(i, r, heads) = proj[i]
                          \/ Planned(i, r, heads).value = proj[i].value
<1>1. CASE r # None
  <2>1. r \in Registration /\ Planned(i, r, heads) = Stored(r, heads)
    BY <1>1 DEF Maybe, Planned
  <2>2. Stored(r, heads) \in Row /\ Stored(r, heads).value = r
    BY <2>1, StoredRow
  <2> QED BY <1>1, <2>1, <2>2 DEF Maybe
<1>2. CASE r = None /\ Live(i)
  <2>1. proj[i] \in Row
    BY <1>2 DEF StateInv, Live, Found, Maybe
  <2>2. Planned(i, r, heads) = [proj[i] EXCEPT !.deleted = TRUE, !.heads = heads]
    BY <1>2 DEF Planned, Deleted
  <2> QED BY <1>2, <2>1, <2>2 DEF Row, Maybe
<1>3. CASE r = None /\ ~Live(i)
  <2>1. Planned(i, r, heads) = proj[i]
    BY <1>3 DEF Planned
  <2> QED BY <1>3, <2>1 DEF StateInv
<1> QED
  BY <1>1, <1>2, <1>3

\* A mergeable change leaves every local value alone that is not the baseline's.
LEMMA MergeKeepsLocal ==
    ASSUME StateInv, NEW i \in Id, Live(i), NEW ch, IsChange(ch), ch.after # None,
           Mergeable(i, ch), NEW w \in Registration, Bare(w) = Bare(MergedWith(i, ch)),
           Bare(w) # Bare(proj[i].value)
    PROVE  /\ ch.before # None
           /\ \A p \in Paths({proj[i].value, w, ch.before}) \ {"evidence"} :
                 At(proj[i].value, p) \in {At(ch.before, p), At(w, p)}
<1>1. PICK a, b : b = ch.before /\ a = ch.after
  OBVIOUS
<1>2. PICK r, v : r = Current(i) /\ v = proj[i].value
  OBVIOUS
<1>3. r \in Registration /\ v \in Registration /\ Bare(v) = Bare(r) /\ Present(i) = r /\ r # None
  <2>1. r \in Registration /\ v \in Registration /\ Bare(v) = Bare(r)
    BY <1>2, CurrentType DEF Live
  <2>2. Present(i) = r
    BY <1>2 DEF Present
  <2> QED BY <2>1, <2>2, DeskAssumption
<1>4. a \in Registration /\ a # None
  BY <1>1 DEF IsChange, Maybe
<1>5. b # None
  <2> SUFFICES ASSUME b = None PROVE FALSE
    OBVIOUS
  <2>1. MergedWith(i, ch) = r
    BY <1>1, <1>3, <1>4 DEF MergedWith
  <2> QED BY <1>2, <1>3, <2>1
<1>6. b \in Registration
  BY <1>1, <1>5 DEF IsChange, Maybe
<1>7. MergedWith(i, ch) = Overlay(b, a, r)
  BY <1>1, <1>3, <1>4, <1>5, Zenon DEF MergedWith
<1>8. Compatible(b, a, Bare(r))
  BY <1>1, <1>3, <1>4, <1>5, Zenon DEF Mergeable
<1>9. Bare(w) = Bare(Overlay(b, a, r))
  BY <1>7
<1>10. ASSUME NEW p \in Paths({v, w, b}) \ {"evidence"}
       PROVE  At(v, p) \in {At(b, p), At(w, p)}
  BY <1>3, <1>4, <1>6, <1>8, <1>9, <1>10, MergeKeepsOwn
<1> QED
  BY <1>1, <1>2, <1>5, <1>10

-----------------------------------------------------------------------------
(* An action of the site's feed (ApplyPacketFeedPage).                     *)

\* The action after the cursor.
IsNext(a) ==
    /\ a = NextAction /\ a \in Entry /\ a = siteFeed[cursor + 1] /\ cursor \in Nat
    /\ cursor + 1 \in 1 .. Len(siteFeed) /\ heard[a.id] = "none" /\ Acceptable(a)

\* It is an action the site has published, and of an operation that has been made.
LEMMA NextIs ==
    ASSUME RelayInv, ApplyAction
    PROVE  \E a : IsNext(a) /\ (a.id \in Op => op[a.id] # None)
<1>1. PICK a : a = NextAction
  OBVIOUS
<1>2. /\ cursor < Len(siteFeed) /\ heard[a.id] = "none" /\ Acceptable(a)
  BY <1>1, Zenon DEF ApplyAction
<1>3. /\ siteFeed \in Seq(Entry) /\ siteOutcome \in [Op -> Final \cup {"none", "waiting"}]
      /\ \A q \in Op : siteOutcome[q] # "none" => op[q] # None
  BY SameData, Zenon DEF RelayInv, SiteInv, Site!StateInv
<1>4. cursor \in Nat /\ cursor + 1 \in 1 .. Len(siteFeed)
  BY <1>2, <1>3 DEF RelayInv, ViewInv
<1>5. a = siteFeed[cursor + 1] /\ a \in Entry
  BY <1>1, <1>3, <1>4 DEF NextAction
<1>6. a.id \in Op => op[a.id] # None
  BY <1>3, <1>4, <1>5 DEF RelayInv, SiteInv, Site!FeedInv
<1> QED
  BY <1>1, <1>2, <1>4, <1>5, <1>6 DEF IsNext

\* What it does to the roster.
LEMMA AppliedRowsType ==
    ASSUME StateInv, NEW a \in Entry, NEW gone
    PROVE  AppliedChanges(a.changes, gone, a.id) \in [Id -> Maybe(Row)]
<1>1. PICK ch, id, new : ch = a.changes /\ id = a.id /\ new = AppliedChanges(ch, gone, id)
  OBVIOUS
<1>2. id \in Action /\ \A i \in DOMAIN ch : IsChange(ch[i])
  BY <1>1, EntryImages DEF IsChange
<1>3. new = [i \in Id |-> IF i \in DOMAIN ch
                        THEN Planned(i, MergedWith(i, ch[i]), (Heads(i) \ gone) \cup {id})
                        ELSE proj[i]]
  BY <1>1, Zenon DEF AppliedChanges
<1>4. ASSUME NEW i \in Id PROVE new[i] \in Maybe(Row)
  <2>1. CASE i \in DOMAIN ch
    <3>1. Heads(i) \subseteq Action
      BY CurrentType DEF Heads
    <3>2. PICK heads, r : heads = (Heads(i) \ gone) \cup {id} /\ r = MergedWith(i, ch[i])
      OBVIOUS
    <3>3. heads \in SUBSET Action /\ r \in Maybe(Registration)
      BY <1>2, <2>1, <3>1, <3>2, MergedType
    <3>4. new[i] = Planned(i, r, heads)
      BY <1>3, <2>1, <3>2
    <3> QED BY <3>3, <3>4, PlannedType
  <2>2. CASE i \notin DOMAIN ch
    BY <1>3, <2>2 DEF StateInv
  <2> QED BY <2>1, <2>2
<1> QED
  BY <1>1, <1>3, <1>4

\* What it does to the Desk's tables.
LEMMA ApplyKeepsDesk ==
    ASSUME RelayInv, ApplyAction
    PROVE  OpInv' /\ StateInv'
<1>1. PICK a : IsNext(a) /\ (a.id \in Op => op[a.id] # None)
  BY NextIs
<1>2. PICK application : application = Application(a)
  OBVIOUS
<1>3. /\ proj' = IF application = "applied"
                 THEN AppliedChanges(a.changes,
                        IF IsResolution(a.id) THEN {op[a.id].cmd.ref} ELSE {}, a.id)
                 ELSE proj
      /\ outcome' = IF IsOperation(a)
                    THEN [outcome EXCEPT ![a.id] = ReceivedOutcome(a, application)] ELSE outcome
      /\ resolved' = IF IsResolution(a.id) /\ a.outcome # "conflict"
                        /\ resolved[op[a.id].cmd.ref] = None
                     THEN [resolved EXCEPT ![op[a.id].cmd.ref] = a.id] ELSE resolved
      /\ feed' = Relayed(a)
      /\ op' = op /\ floor' = floor /\ passed' = passed /\ shown' = shown
  BY <1>1, <1>2, Zenon DEF ApplyAction, IsNext
<1>4. OpInv /\ StateInv /\ a \in Entry
  BY <1>1 DEF RelayInv, IsNext
<1>5. proj' \in [Id -> Maybe(Row)]
  BY <1>3, <1>4, AppliedRowsType DEF StateInv
<1>6. /\ outcome' \in [Op -> Final \cup {"none", "waiting"}]
      /\ \A q \in Op : outcome'[q] # "none" => op'[q] # None
  <2>1. CASE IsOperation(a)
    <3>1. a.id \in Op
      BY <2>1 DEF IsOperation
    <3>2. PICK out : out = ReceivedOutcome(a, application)
      OBVIOUS
    <3>3. out \in Final \cup {"none", "waiting"}
      BY <1>4, <3>1, <3>2 DEF ReceivedOutcome, StateInv, Final, Accepted
    <3>4. outcome' = [outcome EXCEPT ![a.id] = out]
      BY <1>3, <2>1, <3>2
    <3> QED BY <1>1, <1>3, <1>4, <3>1, <3>3, <3>4 DEF StateInv
  <2>2. CASE ~IsOperation(a)
    BY <1>3, <1>4, <2>2 DEF StateInv
  <2> QED BY <2>1, <2>2
<1>7. resolved' \in [Op -> Maybe(Op)]
  <2>1. CASE IsResolution(a.id)
    <3>1. a.id \in Op
      BY <2>1 DEF IsResolution
    <3> QED BY <1>3, <1>4, <3>1 DEF StateInv, Maybe
  <2>2. CASE ~IsResolution(a.id)
    BY <1>3, <1>4, <2>2 DEF StateInv
  <2> QED BY <2>1, <2>2
<1>8. feed' \in Seq(Entry) /\ floor' \in 0 .. Len(feed')
  <2>1. feed \in Seq(Entry) /\ floor \in 0 .. Len(feed) /\ floor' = floor
    BY <1>3, <1>4 DEF StateInv
  <2>2. feed' = feed \/ feed' = Append(feed, a)
    BY <1>3 DEF Relayed
  <2>3. Append(feed, a) \in Seq(Entry) /\ Len(feed) \in Nat /\ Len(Append(feed, a)) = Len(feed) + 1
    BY <1>4, <2>1, Appended
  <2> QED BY <2>1, <2>2, <2>3
<1>9. OpInv'
  BY <1>3, <1>4, OpsSame
<1>10. StateInv'
  BY <1>3, <1>4, <1>5, <1>6, <1>7, <1>8 DEF StateInv
<1> QED
  BY <1>9, <1>10

\* What it does to the baseline (advancePacketSiteBaseline): that is what the feed says with it.
LEMMA ApplyAdvances ==
    ASSUME RelayInv, ApplyAction
    PROVE  ViewInv' /\ BaseInv'
<1>1. PICK a : IsNext(a)
  BY NextIs
<1>2. PICK application : application = Application(a)
  OBVIOUS
<1>3. /\ heard' = [heard EXCEPT ![a.id] = application]
      /\ base' = IF Trusted(a) THEN AdvancedBase(a.changes) ELSE base
      /\ cursor' = cursor + 1 /\ rebases' = rebases /\ again' = again /\ siteFeed' = siteFeed
  <2>1. /\ heard' = [heard EXCEPT ![a.id] = application]
        /\ base' = BaseAfter(a, application)
        /\ cursor' = cursor + 1 /\ UNCHANGED <<siteVars, rebases, again>>
    BY <1>1, <1>2, Zenon DEF ApplyAction, IsNext
  <2> QED BY <2>1 DEF BaseAfter, siteVars
<1>4. PICK f, n, ch : f = siteFeed /\ n = cursor /\ ch = a.changes
  OBVIOUS
<1>5. /\ a \in Entry /\ n \in Nat /\ n + 1 \in 1 .. Len(f) /\ f[n + 1] = a /\ ViewInv /\ BaseInv
  BY <1>1, <1>4 DEF IsNext, RelayInv
<1>6. /\ a.outcome \in Accepted \cup {"conflict"} /\ (a.outcome = "conflict" => DOMAIN ch = {})
      /\ DOMAIN ch \subseteq Id
      /\ \A i \in DOMAIN ch : /\ ch[i].before \in Maybe(Registration)
                              /\ ch[i].after \in Maybe(Registration)
                              /\ ch[i].before # None \/ ch[i].after # None
  BY <1>4, <1>5, EntryImages
<1>7. None \notin SiteValue
  BY RelayAssumption DEF SiteValue
<1>8. ASSUME NEW i \in Id
      PROVE  /\ base'[i] \in Maybe(SiteValue)
             /\ i \notin DOMAIN ch => base'[i] = base[i]
             /\ i \in DOMAIN ch /\ ch[i].after # None =>
                   base'[i] = [value |-> ch[i].after, deleted |-> FALSE]
             /\ base' = [j \in Id |-> base'[j]]
  <2>1. base[i] \in Maybe(SiteValue) /\ base = [j \in Id |-> base[j]]
    BY <1>5 DEF ViewInv
  <2>2. CASE ~Trusted(a)
    <3>1. DOMAIN ch = {}
      BY <1>6, <2>2 DEF Trusted
    <3> QED BY <1>3, <2>1, <2>2, <3>1
  <2>3. CASE Trusted(a)
    <3>1. base' = AdvancedBase(ch)
      BY <1>3, <1>4, <2>3
    <3>2. base' = [j \in Id |->
            IF j \notin DOMAIN ch THEN base[j]
            ELSE IF ch[j].after # None THEN [value |-> ch[j].after, deleted |-> FALSE]
            ELSE [value |-> IF base[j] # None THEN base[j].value ELSE ch[j].before,
                  deleted |-> TRUE]]
      BY <3>1, Zenon DEF AdvancedBase
    <3>3. CASE i \notin DOMAIN ch
      BY <2>1, <3>2, <3>3
    <3>4. CASE i \in DOMAIN ch /\ ch[i].after # None
      <4>1. ch[i].after \in Registration
        BY <1>6, <3>4 DEF Maybe
      <4>2. [value |-> ch[i].after, deleted |-> FALSE] \in Maybe(SiteValue)
        BY <4>1 DEF SiteValue, Maybe
      <4> QED BY <3>2, <3>4, <4>2
    <3>5. CASE i \in DOMAIN ch /\ ch[i].after = None
      <4>1. PICK v : v = IF base[i] # None THEN base[i].value ELSE ch[i].before
        OBVIOUS
      <4>2. v \in Registration
        BY <1>6, <2>1, <3>5, <4>1 DEF Maybe, SiteValue
      <4>3. base'[i] = [value |-> v, deleted |-> TRUE]
        BY <3>2, <3>5, <4>1
      <4>4. base'[i] \in Maybe(SiteValue)
        BY <4>2, <4>3 DEF SiteValue, Maybe
      <4> QED BY <3>2, <3>5, <4>4
    <3> QED BY <3>3, <3>4, <3>5
  <2> QED BY <2>2, <2>3
<1>9. base' \in [Id -> Maybe(SiteValue)]
  <2>1. base' = [j \in Id |-> base'[j]]
    <3>1. base = [j \in Id |-> base[j]]
      BY <1>5 DEF ViewInv
    <3>2. AdvancedBase(a.changes) = [j \in Id |-> AdvancedBase(a.changes)[j]]
      BY DEF AdvancedBase
    <3> QED BY <1>3, <3>1, <3>2
  <2> QED BY <1>8, <2>1
<1>10. ViewInv'
  <2>1. application \in {"applied", "observed", "review"}
    BY <1>2 DEF Application
  <2>2. heard' \in [Op \cup SiteEdit -> {"none", "applied", "observed", "review"}]
    BY <1>3, <1>5, <2>1 DEF ViewInv
  <2>3. cursor' \in 0 .. Len(siteFeed')
    BY <1>3, <1>4, <1>5
  <2> QED BY <1>3, <1>5, <1>9, <2>2, <2>3 DEF ViewInv
<1>11. ASSUME NEW i \in Id, UpTo(f, i, n + 1) # None PROVE Baseline(i)' = UpTo(f, i, n + 1)
  <2>1. UpTo(f, i, n + 1) = IF i \in DOMAIN ch THEN ch[i].after ELSE UpTo(f, i, n)
    BY <1>4, <1>5, UpToNext
  <2>2. Baseline(i)' = IF base'[i] = None \/ base'[i].deleted THEN None ELSE base'[i].value
    BY DEF Baseline
  <2>3. CASE i \in DOMAIN ch
    <3>1. base'[i] = [value |-> ch[i].after, deleted |-> FALSE] /\ ch[i].after \in Registration
      BY <1>6, <1>8, <1>11, <2>1, <2>3 DEF Maybe
    <3>2. base'[i] # None
      <4>1. base'[i] \in SiteValue
        BY <3>1 DEF SiteValue
      <4> QED BY <1>7, <4>1
    <3> QED BY <2>1, <2>2, <2>3, <3>1, <3>2
  <2>4. CASE i \notin DOMAIN ch
    <3>1. base'[i] = base[i] /\ UpTo(f, i, n) # None
      BY <1>8, <1>11, <2>1, <2>4
    <3>2. Baseline(i) = UpTo(f, i, n)
      BY <1>4, <1>5, <3>1 DEF BaseInv
    <3> QED BY <2>1, <2>2, <2>4, <3>1, <3>2 DEF Baseline
  <2> QED BY <2>3, <2>4
<1>12. BaseInv'
  <2>1. siteFeed' = f /\ cursor' = n + 1
    BY <1>3, <1>4
  <2> QED BY <1>11, <2>1, Zenon DEF BaseInv
<1> QED
  BY <1>10, <1>12

\* Together.
LEMMA ApplyStep ==
    ASSUME RelayInv, ApplyAction
    PROVE  RelayInv'
<1>1. OpInv' /\ StateInv' /\ ViewInv' /\ BaseInv'
  BY ApplyKeepsDesk, ApplyAdvances
<1>2. UNCHANGED <<op, siteVars, boot>> /\ boot = None
  BY DEF ApplyAction
<1>3. SiteInv'
  BY <1>1, <1>2, SiteKept DEF RelayInv
<1> QED
  BY <1>1, <1>2, <1>3 DEF RelayInv, BootInv

-----------------------------------------------------------------------------
(* A rebase (RebasePacketIssuanceRoster).                                  *)

\* What a rebase takes for a row that the site has changed.
LEMMA IncomingIs ==
    ASSUME ViewInv, BootInv, boot # None, NEW i \in Changed
    PROVE  /\ i \in Id /\ IsChange(Incoming(i))
           /\ boot.rows[i] \in Registration /\ Bare(boot.rows[i]) \in Registration
           /\ Incoming(i).before = Baseline(i) /\ Incoming(i).after = Bare(boot.rows[i])
           /\ Incoming(i).after # None
<1>1. i \in Id /\ boot.rows[i] # None
  BY DEF Changed
<1>2. boot.rows[i] \in Registration
  BY <1>1 DEF BootInv, Maybe
<1>3. Bare(boot.rows[i]) \in Registration /\ Bare(boot.rows[i]) # None
  BY <1>2, BareType, DeskAssumption
<1>4. Baseline(i) \in Maybe(Registration)
  BY <1>1 DEF Baseline, ViewInv, SiteValue, Maybe
<1> QED
  BY <1>1, <1>2, <1>3, <1>4 DEF IsChange, Incoming, Maybe

\* What it leaves there: the merged value, with timing evidence taken over, or the row as it was.
LEMMA RebasedRow ==
    ASSUME StateInv, ViewInv, BootInv, boot # None, NEW i \in Changed
    PROVE  /\ Rebased(i) \in Maybe(Row)
           /\ \/ /\ Mergeable(i, Incoming(i)) /\ Rebased(i).value \in Registration
                 /\ Bare(Rebased(i).value) = Bare(MergedWith(i, Incoming(i)))
              \/ Live(i) /\ Bare(Rebased(i).value) = Bare(proj[i].value)
              \/ Rebased(i) = proj[i]
<1>1. i \in Id /\ IsChange(Incoming(i)) /\ boot.rows[i] \in Registration /\ Incoming(i).after # None
  BY IncomingIs
<1>2. PICK heads \in SUBSET Action : heads = Heads(i)
  <2>1. Heads(i) \in SUBSET Action
    BY <1>1, CurrentType DEF Heads
  <2> QED BY <2>1
<1>3. ASSUME NEW r \in Registration
      PROVE  Timing(i, r) \in Registration /\ Bare(Timing(i, r)) = Bare(r)
  <2>1. PICK b \in BOOLEAN : b = (r.evidence \/ boot.rows[i].evidence)
    <3>1. r.evidence \in BOOLEAN /\ boot.rows[i].evidence \in BOOLEAN
      BY <1>1 DEF Registration
    <3> QED BY <3>1
  <2>2. Timing(i, r) = [r EXCEPT !.evidence = b]
    BY <2>1, Zenon DEF Timing
  <2> QED BY <2>2, BareAgain
<1>4. CASE Mergeable(i, Incoming(i))
  <2>1. MergedWith(i, Incoming(i)) \in Registration
    BY <1>1, MergedType
  <2>2. PICK r : r = Timing(i, MergedWith(i, Incoming(i)))
    OBVIOUS
  <2>3. r \in Registration /\ Bare(r) = Bare(MergedWith(i, Incoming(i)))
    BY <1>3, <2>1, <2>2
  <2>4. Rebased(i) = Stored(r, heads)
    BY <1>2, <1>4, <2>2, Zenon DEF Rebased
  <2>5. Stored(r, heads) \in Row /\ Stored(r, heads).value = r
    BY <2>3, StoredRow
  <2> QED BY <1>4, <2>3, <2>4, <2>5 DEF Maybe
<1>5. CASE ~Mergeable(i, Incoming(i)) /\ Live(i) /\ boot.rows[i].evidence /\ ~Current(i).evidence
  <2>1. Current(i) \in Registration /\ Bare(Current(i)) = Bare(proj[i].value)
    BY <1>1, <1>5, CurrentType DEF Live
  <2>2. PICK r : r = Timing(i, Current(i))
    OBVIOUS
  <2>3. r \in Registration /\ Bare(r) = Bare(proj[i].value)
    BY <1>3, <2>1, <2>2
  <2>4. Rebased(i) = Stored(r, heads)
    BY <1>2, <1>5, <2>2, Zenon DEF Rebased
  <2>5. Stored(r, heads) \in Row /\ Stored(r, heads).value = r
    BY <2>3, StoredRow
  <2> QED BY <1>5, <2>3, <2>4, <2>5 DEF Maybe
<1>6. CASE ~Mergeable(i, Incoming(i)) /\ ~(Live(i) /\ boot.rows[i].evidence /\ ~Current(i).evidence)
  <2>1. Rebased(i) = proj[i]
    BY <1>6, Zenon DEF Rebased
  <2> QED BY <1>1, <2>1 DEF StateInv
<1> QED
  BY <1>4, <1>5, <1>6

\* A rebase keeps the invariant: the baseline becomes the bootstrap's, at its cursor.
LEMMA RebaseStep ==
    ASSUME RelayInv, Rebase
    PROVE  RelayInv'
<1>1. /\ boot # None /\ boot' = None
      /\ UNCHANGED <<op, outcome, feed, floor, passed, resolved, shown, siteVars, heard, again>>
  BY DEF Rebase
<1>2. OpInv /\ StateInv /\ SiteInv /\ ViewInv /\ BootInv /\ BaseInv
  BY DEF RelayInv
<1>3. ASSUME proj' \in [Id -> Maybe(Row)] PROVE OpInv' /\ StateInv' /\ SiteInv'
  <2>1. StateInv'
    BY <1>1, <1>2, <1>3 DEF StateInv
  <2> QED BY <1>1, <1>2, <2>1, OpsSame, SiteKept
<1>4. CASE BaselineComplete /\ rebases < MaxRebase
  <2>1. /\ proj' = [i \in Id |-> IF i \in Changed THEN Rebased(i) ELSE proj[i]]
        /\ base' = [i \in Id |-> IF i \in Changed
                                THEN [value |-> Bare(boot.rows[i]), deleted |-> FALSE]
                                ELSE base[i]]
        /\ cursor' = boot.cursor /\ rebases' = rebases + 1
    BY <1>4, Zenon DEF Rebase
  <2>2. ASSUME NEW i \in Id PROVE proj'[i] \in Maybe(Row)
    <3>1. CASE i \in Changed
      BY <1>1, <1>2, <2>1, <3>1, RebasedRow
    <3>2. CASE i \notin Changed
      BY <1>2, <2>1, <3>2 DEF StateInv
    <3> QED BY <3>1, <3>2
  <2>3. proj' \in [Id -> Maybe(Row)]
    BY <2>1, <2>2
  <2>4. ASSUME NEW i \in Id
        PROVE  /\ base'[i] \in Maybe(SiteValue)
               /\ boot.rows[i] # None => Baseline(i)' = Bare(boot.rows[i])
    <3>1. Baseline(i)' = IF base'[i] = None \/ base'[i].deleted THEN None ELSE base'[i].value
      BY DEF Baseline
    <3>2. CASE i \in Changed
      <4>1. PICK r : r = Bare(boot.rows[i])
        OBVIOUS
      <4>2. base'[i] = [value |-> r, deleted |-> FALSE] /\ r \in Registration
        BY <1>1, <1>2, <2>1, <3>2, <4>1, IncomingIs
      <4>3. base'[i] \in SiteValue
        BY <4>2 DEF SiteValue
      <4>4. base'[i] # None
        BY <4>3, RelayAssumption DEF SiteValue
      <4> QED BY <3>1, <4>1, <4>2, <4>3, <4>4 DEF Maybe
    <3>3. CASE i \notin Changed
      <4>1. base'[i] = base[i]
        BY <2>1, <3>3
      <4>2. boot.rows[i] # None => Baseline(i) = Bare(boot.rows[i])
        BY <3>3 DEF Changed
      <4> QED BY <1>2, <3>1, <4>1, <4>2 DEF ViewInv, Baseline
    <3> QED BY <3>2, <3>3
  <2>5. base' \in [Id -> Maybe(SiteValue)]
    BY <2>1, <2>4
  <2>6. PICK f, n, rows : f = siteFeed /\ n = boot.cursor /\ rows = boot.rows
    OBVIOUS
  <2>7. siteFeed' = f /\ cursor' = n /\ n \in 0 .. Len(f) /\ Agrees(f, rows, n)
    BY <1>1, <1>2, <2>1, <2>6 DEF BootInv, siteVars
  <2>8. ViewInv'
    <3>1. rebases' \in 0 .. MaxRebase
      BY <1>2, <1>4, <2>1, RelayAssumption DEF ViewInv
    <3> QED BY <1>1, <1>2, <2>5, <2>7, <3>1 DEF ViewInv
  <2>9. \A i \in Id : UpTo(f, i, n) # None => Baseline(i)' = UpTo(f, i, n)
    BY <2>4, <2>6, <2>7 DEF Agrees
  <2>10. BaseInv'
    BY <2>7, <2>9, Zenon DEF BaseInv
  <2> QED BY <1>1, <1>3, <2>3, <2>8, <2>10 DEF RelayInv, BootInv
<1>5. CASE ~(BaselineComplete /\ rebases < MaxRebase)
  <2>1. UNCHANGED <<proj, base, cursor, rebases>>
    BY <1>5 DEF Rebase
  <2>2. OpInv' /\ StateInv' /\ SiteInv'
    BY <1>2, <1>3, <2>1 DEF StateInv
  <2>3. ViewInv' /\ BaseInv'
    <3>1. ViewInv'
      BY <1>1, <1>2, <2>1 DEF ViewInv, siteVars
    <3>2. BaseInv'
      BY <1>1, <1>2, <2>1, Zenon DEF BaseInv, Baseline, siteVars
    <3> QED BY <3>1, <3>2
  <2> QED BY <1>1, <2>2, <2>3 DEF RelayInv, BootInv
<1> QED
  BY <1>4, <1>5

-----------------------------------------------------------------------------
(* The invariant in every state.                                           *)

\* The roster that Desk and site start from (InstallPacketIssuanceRoster).
LEMMA RelayInit == ASSUME Init PROVE RelayInv
<1>1. /\ DeskInit /\ siteProj = proj /\ siteOutcome = outcome /\ siteFeed = <<>> /\ siteFloor = 0
      /\ siteResolved = resolved /\ cursor = 0
      /\ base = [i \in Id |-> IF InitRoster[i] = None THEN None
                             ELSE [value |-> Bare(InitRoster[i]), deleted |-> FALSE]]
      /\ heard = [a \in Op \cup SiteEdit |-> "none"]
      /\ boot = None /\ rebases = 0 /\ again = FALSE
  BY DEF Init
<1>2. OpInv /\ StateInv /\ feed = <<>> /\ floor = 0
  BY <1>1, InitHolds DEF IInv, DeskInit
<1>3. /\ Site!StateInv /\ Site!FeedInv
  <2>1. Site!StateInv
    BY <1>1, <1>2, SameData, Zenon DEF StateInv, Site!StateInv
  <2> QED BY <1>1, <2>1 DEF Site!FeedInv
<1>4. \A i \in Id : InitRoster[i] = None \/ InitRoster[i] \in Registration
  BY DeskAssumption DEF Maybe
<1>5. ASSUME NEW i \in Id
      PROVE  /\ base[i] \in Maybe(SiteValue)
             /\ UpTo(siteFeed, i, 0) # None =>
                   /\ SiteRoster[i] # None /\ Bare(SiteRoster[i]) = UpTo(siteFeed, i, 0)
                   /\ Baseline(i) = UpTo(siteFeed, i, 0)
  <2>1. UpTo(siteFeed, i, 0) = IF InitRoster[i] = None THEN None ELSE Bare(InitRoster[i])
    BY UpToZero, Zenon
  <2>2. CASE InitRoster[i] = None
    BY <1>1, <2>1, <2>2 DEF Maybe
  <2>3. CASE InitRoster[i] # None
    <3>1. PICK r : r = InitRoster[i]
      OBVIOUS
    <3>2. r \in Registration /\ Bare(r) \in Registration /\ r # None
      BY <1>4, <2>3, <3>1, BareType
    <3>3. base[i] = [value |-> Bare(r), deleted |-> FALSE]
      BY <1>1, <2>3, <3>1
    <3>4. base[i] \in SiteValue
      BY <3>2, <3>3 DEF SiteValue
    <3>5. base[i] # None
      BY <3>4, RelayAssumption DEF SiteValue
    <3>6. {} \in SUBSET Action
      OBVIOUS
    <3>7. siteProj[i] = Stored(r, {})
      BY <1>1, <3>1, <3>2 DEF DeskInit
    <3>8. siteProj[i] # None /\ siteProj[i].value = r /\ siteProj[i].deleted = FALSE
      <4>1. PICK x : x = Stored(r, {})
        OBVIOUS
      <4>2. x # None /\ x.value = r /\ x.deleted = FALSE
        BY <3>2, <3>6, <4>1, StoredRow
      <4> QED BY <3>7, <4>1, <4>2
    <3>9. SiteRoster[i] = r
      BY <3>8 DEF SiteRoster, Site!Live, Site!Found
    <3> QED BY <2>1, <3>1, <3>2, <3>3, <3>4, <3>5, <3>9 DEF Baseline, Maybe
  <2> QED BY <2>2, <2>3
<1>6. SiteInv
  <2>1. Len(siteFeed) = 0
    BY <1>1
  <2> QED BY <1>3, <1>5, <2>1 DEF SiteInv, Agrees
<1>7. ViewInv
  <2>1. base \in [Id -> Maybe(SiteValue)]
    BY <1>1, <1>5
  <2>2. cursor \in 0 .. Len(siteFeed) /\ rebases \in 0 .. MaxRebase
    BY <1>1, RelayAssumption
  <2> QED BY <1>1, <2>1, <2>2 DEF ViewInv
<1>8. BaseInv
  BY <1>1, <1>5 DEF BaseInv
<1> QED
  BY <1>1, <1>2, <1>6, <1>7, <1>8 DEF RelayInv, BootInv

\* Every step of Desk and site keeps it.
LEMMA RelayStepHolds == ASSUME RelayInv, [Next]_vars PROVE RelayInv'
<1>1. CASE DeskStep
  BY <1>1, DeskStepHolds
<1>2. CASE \E o \in Op : SiteReceive(o) \/ SiteResolve(o)
  BY <1>2, SiteReceiveStep, SiteResolveStep
<1>3. ASSUME NEW o \in Op, NEW r \in Op, NEW keep \in BOOLEAN, SiteDecide(o, r, keep) PROVE RelayInv'
  BY <1>3, SiteDecideStep
<1>4. CASE \E e \in SiteEdit, i \in Id : SiteChange(e, i)
  BY <1>4, SiteChangeStep
<1>5. CASE \E n \in 1 .. Len(siteFeed) : SiteCompact(n)
  BY <1>5, SiteCompactStep
<1>6. CASE ApplyAction
  BY <1>6, ApplyStep
<1>7. CASE FetchBootstrap
  BY <1>7, FetchStep
<1>8. CASE Rebase
  BY <1>8, RebaseStep
<1>9. CASE UNCHANGED vars
  <2>1. UNCHANGED <<deskVars, siteVars, base, cursor, heard, boot, rebases, again>>
    BY <1>9 DEF vars, relayVars
  <2>2. OpInv' /\ StateInv'
    BY <2>1, CoreStep DEF RelayInv
  <2>3. SiteInv'
    BY <2>1, <2>2, SiteKept DEF RelayInv, deskVars
  <2>4. again' \in BOOLEAN /\ Longer(siteFeed, siteFeed')
    BY <2>1 DEF RelayInv, ViewInv, Longer, siteVars
  <2>5. ViewInv' /\ BootInv' /\ BaseInv'
    BY <2>1, <2>4, ViewKept DEF RelayInv
  <2> QED BY <2>2, <2>3, <2>5 DEF RelayInv
<1> QED
  BY <1>1, <1>2, <1>3, <1>4, <1>5, <1>6, <1>7, <1>8, <1>9 DEF Next

\* Invariance: for any roster, any operations, edits and archiving on both sides and any number of
\* rebases, the tables of Desk and site are of their types, the site's feed tells the site's roster,
\* and baseline and bootstrap tell what the feed told up to their cursors.
THEOREM RelayInvariance == Spec => []RelayInv
<1> QED
  BY RelayInit, RelayStepHolds, PTL DEF Spec

\* The Desk's tables, and its view of the site, are of their types in every state.
THEOREM RelayTypeCorrect == Spec => []TypeOK
<1>1. RelayInv => TypeOK
  <2> SUFFICES ASSUME RelayInv PROVE TypeOK
    OBVIOUS
  <2>1. proj \in [Id -> Maybe([value : Registration, heads : SUBSET Action, deleted : BOOLEAN])]
    BY Zenon DEF RelayInv, StateInv, Row
  <2> QED BY <2>1 DEF RelayInv, StateInv, ViewInv, SiteValue, TypeOK
<1> QED
  BY <1>1, RelayInvariance, PTL

\* The separately kept site value of a registration is the one the site had at the Desk's cursor,
\* whatever the Desk merged, left for review or skipped with a rebase (advancePacketSiteBaseline,
\* RebasePacketIssuanceRoster).
THEOREM BaselineIsTheSites == Spec => []BaselineTracksSite
<1>1. RelayInv => BaselineTracksSite
  BY BaseTracks DEF RelayInv
<1> QED
  BY <1>1, RelayInvariance, PTL

-----------------------------------------------------------------------------
(* Local work.                                                             *)

\* The cursor moves with an action of the feed or with a rebase only.
LEMMA CursorSteps ==
    ASSUME [Next]_vars, cursor' # cursor
    PROVE  ApplyAction \/ Rebase
<1>1. ASSUME NEW o \in Op PROVE ~SiteReceive(o) /\ ~SiteResolve(o)
  BY DEF SiteReceive, SiteResolve, relayVars
<1>2. ASSUME NEW o \in Op, NEW r \in Op, NEW keep \in BOOLEAN PROVE ~SiteDecide(o, r, keep)
  BY DEF SiteDecide, relayVars
<1>3. ASSUME NEW e \in SiteEdit, NEW i \in Id PROVE ~SiteChange(e, i)
  BY DEF SiteChange, relayVars
<1>4. ASSUME NEW n PROVE ~SiteCompact(n)
  BY DEF SiteCompact, relayVars
<1>5. ~DeskStep /\ ~FetchBootstrap /\ ~UNCHANGED vars
  BY DEF DeskStep, FetchBootstrap, vars, relayVars
<1> QED
  BY <1>1, <1>2, <1>3, <1>4, <1>5 DEF Next

\* What a step keeps of registration i: a value the Desk had changed stays, or is what the site has.
KeepsLocal(i) ==
    /\ Baseline(i) # None
    /\ \A p \in Paths({proj[i].value, proj'[i].value, Baseline(i)}) \ {"evidence"} :
          At(proj[i].value, p) \in {At(Baseline(i), p), At(proj'[i].value, p)}

\* An action of the feed that is no decision on a conflict.
LEMMA ApplyKeepsLocal ==
    ASSUME RelayInv, ApplyAction, ~IsResolution(NextAction.id),
           NEW i \in Id, Live(i), Bare(proj'[i].value) # Bare(proj[i].value)
    PROVE  KeepsLocal(i)
<1>1. PICK a : IsNext(a)
  BY NextIs
<1>2. PICK application : application = Application(a)
  OBVIOUS
<1>3. PICK gone, ch, id : /\ gone = IF IsResolution(a.id) THEN {op[a.id].cmd.ref} ELSE {}
                          /\ ch = a.changes /\ id = a.id
  OBVIOUS
<1>4. proj' = IF application = "applied" THEN AppliedChanges(ch, gone, id) ELSE proj
  BY <1>1, <1>2, <1>3, Zenon DEF ApplyAction, IsNext
<1>5. application = "applied" /\ proj' = AppliedChanges(ch, gone, id)
  BY <1>4
<1>6. /\ StateInv /\ a \in Entry /\ ~IsResolution(a.id) /\ Acceptable(a) /\ heard[a.id] = "none"
  BY <1>1 DEF RelayInv, IsNext
<1>7. proj'[i] = IF i \in DOMAIN ch THEN Planned(i, MergedWith(i, ch[i]), (Heads(i) \ gone) \cup {id})
                ELSE proj[i]
  BY <1>5, Zenon DEF AppliedChanges
<1>8. i \in DOMAIN ch
  BY <1>7
<1>9. id \in Action /\ IsChange(ch[i]) /\ a.outcome \in Accepted \cup {"conflict"}
  BY <1>3, <1>6, <1>8, EntryImages DEF IsChange
<1>10. PICK heads, r : heads = (Heads(i) \ gone) \cup {id} /\ r = MergedWith(i, ch[i])
  OBVIOUS
<1>11. heads \in SUBSET Action /\ r \in Maybe(Registration) /\ (ch[i].after # None => r \in Registration)
  <2>1. Heads(i) \subseteq Action
    BY <1>6, CurrentType DEF Heads
  <2> QED BY <1>6, <1>9, <1>10, <2>1, MergedType
<1>12. proj'[i] = Planned(i, r, heads)
  BY <1>7, <1>8, <1>10
<1>13. r # None /\ proj'[i].value = r
  <2>1. /\ r # None => Planned(i, r, heads).value = r
        /\ r = None => \/ Planned(i, r, heads) = proj[i]
                       \/ Planned(i, r, heads).value = proj[i].value
    BY <1>6, <1>11, PlannedType
  <2> QED BY <1>12, <2>1
<1>14. ch[i].after # None /\ r \in Registration
  <2>1. ch[i].after = None => r = None
    BY <1>10 DEF MergedWith
  <2> QED BY <1>11, <1>13, <2>1
<1>15. a.outcome # "conflict" /\ AllMergeable(ch)
  BY <1>2, <1>3, <1>5, <1>6 DEF Application
<1>16. Mergeable(i, ch[i]) /\ Baseline(i) = ch[i].before
  <2>1. Trusted(a)
    BY <1>9, <1>15 DEF Trusted
  <2>2. ValidBaseline(a)
    BY <1>6 DEF Acceptable
  <2> QED BY <1>3, <1>6, <1>8, <1>15, <2>1, <2>2 DEF ValidBaseline, AllMergeable
<1>17. PICK w, c : w = proj'[i].value /\ c = ch[i]
  OBVIOUS
<1>18. /\ IsChange(c) /\ c.after # None /\ Mergeable(i, c) /\ w \in Registration
       /\ Bare(w) = Bare(MergedWith(i, c)) /\ Bare(w) # Bare(proj[i].value) /\ Baseline(i) = c.before
  BY <1>9, <1>10, <1>13, <1>14, <1>16, <1>17
<1>19. /\ c.before # None
       /\ \A p \in Paths({proj[i].value, w, c.before}) \ {"evidence"} :
             At(proj[i].value, p) \in {At(c.before, p), At(w, p)}
  BY <1>6, <1>18, MergeKeepsLocal
<1> QED
  BY <1>17, <1>18, <1>19, Zenon DEF KeepsLocal

\* A rebase.
LEMMA RebaseKeepsLocal ==
    ASSUME RelayInv, Rebase, cursor' # cursor,
           NEW i \in Id, Live(i), Bare(proj'[i].value) # Bare(proj[i].value)
    PROVE  KeepsLocal(i)
<1>1. boot # None /\ StateInv /\ ViewInv /\ BootInv
  BY DEF Rebase, RelayInv
<1>2. proj' = [j \in Id |-> IF j \in Changed THEN Rebased(j) ELSE proj[j]]
  BY Zenon DEF Rebase
<1>3. i \in Changed /\ proj'[i] = Rebased(i)
  BY <1>2
<1>4. PICK w, c : w = proj'[i].value /\ c = Incoming(i)
  OBVIOUS
<1>5. /\ Mergeable(i, c) /\ w \in Registration /\ Bare(w) = Bare(MergedWith(i, c))
  BY <1>1, <1>3, <1>4, RebasedRow
<1>6. IsChange(c) /\ c.after # None /\ c.before = Baseline(i)
  BY <1>1, <1>3, <1>4, IncomingIs
<1>7. /\ c.before # None
      /\ \A p \in Paths({proj[i].value, w, c.before}) \ {"evidence"} :
            At(proj[i].value, p) \in {At(c.before, p), At(w, p)}
  BY <1>1, <1>4, <1>5, <1>6, MergeKeepsLocal
<1> QED
  BY <1>4, <1>6, <1>7, Zenon DEF KeepsLocal

\* Local work is never overwritten: for any roster, operations and edits, an action of the site's
\* feed and a rebase change a field of a live registration only where the Desk had the site's last
\* value (mergePacketFeedValue); a decision on a conflict replaces what it decides.
THEOREM LocalChangesSurvive == Spec => LocalChangesKept
<1>1. ASSUME RelayInv, [Next]_vars, cursor' # cursor,
             rebases' = rebases => ~IsResolution(NextAction.id),
             NEW i \in Id, Live(i), Bare(proj'[i].value) # Bare(proj[i].value)
      PROVE  KeepsLocal(i)
  <2>1. CASE ApplyAction
    <3>1. rebases' = rebases
      BY <2>1 DEF ApplyAction
    <3> QED BY <1>1, <2>1, <3>1, ApplyKeepsLocal
  <2>2. CASE Rebase
    BY <1>1, <2>2, RebaseKeepsLocal
  <2> QED BY <1>1, <2>1, <2>2, CursorSteps
<1>2. RelayInv /\ [Next]_vars
      => [cursor' # cursor /\ (rebases' = rebases => ~IsResolution(NextAction.id)) =>
            \A i \in Id : Live(i) /\ Bare(proj'[i].value) # Bare(proj[i].value) =>
               /\ Baseline(i) # None
               /\ \A p \in Paths({proj[i].value, proj'[i].value, Baseline(i)}) \ {"evidence"} :
                     At(proj[i].value, p) \in {At(Baseline(i), p), At(proj'[i].value, p)}]_vars
  BY <1>1, Zenon DEF KeepsLocal
<1> QED
  BY <1>2, RelayInvariance, PTL DEF Spec, LocalChangesKept

-----------------------------------------------------------------------------
(* The feed does not stop at the Desk.                                     *)

\* A race change that cannot be applied is not published, and nobody decides on it.
RacesUndecided == \A r \in Op : IsResolution(r) => op[op[r].cmd.ref].cmd.type # "change_race"

\* A decision is on an operation.
RefInv == \A r \in Op : IsResolution(r) => op[r].cmd.ref \in Op

\* Feed f has told of operation o as a conflict.
ConflictTold(f, o, n) == \E m \in 1 .. n : f[m].id = o /\ f[m].outcome = "conflict"

\* Action n of feed f takes up what the feed told before.
Continues(f, n) ==
    /\ f[n].id \in Op \cup SiteEdit
    /\ IF IsResolution(f[n].id) THEN ConflictTold(f, op[f[n].id].cmd.ref, n - 1)
       ELSE \A i \in DOMAIN f[n].changes : f[n].changes[i].before = UpTo(f, i, n - 1)

\* The site's feed tells all of its roster, and of its conflicts.
FeedTells ==
    /\ \A n \in 1 .. Len(siteFeed) : Continues(siteFeed, n)
    /\ \A i \in Id : UpTo(siteFeed, i, Len(siteFeed)) = Site!AsTold(i)
    /\ \A o \in Op : siteOutcome[o] = "conflict" /\ op[o].cmd.type # "change_race"
                     => ConflictTold(siteFeed, o, Len(siteFeed))

\* The Desk knows all that the feed told up to its cursor.
DeskFollows ==
    rebases = 0 =>
        /\ \A n \in 1 .. cursor :
              /\ heard[siteFeed[n].id] # "none"
              /\ IsOperation(siteFeed[n]) => outcome[siteFeed[n].id] # "none"
        /\ \A i \in Id : Baseline(i) = UpTo(siteFeed, i, cursor)

FollowInv == RefInv /\ FeedTells /\ DeskFollows

\* Operations that have been made stay as they are, whoever takes the step.
LEMMA OpsStayEverywhere ==
    ASSUME RelayInv, [Next]_vars
    PROVE  \A q \in Op : op[q] # None => op'[q] = op[q]
<1>1. OpInv
  BY DEF RelayInv
<1>2. CASE DeskStep
  BY <1>1, <1>2, OpsStay DEF DeskStep
<1>3. ASSUME NEW o \in Op, NEW r \in Op, NEW keep \in BOOLEAN, SiteDecide(o, r, keep)
      PROVE  \A q \in Op : op[q] # None => op'[q] = op[q]
  <2>1. op[r] = None /\ \E x : op' = [op EXCEPT ![r] = x]
    BY <1>3, Zenon DEF SiteDecide, Site!Decide
  <2> QED BY <1>1, <2>1 DEF OpInv
<1>4. ASSUME \/ \E o \in Op : SiteReceive(o) \/ SiteResolve(o)
             \/ \E e \in SiteEdit, i \in Id : SiteChange(e, i)
             \/ \E n \in 1 .. Len(siteFeed) : SiteCompact(n)
      PROVE  op' = op
  BY <1>4 DEF SiteReceive, Site!Receive, SiteResolve, SiteChange, Site!DeskEdit, SiteCompact,
              Site!Compact, deskVars
<1>5. ASSUME ApplyAction \/ FetchBootstrap \/ Rebase \/ UNCHANGED vars PROVE op' = op
  BY <1>5 DEF ApplyAction, FetchBootstrap, Rebase, vars, deskVars
<1> QED
  BY <1>2, <1>3, <1>4, <1>5 DEF Next

\* So an action of the site's feed stays what it is.
LEMMA ActionsStay ==
    ASSUME RelayInv, \A q \in Op : op[q] # None => op'[q] = op[q],
           NEW m \in 1 .. Len(siteFeed), NEW e, e = siteFeed[m]
    PROVE  /\ e.id \in Op => op[e.id] # None /\ op'[e.id] = op[e.id]
           /\ IsResolution(e.id)' <=> IsResolution(e.id)
           /\ IsOperation(e)' <=> IsOperation(e)
<1>1. /\ siteOutcome \in [Op -> Final \cup {"none", "waiting"}]
      /\ \A q \in Op : siteOutcome[q] # "none" => op[q] # None
      /\ Site!FeedInv
  BY SameData, Zenon DEF RelayInv, SiteInv, Site!StateInv
<1>2. e.id \in Op => op[e.id] # None /\ op'[e.id] = op[e.id]
  BY <1>1 DEF Site!FeedInv
<1> QED
  BY <1>2 DEF IsResolution, IsOperation

\* The site's feed and roster stay, and no conflict is found but one over a race.
LEMMA FeedTellsSame ==
    ASSUME RelayInv, FeedTells, \A q \in Op : op[q] # None => op'[q] = op[q],
           siteFeed' = siteFeed, \A i \in Id : Site!AsTold(i)' = Site!AsTold(i),
           \A o \in Op : siteOutcome'[o] = "conflict" /\ op'[o].cmd.type # "change_race"
                         => siteOutcome[o] = "conflict"
    PROVE  FeedTells'
<1>1. PICK f, n : f = siteFeed /\ n = Len(siteFeed)
  OBVIOUS
<1>2. ASSUME NEW m \in 1 .. n PROVE Continues(f, m)'
  <2>1. PICK e : e = f[m]
    OBVIOUS
  <2>2. /\ e.id \in Op => op'[e.id] = op[e.id]
        /\ IsResolution(e.id)' <=> IsResolution(e.id)
    BY <1>1, <2>1, ActionsStay
  <2>3. Continues(f, m)
    BY <1>1 DEF FeedTells
  <2>4. IsResolution(e.id) => e.id \in Op
    BY DEF IsResolution
  <2> QED BY <2>1, <2>2, <2>3, <2>4 DEF Continues
<1>3. ASSUME NEW o \in Op, siteOutcome'[o] = "conflict", op'[o].cmd.type # "change_race"
      PROVE  ConflictTold(f, o, n)
  <2>1. siteOutcome[o] = "conflict"
    BY <1>3
  <2>2. op'[o] = op[o]
    BY <2>1, SameData, Zenon DEF RelayInv, SiteInv, Site!StateInv
  <2> QED BY <1>1, <1>3, <2>1, <2>2 DEF FeedTells
<1>4. \A i \in Id : UpTo(f, i, n) = Site!AsTold(i)'
  BY <1>1 DEF FeedTells
<1>5. f = siteFeed' /\ n = Len(siteFeed')
  BY <1>1
<1> QED
  BY <1>2, <1>3, <1>4, <1>5 DEF FeedTells

\* What the site does is told: action e is appended.
Tells(e) ==
    /\ siteFeed' = Append(siteFeed, e) /\ e \in Entry
    /\ e.id \in Op \cup SiteEdit
    /\ \A i \in Id : Site!AsTold(i)' = IF i \in DOMAIN e.changes THEN e.changes[i].after
                                       ELSE Site!AsTold(i)
    /\ IF IsResolution(e.id)'
       THEN /\ op'[e.id].cmd.ref \in Op /\ siteOutcome[op'[e.id].cmd.ref] = "conflict"
            /\ op[op'[e.id].cmd.ref].cmd.type # "change_race"
       ELSE \A i \in DOMAIN e.changes : i \in Id /\ e.changes[i].before = Site!AsTold(i)
    /\ \A o \in Op : siteOutcome'[o] = "conflict" /\ op'[o].cmd.type # "change_race"
                     => siteOutcome[o] = "conflict" \/ (e.id = o /\ e.outcome = "conflict")

\* Its feed goes on where it was.
LEMMA FeedTellsNext ==
    ASSUME RelayInv, FeedTells, \A q \in Op : op[q] # None => op'[q] = op[q],
           NEW e, Tells(e)
    PROVE  FeedTells'
<1>1. PICK f, g, n : f = siteFeed /\ g = siteFeed' /\ n = Len(siteFeed)
  OBVIOUS
<1>2. f \in Seq(Entry) /\ \A q \in Op : siteOutcome[q] # "none" => op[q] # None
  BY <1>1, SameData, Zenon DEF RelayInv, SiteInv, Site!StateInv
<1>3. /\ n \in Nat /\ Len(g) = n + 1 /\ g[n + 1] = e /\ \A m \in 1 .. n : g[m] = f[m]
      /\ Longer(f, g)
  BY <1>1, <1>2, Appended DEF Tells, Longer
<1>4. \A i : \A m \in 0 .. n : UpTo(g, i, m) = UpTo(f, i, m)
  BY <1>1, <1>2, <1>3, PastKept
<1>5. \A o : \A m \in 0 .. n : ConflictTold(f, o, m) => ConflictTold(g, o, m)
  BY <1>3 DEF ConflictTold
<1>6. ASSUME NEW m \in 1 .. n PROVE Continues(g, m)'
  <2>1. PICK x : x = f[m]
    OBVIOUS
  <2>2. /\ x.id \in Op => op'[x.id] = op[x.id]
        /\ IsResolution(x.id)' <=> IsResolution(x.id)
    BY <1>1, <2>1, ActionsStay
  <2>3. Continues(f, m) /\ g[m] = x /\ m - 1 \in 0 .. n
    BY <1>1, <1>3, <2>1 DEF FeedTells
  <2>4. IsResolution(x.id) => x.id \in Op
    BY DEF IsResolution
  <2> QED BY <1>4, <1>5, <2>1, <2>2, <2>3, <2>4 DEF Continues
<1>7. Continues(g, n + 1)'
  <2>1. CASE IsResolution(e.id)'
    <3>1. PICK o \in Op : /\ o = op'[e.id].cmd.ref /\ siteOutcome[o] = "conflict"
                          /\ op[o].cmd.type # "change_race"
      BY <2>1 DEF Tells
    <3>2. ConflictTold(f, o, n)
      BY <1>1, <3>1 DEF FeedTells
    <3>3. ConflictTold(g, o, n)
      BY <1>3, <1>5, <3>2
    <3> QED BY <1>3, <2>1, <3>1, <3>3 DEF Continues, Tells
  <2>2. CASE ~IsResolution(e.id)'
    <3>1. ASSUME NEW i \in DOMAIN e.changes PROVE e.changes[i].before = UpTo(g, i, n)
      <4>1. i \in Id /\ e.changes[i].before = Site!AsTold(i)
        BY <2>2 DEF Tells
      <4>2. UpTo(f, i, n) = Site!AsTold(i)
        BY <1>1, <4>1 DEF FeedTells
      <4> QED BY <1>3, <1>4, <4>1, <4>2
    <3> QED BY <1>3, <2>2, <3>1 DEF Continues, Tells
  <2> QED BY <2>1, <2>2
<1>8. ASSUME NEW i \in Id PROVE UpTo(g, i, n + 1) = Site!AsTold(i)'
  <2>1. UpTo(g, i, n + 1) = IF i \in DOMAIN e.changes THEN e.changes[i].after ELSE UpTo(g, i, n)
    BY <1>3, UpToNext
  <2>2. UpTo(g, i, n) = Site!AsTold(i)
    BY <1>1, <1>3, <1>4 DEF FeedTells
  <2> QED BY <2>1, <2>2 DEF Tells
<1>9. ASSUME NEW o \in Op, siteOutcome'[o] = "conflict", op'[o].cmd.type # "change_race"
      PROVE  ConflictTold(g, o, n + 1)
  <2>1. CASE e.id = o /\ e.outcome = "conflict"
    BY <1>3, <2>1 DEF ConflictTold
  <2>2. CASE siteOutcome[o] = "conflict"
    <3>1. op'[o] = op[o]
      BY <1>2, <2>2
    <3>2. ConflictTold(f, o, n)
      BY <1>1, <1>9, <2>2, <3>1 DEF FeedTells
    <3> QED BY <1>3, <3>2 DEF ConflictTold
  <2> QED BY <1>9, <2>1, <2>2 DEF Tells
<1>10. \A m \in 1 .. n + 1 : m \in 1 .. n \/ m = n + 1
  BY <1>3
<1>11. g = siteFeed' /\ Len(siteFeed') = n + 1
  BY <1>1, <1>3
<1> QED
  BY <1>6, <1>7, <1>8, <1>9, <1>10, <1>11 DEF FeedTells

\* Two actions appended to one feed with the same result are one.
LEMMA SameAppended ==
    ASSUME NEW f \in Seq(Entry), NEW e \in Entry
    PROVE  Append(f, e) # f /\ \A x : Append(f, x) = Append(f, e) => x = e
<1>1. Len(f) \in Nat /\ Append(f, e)[Len(f) + 1] = e /\ Len(Append(f, e)) = Len(f) + 1
  BY Appended
<1>2. ASSUME NEW x PROVE Append(f, x)[Len(f) + 1] = x
  OBVIOUS
<1> QED
  BY <1>1, <1>2

\* A published action tells the roster, where no registration is emptied.
LEMMA ToldAfter ==
    ASSUME Site!NeverEmptied', NEW e, Site!Announced(e)
    PROVE  /\ siteFeed' = Append(siteFeed, e)
           /\ \A i \in Id : Site!AsTold(i)' = IF i \in DOMAIN e.changes THEN e.changes[i].after
                                              ELSE Site!AsTold(i)
<1>1. /\ siteFeed' = Append(siteFeed, e)
      /\ \A i \in Id :
            IF i \notin DOMAIN e.changes THEN siteProj'[i] = siteProj[i]
            ELSE IF e.changes[i].after # None
            THEN Site!Live(i)' /\ Site!Bare(siteProj'[i].value) = e.changes[i].after
            ELSE Site!Live(i)' => Site!IsVirtual(i, Site!Bare(siteProj'[i].value))
  BY DEF Site!Announced
<1>2. \A i \in Id : Site!Live(i)' => ~Site!IsVirtual(i, Site!Bare(siteProj'[i].value))
  BY DEF Site!NeverEmptied
<1>3. ASSUME NEW i \in Id
      PROVE  Site!AsTold(i)' = IF i \in DOMAIN e.changes THEN e.changes[i].after ELSE Site!AsTold(i)
  <2>1. CASE i \notin DOMAIN e.changes
    <3>1. siteProj'[i] = siteProj[i]
      BY <1>1, <2>1
    <3> QED BY <2>1, <3>1, Zenon DEF Site!AsTold, Site!Live, Site!Found
  <2>2. CASE i \in DOMAIN e.changes
    BY <1>1, <1>2, <2>2 DEF Site!AsTold
  <2> QED BY <2>1, <2>2
<1> QED
  BY <1>1, <1>3

\* A roster that stays is told as before.
LEMMA ToldSame ==
    ASSUME siteProj' = siteProj
    PROVE  \A i \in Id : Site!AsTold(i)' = Site!AsTold(i)
BY Zenon DEF Site!AsTold, Site!Live, Site!Found

\* An operation that the site receives.
LEMMA SiteReceiveTells ==
    ASSUME RelayInv, FeedTells, Site!NeverEmptied, Site!NeverEmptied', NEW o \in Op, SiteReceive(o)
    PROVE  FeedTells'
<1>1. Site!Receive(o) /\ op' = op /\ siteOutcome' = [siteOutcome EXCEPT ![o] = Site!Decision(o)]
  BY DEF SiteReceive, Site!Receive
<1>2. OpInv /\ Site!StateInv /\ Site!FeedInv
  BY DEF RelayInv, SiteInv
<1>3. (siteProj' = siteProj /\ siteFeed' = siteFeed) \/ \E e \in Site!Entry : Site!Announced(e)
  BY <1>1, <1>2, SameOperations, SameAssumptions, Site!ReceiveStep, Zenon
<1>4. \/ /\ siteFeed' = siteFeed
         /\ siteOutcome'[o] = "conflict" => op[o].cmd.type = "change_race"
      \/ \E e : /\ siteFeed' = Append(siteFeed, e) /\ e.id = o /\ e.outcome = siteOutcome'[o]
                /\ \A i \in DOMAIN e.changes : e.changes[i].before = Site!AsTold(i)
  BY <1>1, <1>2, SameOperations, SameAssumptions, Site!ReceiptTells, Zenon
<1>5. siteFeed \in Seq(Entry) /\ \A q \in Op : q # o => siteOutcome'[q] = siteOutcome[q]
  BY <1>1, <1>2, SameData DEF Site!StateInv
<1>6. \A q \in Op : op[q] # None => op'[q] = op[q]
  BY <1>1
<1>7. CASE siteFeed' = siteFeed
  <2>1. siteProj' = siteProj
    <3>1. ASSUME NEW e \in Entry, Site!Announced(e) PROVE FALSE
      BY <1>5, <1>7, <3>1, SameAppended DEF Site!Announced
    <3> QED BY <1>3, <3>1, SameData
  <2>2. siteOutcome'[o] = "conflict" => op[o].cmd.type = "change_race"
    <3>1. ASSUME NEW e, siteFeed' = Append(siteFeed, e) PROVE FALSE
      <4>1. Len(siteFeed) \in Nat /\ Len(Append(siteFeed, e)) = Len(siteFeed) + 1
        BY <1>5
      <4> QED BY <1>7, <3>1, <4>1
    <3> QED BY <1>4, <3>1
  <2> QED BY <1>1, <1>5, <1>6, <1>7, <2>1, <2>2, ToldSame, FeedTellsSame
<1>8. CASE siteFeed' # siteFeed
  <2>1. PICK e \in Entry : Site!Announced(e)
    BY <1>3, <1>8, SameData
  <2>2. siteFeed' = Append(siteFeed, e)
    BY <2>1 DEF Site!Announced
  <2>3. /\ e.id = o /\ e.outcome = siteOutcome'[o]
        /\ \A i \in DOMAIN e.changes : e.changes[i].before = Site!AsTold(i)
    BY <1>4, <1>5, <1>8, <2>2, SameAppended
  <2>4. ~IsResolution(e.id)'
    BY <1>1, <2>3 DEF IsResolution, Site!Receive, Site!Sendable
  <2>5. DOMAIN e.changes \subseteq Id
    BY EntryImages
  <2>6. Tells(e)
    BY <1>5, <2>1, <2>2, <2>3, <2>4, <2>5, ToldAfter DEF Tells
  <2> QED BY <1>6, <2>6, FeedTellsNext
<1> QED
  BY <1>7, <1>8

\* A change with the site's editor.
LEMMA SiteChangeTells ==
    ASSUME RelayInv, FeedTells, Site!NeverEmptied', NEW a \in SiteEdit, NEW i \in Id, SiteChange(a, i)
    PROVE  FeedTells'
<1>1. Site!DeskEdit(a, i) /\ op' = op
  BY DEF SiteChange, Site!DeskEdit
<1>2. OpInv /\ Site!StateInv /\ Site!FeedInv
  BY DEF RelayInv, SiteInv
<1>3. PICK e \in Entry : Site!Announced(e)
  BY <1>1, <1>2, SameOperations, SameAssumptions, SameData, Site!EditStep, Zenon
<1>4. /\ siteOutcome' = siteOutcome
      /\ \E x : /\ siteFeed' = Append(siteFeed, x) /\ x.id = a
                /\ \A j \in DOMAIN x.changes : j \in Id /\ x.changes[j].before = Site!AsTold(j)
  BY <1>1, <1>2, SameAssumptions, Site!EditTells, Zenon
<1>5. siteFeed \in Seq(Entry) /\ siteFeed' = Append(siteFeed, e)
  BY <1>2, <1>3, SameData DEF Site!StateInv, Site!Announced
<1>6. e.id = a /\ \A j \in DOMAIN e.changes : j \in Id /\ e.changes[j].before = Site!AsTold(j)
  BY <1>4, <1>5, SameAppended
<1>7. ~IsResolution(e.id)'
  BY <1>6, DeskAssumption DEF IsResolution
<1>8. Tells(e)
  BY <1>3, <1>4, <1>5, <1>6, <1>7, ToldAfter DEF Tells
<1>9. \A q \in Op : op[q] # None => op'[q] = op[q]
  BY <1>1
<1> QED
  BY <1>8, <1>9, FeedTellsNext

\* A decision made on the site.
LEMMA SiteDecideTells ==
    ASSUME RelayInv, RelayInv', FeedTells, Site!NeverEmptied', RacesUndecided',
           NEW o \in Op, NEW r \in Op, NEW keep \in BOOLEAN, SiteDecide(o, r, keep)
    PROVE  FeedTells'
<1>1. PICK cand : cand = Site!Candidate(o)
  OBVIOUS
<1>2. Site!Decide(o, r, keep, cand) /\ Site!Decide(o, r, keep, Site!Candidate(o)) /\ shown' = shown
  BY <1>1 DEF SiteDecide
<1>3. OpInv /\ Site!StateInv /\ Site!FeedInv /\ Site!StateInv'
  BY DEF RelayInv, SiteInv
<1>4. PICK e \in Entry : Site!Announced(e)
  <2>1. shown' \in {None, shown}
    BY <1>2
  <2>2. \E e \in Site!Entry : Site!Announced(e)
    BY <1>2, <1>3, <2>1, SameOperations, SameAssumptions, Site!DecideStep, SMTT(30)
  <2> QED BY <2>2, SameData
<1>5. /\ op[r] = None /\ op[o] # None /\ siteOutcome[o] = "conflict"
      /\ op'[r] # None /\ op'[r].cmd.type = "resolve_conflict" /\ op'[r].cmd.ref = o
      /\ \A q \in Op : q # r => op'[q] = op[q]
      /\ \A q \in Op : siteOutcome'[q] = IF q = r THEN "applied" ELSE siteOutcome[q]
      /\ \E x : siteFeed' = Append(siteFeed, x) /\ x.id = r
  BY <1>2, <1>3, SameOperations, SameAssumptions, Site!DecisionTells, Zenon
<1>6. siteFeed \in Seq(Entry) /\ siteFeed' = Append(siteFeed, e)
  BY <1>3, <1>4, SameData DEF Site!StateInv, Site!Announced
<1>7. e.id = r
  BY <1>5, <1>6, SameAppended
<1>8. IsResolution(r)'
  BY <1>5 DEF IsResolution
<1>9. op[o].cmd.type # "change_race"
  <2>1. op'[op'[r].cmd.ref].cmd.type # "change_race"
    BY <1>8 DEF RacesUndecided
  <2> QED BY <1>5, <2>1
<1>10. Tells(e)
  BY <1>4, <1>5, <1>6, <1>7, <1>8, <1>9, ToldAfter DEF Tells
<1>11. \A q \in Op : op[q] # None => op'[q] = op[q]
  BY <1>5
<1> QED
  BY <1>10, <1>11, FeedTellsNext

\* A decision that the Desk delivers.
LEMMA SiteResolveTellsOn ==
    ASSUME RelayInv, RefInv, FeedTells, Site!NeverEmptied', RacesUndecided, NEW r \in Op, SiteResolve(r)
    PROVE  FeedTells'
<1>1. /\ op' = op /\ IsResolution(r)
      /\ \/ siteProj' = siteProj /\ siteFeed' = siteFeed /\ siteOutcome'[r] = "rejected"
         \/ /\ siteOutcome[op[r].cmd.ref] = "conflict"
            /\ \E e \in Entry : Site!Announced(e) /\ e.id = r /\ e.outcome = siteOutcome'[r]
      /\ \A q \in Op : q # r => siteOutcome'[q] = siteOutcome[q]
  BY SiteResolveTells DEF deskVars, SiteResolve
<1>2. \A q \in Op : op[q] # None => op'[q] = op[q]
  BY <1>1
<1>3. CASE siteProj' = siteProj /\ siteFeed' = siteFeed /\ siteOutcome'[r] = "rejected"
  BY <1>1, <1>2, <1>3, ToldSame, FeedTellsSame
<1>4. CASE /\ siteOutcome[op[r].cmd.ref] = "conflict"
           /\ \E e \in Entry : Site!Announced(e) /\ e.id = r /\ e.outcome = siteOutcome'[r]
  <2>1. PICK e \in Entry : Site!Announced(e) /\ e.id = r /\ e.outcome = siteOutcome'[r]
    BY <1>4
  <2>2. op[r].cmd.ref \in Op /\ op[op[r].cmd.ref].cmd.type # "change_race"
    BY <1>1 DEF RefInv, RacesUndecided
  <2>3. IsResolution(e.id)'
    BY <1>1, <2>1 DEF IsResolution
  <2>4. Tells(e)
    BY <1>1, <1>4, <2>1, <2>2, <2>3, ToldAfter DEF Tells
  <2> QED BY <1>2, <2>4, FeedTellsNext
<1> QED
  BY <1>1, <1>3, <1>4

\* A decision that is made is on an operation, whether it is made at the Desk or on the site.
LEMMA RefStep ==
    ASSUME RelayInv, RelayInv', RefInv, [Next]_vars
    PROVE  RefInv'
<1>1. \A q \in Op : op[q] # None => op'[q] = op[q]
  BY OpsStayEverywhere
<1>2. OpInv /\ StateInv /\ StateInv' /\ Site!StateInv /\ Site!StateInv'
  BY DEF RelayInv, SiteInv
<1>3. SUFFICES ASSUME NEW r \in Op, IsResolution(r)' PROVE op'[r].cmd.ref \in Op
  BY DEF RefInv
<1>4. CASE op[r] # None
  BY <1>1, <1>3, <1>4 DEF RefInv, IsResolution
<1>5. ASSUME op[r] = None, NEW o \in Op, Create(o) PROVE FALSE
  <2>1. PICK c, before, after, heads :
           /\ c \in Requests(o)
           /\ op' = [op EXCEPT ![o] = Operation(c, before, after, heads)]
    BY <1>5, Zenon DEF Create
  <2>2. c.type # "resolve_conflict"
    BY <1>2, <2>1, RequestType
  <2> QED BY <1>2, <1>3, <1>5, <2>1, <2>2 DEF IsResolution, Operation, OpInv
<1>6. ASSUME op[r] = None, NEW s \in Op, NEW keep \in BOOLEAN, Resolve(s, keep)
      PROVE  op'[r].cmd.ref \in Op
  <2>1. shown # None /\ Decide(shown.op, s, keep, shown)
    BY <1>6 DEF Resolve
  <2>2. PICK o \in Op : o = shown.op
    BY <1>2, <2>1 DEF StateInv
  <2>3. /\ op'[s].cmd.ref = o /\ \A q \in Op : q # s => op'[q] = op[q]
    BY <1>2, <2>1, <2>2, DecisionTells
  <2> QED BY <1>3, <1>6, <2>3 DEF IsResolution
<1>7. ASSUME op[r] = None, NEW o \in Op, NEW s \in Op, NEW keep \in BOOLEAN, SiteDecide(o, s, keep)
      PROVE  op'[r].cmd.ref \in Op
  <2>1. Site!Decide(o, s, keep, Site!Candidate(o))
    BY <1>7 DEF SiteDecide
  <2>2. PICK cand : cand = Site!Candidate(o)
    OBVIOUS
  <2>3. Site!Decide(o, s, keep, cand)
    BY <2>1, <2>2
  <2>4. /\ op[s] = None /\ op[o] # None /\ siteOutcome[o] = "conflict"
        /\ op'[s] # None /\ op'[s].cmd.type = "resolve_conflict" /\ op'[s].cmd.ref = o
        /\ \A q \in Op : q # s => op'[q] = op[q]
        /\ \A q \in Op : siteOutcome'[q] = IF q = s THEN "applied" ELSE siteOutcome[q]
        /\ \E x : siteFeed' = Append(siteFeed, x) /\ x.id = s
    BY <1>2, <2>3, SameOperations, SameAssumptions, Site!DecisionTells, Zenon
  <2> QED BY <1>3, <1>7, <2>4 DEF IsResolution
<1>8. ASSUME \/ \E o \in Op : Receive(o) \/ Show(o)
             \/ \E e \in Edit, i \in Id : DeskEdit(e, i)
             \/ \E x \in Timed : Pass(x)
             \/ \E n \in 1 .. Len(feed) : Compact(n)
      PROVE  op' = op
  BY <1>8 DEF Receive, Show, DeskEdit, Pass, Compact
<1>9. ASSUME \/ \E o \in Op : SiteReceive(o) \/ SiteResolve(o)
             \/ \E e \in SiteEdit, i \in Id : SiteChange(e, i)
             \/ \E n \in 1 .. Len(siteFeed) : SiteCompact(n)
             \/ ApplyAction \/ FetchBootstrap \/ Rebase \/ UNCHANGED vars
      PROVE  op' = op
  BY <1>9 DEF SiteReceive, Site!Receive, SiteResolve, SiteChange, Site!DeskEdit, SiteCompact,
              Site!Compact, ApplyAction, FetchBootstrap, Rebase, vars, deskVars
<1>10. CASE op' = op
  BY <1>3, <1>4, <1>10 DEF IsResolution
<1> QED
  BY <1>4, <1>5, <1>6, <1>7, <1>8, <1>9, <1>10 DEF Next, DeskStep, DeskNext

\* The site's feed tells its roster and its conflicts after every step.
LEMMA FeedTellsStep ==
    ASSUME RelayInv, RelayInv', RefInv, FeedTells, Site!NeverEmptied, Site!NeverEmptied',
           RacesUndecided, RacesUndecided', [Next]_vars
    PROVE  FeedTells'
<1>1. ASSUME UNCHANGED <<siteProj, siteOutcome, siteFeed>> PROVE FeedTells'
  <2>1. \A o \in Op : siteOutcome'[o] = "conflict" /\ op'[o].cmd.type # "change_race"
                      => siteOutcome[o] = "conflict"
    BY <1>1
  <2> QED BY <1>1, <2>1, OpsStayEverywhere, ToldSame, FeedTellsSame
<1>2. ASSUME \/ DeskStep \/ ApplyAction \/ FetchBootstrap \/ Rebase \/ UNCHANGED vars
             \/ \E n \in 1 .. Len(siteFeed) : SiteCompact(n)
      PROVE  UNCHANGED <<siteProj, siteOutcome, siteFeed>>
  BY <1>2 DEF DeskStep, ApplyAction, FetchBootstrap, Rebase, vars, siteVars, SiteCompact, Site!Compact
<1> QED
  BY <1>1, <1>2, SiteReceiveTells, SiteResolveTellsOn, SiteDecideTells, SiteChangeTells DEF Next

\* The site's feed only grows.
LEMMA FeedGrowsOnly ==
    ASSUME RelayInv, RelayInv', [Next]_vars
    PROVE  /\ Len(siteFeed) \in Nat /\ Len(siteFeed') \in Nat /\ Len(siteFeed) =< Len(siteFeed')
           /\ \A m \in 1 .. Len(siteFeed) : siteFeed'[m] = siteFeed[m]
<1>1. siteFeed \in Seq(Entry) /\ siteFeed' \in Seq(Entry)
  BY SameData, Zenon DEF RelayInv, SiteInv, Site!StateInv
<1>2. ASSUME NEW o \in Op, SiteReceive(o) \/ SiteResolve(o)
      PROVE  siteFeed' = siteFeed \/ \E x : siteFeed' = Append(siteFeed, x)
  <2>1. ASSUME Site!Receive(o)
        PROVE  siteFeed' = siteFeed \/ \E x : siteFeed' = Append(siteFeed, x)
    <3>1. PICK out, changes : siteFeed' = Site!Published(o, out, changes)
      BY <2>1, Zenon DEF Site!Receive
    <3> QED BY <3>1 DEF Site!Published
  <2>2. ASSUME SiteResolve(o)
        PROVE  siteFeed' = siteFeed \/ \E x : siteFeed' = Append(siteFeed, x)
    BY <2>2, SiteResolveTells DEF Site!Announced
  <2> QED BY <1>2, <2>1, <2>2 DEF SiteReceive
<1>3. ASSUME NEW o \in Op, NEW r \in Op, NEW keep \in BOOLEAN, SiteDecide(o, r, keep)
      PROVE  \E x : siteFeed' = Append(siteFeed, x)
  BY <1>3, Zenon DEF SiteDecide, Site!Decide
<1>4. ASSUME NEW a \in SiteEdit, NEW i \in Id, SiteChange(a, i)
      PROVE  \E x : siteFeed' = Append(siteFeed, x)
  <2>1. PICK before, after : siteFeed' = Site!ServerChange(a, i, before, after)
    BY <1>4, Zenon DEF SiteChange, Site!DeskEdit
  <2> QED BY <2>1 DEF Site!ServerChange
<1>5. ASSUME \/ DeskStep \/ ApplyAction \/ FetchBootstrap \/ Rebase \/ UNCHANGED vars
             \/ \E n \in 1 .. Len(siteFeed) : SiteCompact(n)
      PROVE  siteFeed' = siteFeed
  BY <1>5 DEF DeskStep, ApplyAction, FetchBootstrap, Rebase, vars, siteVars, SiteCompact, Site!Compact
<1>6. siteFeed' = siteFeed \/ \E x : siteFeed' = Append(siteFeed, x)
  BY <1>2, <1>3, <1>4, <1>5 DEF Next
<1>7. CASE siteFeed' = siteFeed
  BY <1>1, <1>7
<1>8. CASE \E x : siteFeed' = Append(siteFeed, x)
  <2>1. PICK x : siteFeed' = Append(siteFeed, x)
    BY <1>8
  <2>2. Len(siteFeed') = Len(siteFeed) + 1
    BY <1>1, <2>1
  <2>3. \A m \in 1 .. Len(siteFeed) : siteFeed'[m] = siteFeed[m]
    BY <1>1, <2>1
  <2> QED BY <1>1, <2>2, <2>3
<1> QED
  BY <1>6, <1>7, <1>8

\* What was received at the Desk stays received.
LEMMA OutcomesStay ==
    ASSUME StateInv, DeskNext
    PROVE  \A q \in Op : outcome[q] # "none" => outcome'[q] # "none"
<1>1. outcome \in [Op -> Final \cup {"none", "waiting"}]
  BY DEF StateInv
<1>2. ASSUME NEW o \in Op, NEW out, out # "none", outcome' = [outcome EXCEPT ![o] = out]
      PROVE  \A q \in Op : outcome[q] # "none" => outcome'[q] # "none"
  BY <1>1, <1>2
<1>3. ASSUME NEW o \in Op, Receive(o)
      PROVE  \A q \in Op : outcome[q] # "none" => outcome'[q] # "none"
  <2>1. PICK out : out = Decision(o)
    OBVIOUS
  <2>2. outcome' = [outcome EXCEPT ![o] = out] /\ out # "none"
    BY <1>3, <2>1, DecisionType DEF Receive, Final, Accepted
  <2> QED BY <1>2, <2>2
<1>4. ASSUME NEW r \in Op, NEW keep \in BOOLEAN, Resolve(r, keep)
      PROVE  \A q \in Op : outcome[q] # "none" => outcome'[q] # "none"
  <2>1. outcome' = [outcome EXCEPT ![r] = "applied"]
    BY <1>4, Zenon DEF Resolve, Decide
  <2> QED BY <1>2, <2>1
<1>5. ASSUME \/ \E o \in Op : Create(o) \/ Show(o)
             \/ \E e \in Edit, i \in Id : DeskEdit(e, i)
             \/ \E x \in Timed : Pass(x)
             \/ \E n \in 1 .. Len(feed) : Compact(n)
      PROVE  outcome' = outcome
  BY <1>5 DEF Create, Show, DeskEdit, Pass, Compact
<1> QED
  BY <1>3, <1>4, <1>5 DEF DeskNext

\* A step that leaves the cursor where it was, or a rebase.
LEMMA FollowsKept ==
    ASSUME RelayInv, RelayInv', DeskFollows, [Next]_vars,
           rebases' = 0 => rebases = 0 /\ UNCHANGED <<base, cursor, heard>>,
           \A q \in Op : outcome[q] # "none" => outcome'[q] # "none"
    PROVE  DeskFollows'
<1> SUFFICES ASSUME rebases' = 0 PROVE DeskFollows'
  BY DEF DeskFollows
<1>1. PICK f, g, n : f = siteFeed /\ g = siteFeed' /\ n = cursor
  OBVIOUS
<1>2. /\ Len(f) \in Nat /\ Len(f) =< Len(g) /\ \A m \in 1 .. Len(f) : g[m] = f[m]
      /\ n \in 0 .. Len(f) /\ cursor' = n /\ rebases = 0 /\ base' = base /\ heard' = heard
  BY <1>1, FeedGrowsOnly DEF RelayInv, ViewInv
<1>3. ASSUME NEW m \in 1 .. n
      PROVE  /\ heard'[g[m].id] # "none"
             /\ IsOperation(g[m])' => outcome'[g[m].id] # "none"
  <2>1. PICK e : e = f[m]
    OBVIOUS
  <2>2. m \in 1 .. Len(f) /\ g[m] = e
    BY <1>2, <2>1
  <2>3. IsOperation(e)' <=> IsOperation(e)
    BY <1>1, <2>1, <2>2, OpsStayEverywhere, ActionsStay
  <2>4. heard[e.id] # "none" /\ (IsOperation(e) => outcome[e.id] # "none")
    BY <1>1, <1>2, <2>1 DEF DeskFollows
  <2>5. IsOperation(e) => e.id \in Op
    BY DEF IsOperation
  <2>6. IsOperation(e)' => outcome'[e.id] # "none"
    BY <2>3, <2>4, <2>5
  <2>7. IsOperation(g[m])' <=> IsOperation(e)'
    BY <2>2 DEF IsOperation
  <2> QED BY <1>2, <2>2, <2>4, <2>6, <2>7
<1>4. ASSUME NEW i \in Id PROVE Baseline(i)' = UpTo(g, i, n)
  <2>1. UpTo(f, i, n) = UpTo(g, i, n)
    <3>1. n \in Nat /\ \A m \in 1 .. n : f[m] = g[m]
      BY <1>2
    <3> QED BY <3>1, UpToSame
  <2>2. Baseline(i) = UpTo(f, i, n)
    BY <1>1, <1>2 DEF DeskFollows
  <2> QED BY <1>2, <2>1, <2>2 DEF Baseline
<1> QED
  BY <1>1, <1>2, <1>3, <1>4 DEF DeskFollows

\* The baseline takes what an action of the feed says of a registration, also that it is gone.
LEMMA BaselineAdvances ==
    ASSUME RelayInv, ApplyAction, NEW a, IsNext(a), NEW i \in Id
    PROVE  Baseline(i)' = IF i \in DOMAIN a.changes THEN a.changes[i].after ELSE Baseline(i)
<1>1. PICK ch, application : ch = a.changes /\ application = Application(a)
  OBVIOUS
<1>2. base' = BaseAfter(a, application)
  BY <1>1, Zenon DEF ApplyAction, IsNext
<1>3. /\ a.outcome = "conflict" => DOMAIN ch = {}
      /\ a.outcome \in Accepted \cup {"conflict"}
      /\ \A j \in DOMAIN ch : ch[j].after \in Maybe(Registration)
  BY <1>1, EntryImages DEF IsNext
<1>4. Baseline(i)' = IF base'[i] = None \/ base'[i].deleted THEN None ELSE base'[i].value
  BY DEF Baseline
<1>5. CASE ~Trusted(a)
  <2>1. i \notin DOMAIN a.changes /\ base' = base
    BY <1>1, <1>2, <1>3, <1>5 DEF Trusted, BaseAfter
  <2> QED BY <2>1 DEF Baseline
<1>6. CASE Trusted(a)
  <2>1. base' = [j \in Id |->
            IF j \notin DOMAIN ch THEN base[j]
            ELSE IF ch[j].after # None THEN [value |-> ch[j].after, deleted |-> FALSE]
            ELSE [value |-> IF base[j] # None THEN base[j].value ELSE ch[j].before,
                  deleted |-> TRUE]]
    BY <1>1, <1>2, <1>6, Zenon DEF BaseAfter, AdvancedBase
  <2>2. CASE i \notin DOMAIN ch
    BY <1>1, <1>4, <2>1, <2>2 DEF Baseline
  <2>3. CASE i \in DOMAIN ch /\ ch[i].after # None
    <3>1. base'[i] = [value |-> ch[i].after, deleted |-> FALSE] /\ ch[i].after \in Registration
      BY <1>3, <2>1, <2>3 DEF Maybe
    <3>2. base'[i] # None
      <4>1. base'[i] \in [value : Registration, deleted : BOOLEAN]
        BY <3>1
      <4> QED BY <4>1, RelayAssumption
    <3> QED BY <1>1, <1>4, <2>3, <3>1, <3>2
  <2>4. CASE i \in DOMAIN ch /\ ch[i].after = None
    <3>1. base'[i].deleted = TRUE
      BY <2>1, <2>4
    <3> QED BY <1>1, <1>4, <2>4, <3>1
  <2> QED BY <2>2, <2>3, <2>4
<1> QED
  BY <1>5, <1>6

\* An action of the feed is heard, and an operation is received with it.
LEMMA ApplyFollows ==
    ASSUME RelayInv, FeedTells, DeskFollows, ApplyAction
    PROVE  DeskFollows'
<1>1. PICK a : IsNext(a)
  BY NextIs
<1>2. PICK f, n, application : f = siteFeed /\ n = cursor /\ application = Application(a)
  OBVIOUS
<1>3. /\ heard' = [heard EXCEPT ![a.id] = application]
      /\ outcome' = IF IsOperation(a)
                    THEN [outcome EXCEPT ![a.id] = ReceivedOutcome(a, application)] ELSE outcome
      /\ cursor' = n + 1 /\ rebases' = rebases /\ siteFeed' = f /\ op' = op
  BY <1>1, <1>2, Zenon DEF ApplyAction, IsNext, siteVars
<1>4. /\ a \in Entry /\ n \in Nat /\ n + 1 \in 1 .. Len(f) /\ f[n + 1] = a
      /\ heard \in [Op \cup SiteEdit -> {"none", "applied", "observed", "review"}]
      /\ outcome \in [Op -> Final \cup {"none", "waiting"}]
  BY <1>1, <1>2 DEF IsNext, RelayInv, ViewInv, StateInv
<1>5. application # "none"
  BY <1>2 DEF Application
<1>6. ReceivedOutcome(a, application) # "none"
  BY DEF ReceivedOutcome
<1> SUFFICES ASSUME rebases = 0 PROVE DeskFollows'
  BY <1>3 DEF DeskFollows
<1>7. ASSUME NEW m \in 1 .. n + 1
      PROVE  heard'[f[m].id] # "none" /\ (IsOperation(f[m])' => outcome'[f[m].id] # "none")
  <2>1. PICK e : e = f[m]
    OBVIOUS
  <2>2. IsOperation(e)' <=> IsOperation(e)
    BY <1>3 DEF IsOperation
  <2>3. IsOperation(e) => e.id \in Op
    BY DEF IsOperation
  <2>4. CASE m = n + 1
    <3>1. e = a /\ a.id \in DOMAIN heard
      BY <1>2, <1>4, <2>1, <2>4 DEF FeedTells, Continues
    <3> QED BY <1>3, <1>4, <1>5, <1>6, <2>1, <2>2, <2>3, <3>1
  <2>5. CASE m # n + 1
    <3>1. heard[e.id] # "none" /\ (IsOperation(e) => outcome[e.id] # "none")
      BY <1>2, <1>4, <2>1, <2>5 DEF DeskFollows
    <3>2. heard'[e.id] # "none"
      BY <1>3, <1>4, <1>5, <3>1
    <3>3. ASSUME IsOperation(e) PROVE outcome'[e.id] # "none"
      <4>1. PICK out : out = ReceivedOutcome(a, application)
        OBVIOUS
      <4>2. outcome' = outcome \/ outcome' = [outcome EXCEPT ![a.id] = out]
        BY <1>3, <4>1
      <4> QED BY <1>4, <1>6, <2>3, <3>1, <3>3, <4>1, <4>2
    <3> QED BY <2>1, <2>2, <3>2, <3>3
  <2> QED BY <2>4, <2>5
<1>8. ASSUME NEW i \in Id PROVE Baseline(i)' = UpTo(f, i, n + 1)
  <2>1. Baseline(i)' = IF i \in DOMAIN a.changes THEN a.changes[i].after ELSE Baseline(i)
    BY <1>1, BaselineAdvances
  <2>2. UpTo(f, i, n + 1) = IF i \in DOMAIN a.changes THEN a.changes[i].after ELSE UpTo(f, i, n)
    BY <1>4, UpToNext
  <2>3. Baseline(i) = UpTo(f, i, n)
    BY <1>2 DEF DeskFollows
  <2> QED BY <2>1, <2>2, <2>3
<1> QED
  BY <1>3, <1>7, <1>8 DEF DeskFollows

\* The Desk knows all that the feed told up to its cursor, after every step.
LEMMA DeskFollowsStep ==
    ASSUME RelayInv, RelayInv', FeedTells, DeskFollows, [Next]_vars
    PROVE  DeskFollows'
<1>1. StateInv /\ rebases \in Nat
  BY DEF RelayInv, ViewInv
<1>2. CASE DeskStep
  <2>1. DeskNext /\ UNCHANGED <<base, cursor, heard, rebases>>
    BY <1>2 DEF DeskStep
  <2> QED BY <1>1, <2>1, OutcomesStay, FollowsKept
<1>3. ASSUME UNCHANGED <<base, cursor, heard, rebases, outcome>> PROVE DeskFollows'
  BY <1>3, FollowsKept
<1>4. ASSUME \/ \E o \in Op : SiteReceive(o) \/ SiteResolve(o)
             \/ \E o \in Op, r \in Op, keep \in BOOLEAN : SiteDecide(o, r, keep)
             \/ \E e \in SiteEdit, i \in Id : SiteChange(e, i)
             \/ \E n \in 1 .. Len(siteFeed) : SiteCompact(n)
             \/ FetchBootstrap \/ UNCHANGED vars
      PROVE  UNCHANGED <<base, cursor, heard, rebases, outcome>>
  BY <1>4 DEF SiteReceive, SiteResolve, SiteDecide, SiteChange, SiteCompact, FetchBootstrap, vars,
              deskVars, relayVars
<1>5. CASE Rebase
  <2>1. /\ rebases' = rebases + 1 \/ UNCHANGED <<base, cursor, rebases>>
        /\ heard' = heard /\ outcome' = outcome
    BY <1>5 DEF Rebase
  <2>2. rebases' = 0 => rebases = 0 /\ UNCHANGED <<base, cursor, heard>>
    BY <1>1, <2>1
  <2> QED BY <2>1, <2>2, FollowsKept
<1>6. CASE ApplyAction
  BY <1>6, ApplyFollows
<1> QED
  BY <1>2, <1>3, <1>4, <1>5, <1>6 DEF Next

\* In the installed roster nothing is told or decided.
LEMMA FollowInit == ASSUME Init PROVE FollowInv
<1>1. /\ siteFeed = <<>> /\ cursor = 0 /\ DeskInit /\ siteProj = proj /\ siteOutcome = outcome
      /\ base = [i \in Id |-> IF InitRoster[i] = None THEN None
                              ELSE [value |-> Bare(InitRoster[i]), deleted |-> FALSE]]
  BY DEF Init
<1>2. /\ op = [o \in Op |-> None] /\ outcome = [o \in Op |-> "none"]
      /\ proj = [i \in Id |-> IF InitRoster[i] = None THEN None ELSE Stored(InitRoster[i], {})]
  BY <1>1 DEF DeskInit
<1>3. ASSUME NEW i \in Id
      PROVE  UpTo(siteFeed, i, 0) = Site!AsTold(i) /\ Baseline(i) = UpTo(siteFeed, i, 0)
  <2>1. UpTo(siteFeed, i, 0) = IF InitRoster[i] = None THEN None ELSE Bare(InitRoster[i])
    BY UpToZero, Zenon
  <2>2. CASE InitRoster[i] = None
    BY <1>1, <1>2, <2>1, <2>2 DEF Baseline, Site!AsTold, Site!Live, Site!Found
  <2>3. CASE InitRoster[i] # None
    <3>1. PICK r, s : r = InitRoster[i] /\ s = Stored(r, {})
      OBVIOUS
    <3>2. r \in Registration /\ Bare(r) \in Registration
      BY <2>3, <3>1, DeskAssumption, BareType DEF Maybe
    <3>3. base[i] = [value |-> Bare(r), deleted |-> FALSE] /\ base[i] # None
      <4>1. base[i] = [value |-> Bare(r), deleted |-> FALSE]
        BY <1>1, <2>3, <3>1
      <4>2. base[i] \in [value : Registration, deleted : BOOLEAN]
        BY <3>2, <4>1
      <4> QED BY <4>1, <4>2, RelayAssumption
    <3>4. {} \in SUBSET Action
      OBVIOUS
    <3>5. siteProj[i] = s /\ s # None /\ s.value = r /\ s.deleted = FALSE
      <4>1. siteProj[i] = s
        BY <1>1, <1>2, <2>3, <3>1
      <4>2. s # None /\ s.value = r /\ s.deleted = FALSE
        BY <3>1, <3>2, <3>4, StoredRow
      <4> QED BY <4>1, <4>2
    <3>6. Site!AsTold(i) = Bare(r)
      BY <3>5, SameData DEF Site!AsTold, Site!Live, Site!Found
    <3> QED BY <2>1, <2>3, <3>1, <3>3, <3>6 DEF Baseline
  <2> QED BY <2>2, <2>3
<1>4. RefInv
  BY <1>2 DEF RefInv, IsResolution
<1>5. Len(siteFeed) = 0
  BY <1>1
<1>6. FeedTells
  BY <1>1, <1>2, <1>3, <1>5 DEF FeedTells
<1>7. DeskFollows
  BY <1>1, <1>3 DEF DeskFollows
<1> QED
  BY <1>4, <1>6, <1>7 DEF FollowInv

\* The next action of the feed is based on the Desk's baseline, and a decision on what is known.
LEMMA NextAcceptable ==
    ASSUME RelayInv, FollowInv, RacesUndecided
    PROVE  FeedNeverBlocks
<1> SUFFICES ASSUME rebases = 0, cursor < Len(siteFeed) PROVE Acceptable(NextAction)
  BY DEF FeedNeverBlocks
<1>1. PICK f, n, a : f = siteFeed /\ n = cursor /\ a = NextAction
  OBVIOUS
<1>2. f \in Seq(Entry)
  BY <1>1, SameData, Zenon DEF RelayInv, SiteInv, Site!StateInv
<1>3. n \in Nat /\ n + 1 \in 1 .. Len(f) /\ f[n + 1] = a
  BY <1>1, <1>2 DEF RelayInv, ViewInv, NextAction
<1>4. Continues(f, n + 1) /\ n + 1 - 1 = n
  BY <1>1, <1>3 DEF FollowInv, FeedTells
<1>5. CASE IsResolution(a.id)
  <2>1. PICK o \in Op : o = op[a.id].cmd.ref
    BY <1>5 DEF FollowInv, RefInv, IsResolution
  <2>2. ConflictTold(f, o, n)
    BY <1>3, <1>4, <1>5, <2>1 DEF Continues
  <2>3. PICK m \in 1 .. n : f[m].id = o /\ f[m].outcome = "conflict"
    BY <2>2 DEF ConflictTold
  <2>4. op[o].cmd.type # "change_race"
    BY <1>5, <2>1 DEF RacesUndecided, IsResolution
  <2>5. IsOperation(f[m])
    BY <2>3, <2>4 DEF IsOperation
  <2>6. heard[o] # "none" /\ outcome[o] # "none"
    BY <1>1, <2>3, <2>5 DEF FollowInv, DeskFollows
  <2>7. KnownInput(a.id)
    BY <1>1, <2>1, <2>3, <2>6 DEF KnownInput
  <2> QED BY <1>1, <1>5, <2>7 DEF Acceptable, ValidBaseline
<1>6. CASE ~IsResolution(a.id)
  <2>1. ASSUME NEW i \in DOMAIN a.changes PROVE Baseline(i) = a.changes[i].before
    <3>1. i \in Id
      BY <1>2, <1>3, EntryImages
    <3>2. a.changes[i].before = UpTo(f, i, n)
      BY <1>3, <1>4, <1>6 DEF Continues
    <3> QED BY <1>1, <3>1, <3>2 DEF FollowInv, DeskFollows
  <2> QED BY <1>1, <1>6, <2>1 DEF Acceptable, ValidBaseline
<1> QED
  BY <1>5, <1>6

\* As long as no rebase has skipped a part of the site's feed, its next action can be taken over,
\* for any roster and any local work, conflicts and decisions of both sides, provided that no
\* registration is left empty on the site and no race change is decided: of an empty row and of a
\* race change in conflict the feed does not tell what the site has
\* (PublishPacketOperation, ApplyPacketFeedPage).
THEOREM FeedDoesNotBlock ==
    Spec /\ [](Site!NeverEmptied /\ RacesUndecided) => []FeedNeverBlocks
<1>1. Init => FollowInv
  BY FollowInit
<1>2. /\ RelayInv /\ RelayInv' /\ FollowInv /\ [Next]_vars
      /\ Site!NeverEmptied /\ RacesUndecided /\ (Site!NeverEmptied /\ RacesUndecided)'
      => FollowInv'
  BY RefStep, FeedTellsStep, DeskFollowsStep DEF FollowInv
<1>3. RelayInv /\ FollowInv /\ RacesUndecided => FeedNeverBlocks
  BY NextAcceptable
<1> QED
  BY <1>1, <1>2, <1>3, RelayInvariance, PTL DEF Spec
=============================================================================
