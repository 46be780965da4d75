--------------------------- MODULE PacketPushProofs ----------------------------
(***************************************************************************)
(* The delivery of operations and club edits for any number of             *)
(* registrations, operations, edits and synchronisations.                  *)
(***************************************************************************)
EXTENDS PacketPush, FiniteSetTheorems, WellFoundedInduction, TLAPS

\* Every set of natural numbers that is not empty has a smallest member (the
\* first row of an ORDER BY, the first pending edit).
LEMMA LeastNat ==
    ASSUME NEW T \in SUBSET Nat, T # {}
    PROVE  Min(T) \in T /\ \A y \in T : Min(T) <= y
<1>1. PICK x \in T : \A y \in T : ~(<<y, x>> \in OpToRel(<, Nat))
  BY WFMin, NatLessThanWellFounded, Zenon
<1>2. \A y \in T : ~(y < x)
  BY <1>1 DEF OpToRel
<1>3. \A y \in T : x <= y
  BY <1>2
<1> QED
  BY <1>3 DEF Min

\* If it has a bound it has a greatest member (the last change of a page, the
\* next cursor).
LEMMA GreatestNat ==
    ASSUME NEW T \in SUBSET Nat, T # {}, NEW b \in Nat, \A x \in T : x <= b
    PROVE  Max(T) \in T /\ \A y \in T : y <= Max(T)
<1> DEFINE U == {n \in Nat : \E x \in T : n = b - x}
<1>1. PICK z \in T : TRUE
  OBVIOUS
<1>2. b - z \in U
  BY <1>1
<1>3. U \in SUBSET Nat /\ U # {}
  BY <1>2
<1>4. PICK u \in U : \A y \in U : u <= y
  <2> HIDE DEF U
  <2> QED BY <1>3, LeastNat
<1>5. PICK x \in T : u = b - x
  OBVIOUS
<1>6. \A y \in T : x >= y
  <2> TAKE y \in T
  <2>1. b - y \in U
    OBVIOUS
  <2>2. u <= b - y
    BY <1>4, <2>1
  <2> HIDE DEF U
  <2> QED BY <2>2, <1>5
<1> HIDE DEF U
<1> QED
  BY <1>6 DEF Max


Owners == [Reg -> Maybe(Person)]
ClubTable == [Reg -> Maybe(Clubs)]
Outcomes == [Op -> Maybe({"applied", "conflict"})]

\* The persons of some registrations.
Some == UNION {[D -> Maybe(Person)] : D \in SUBSET Reg}

OpRow == [after : Some, before : Some, deps : SUBSET Op]

\* What the model's type invariant leaves out.
StoreInv ==
    /\ op \in Seq(OpRow) /\ Len(op) <= MaxOp
    /\ journal \in Seq(Op)
    /\ siteOp \in Outcomes
    /\ siteEdit \in [Edit -> Maybe({"applied", "conflict"})]
    /\ siteEdits \in 0 .. MaxSiteEdit

\* An operation takes over the person that the last operation before it on the same
\* registration left, and depends on that one.
OpInv ==
    \A o \in DOMAIN op :
        /\ DOMAIN op[o].before = DOMAIN op[o].after
        /\ \A r \in DOMAIN op[o].after :
              /\ (\A p \in 1 .. o - 1 : r \notin DOMAIN op[p].after) => op[o].before[r] = InitOwner[r]
              /\ \A p \in 1 .. o - 1 :
                    r \in DOMAIN op[p].after /\ (\A q \in p + 1 .. o - 1 : r \notin DOMAIN op[q].after)
                       => op[o].before[r] = op[p].after[r] /\ p \in op[o].deps

\* With an operation, every earlier one on the same registration has been applied.
Closed(A) ==
    \A q \in A : \A r \in DOMAIN op[q].after :
        \A p \in 1 .. q - 1 : r \in DOMAIN op[p].after => p \in A

\* The owner of a registration is the one the last applied operation left.
LastLeft(A, own) ==
    \A r \in Reg :
        /\ (\A o \in A : r \notin DOMAIN op[o].after) => own[r] = InitOwner[r]
        /\ \A o \in A : r \in DOMAIN op[o].after /\ (\A q \in A : q > o => r \notin DOMAIN op[q].after)
                           => own[r] = op[o].after[r]

ClubsOf(clubs, own) == \A r \in Reg : clubs[r] # None => clubs[r].of = own[r]

\* A receiver that has applied the operations A.
Consistent(A, own, clubs) ==
    /\ A \subseteq DOMAIN op
    /\ own \in Owners /\ clubs \in ClubTable
    /\ Closed(A) /\ LastLeft(A, own) /\ ClubsOf(clubs, own)

AppliedAt(outcomes) == {o \in Op : outcomes[o] = "applied"}

ReceiverInv ==
    /\ Consistent(applied, owner, club)
    /\ Consistent(AppliedAt(siteOp), siteOwner, siteClub)

\* What a synchronisation carries from one step to the next.
Carries(x) ==
    /\ x.at \in {"send", "answer"} => x.edit \in DOMAIN edit
    /\ x.at = "answer" => x.answer \in EditStates \cup {"failed"}
    /\ x.at \in {"push", "mark"} => x.batch \subseteq Op
    /\ x.at = "mark" => /\ x.receipts \in Outcomes
                        /\ \A o \in Op : x.receipts[o] # None => siteOp[o] = x.receipts[o]
    /\ x.at = "refresh" => /\ x.owner \in Owners /\ x.club \in ClubTable
                           /\ ClubsOf(x.club, x.owner)

SyncInv ==
    /\ sync = [s \in Sync |-> sync[s]]
    /\ \A s \in Sync : Carries(sync[s])

IInv ==
    /\ TypeOK
    /\ StoreInv
    /\ OpInv
    /\ ReceiverInv
    /\ AcksAreTheSites
    /\ SyncInv

-----------------------------------------------------------------------------
(* An operation is applied: at the Desk or on the site.                    *)

\* The rows of an operation.
LEMMA OpFields ==
    ASSUME StoreInv, NEW o \in DOMAIN op
    PROVE  /\ o \in Op /\ o \in Nat /\ DOMAIN op[o].after \subseteq Reg
           /\ \A r \in DOMAIN op[o].after : op[o].after[r] \in Maybe(Person)
           /\ op[o].deps \subseteq Op
<1>1. op[o] \in OpRow /\ o \in 1 .. Len(op) /\ Len(op) \in Nat /\ MaxOp \in Nat
  BY PushAssumption DEF StoreInv
<1>2. o \in Op /\ o \in Nat
  BY <1>1 DEF StoreInv, Op
<1>3. op[o].after \in Some /\ op[o].deps \subseteq Op
  BY <1>1 DEF OpRow
<1>4. PICK D \in SUBSET Reg : op[o].after \in [D -> Maybe(Person)]
  BY <1>3 DEF Some
<1> QED
  BY <1>2, <1>3, <1>4

\* The dependencies of an operation have been applied: the owners are still those it was
\* made against, whatever arrived before it (packet_issuance_operations, PacketDependenciesApplied).
LEMMA MadeAgainst ==
    ASSUME StoreInv, OpInv, NEW A, NEW own, A \subseteq DOMAIN op, Closed(A), LastLeft(A, own),
           NEW o \in DOMAIN op, o \notin A, op[o].deps \subseteq A,
           NEW r \in DOMAIN op[o].after
    PROVE  /\ own[r] = op[o].before[r]
           /\ \A q \in A : r \in DOMAIN op[q].after => q < o
           /\ \A p \in 1 .. o - 1 : r \in DOMAIN op[p].after => p \in A
<1> DEFINE P == {p \in 1 .. o - 1 : r \in DOMAIN op[p].after}
<1>1. o \in Nat /\ r \in Reg /\ \A q \in A : q \in Nat /\ q \in 1 .. Len(op)
  BY OpFields DEF StoreInv
<1>2. \A q \in A : r \in DOMAIN op[q].after => q < o
  <2> SUFFICES ASSUME NEW q \in A, r \in DOMAIN op[q].after, ~(q < o) PROVE FALSE
    OBVIOUS
  <2>1. o \in 1 .. q - 1
    <3>1. o \in 1 .. Len(op)
      BY DEF StoreInv
    <3> QED BY <1>1, <3>1
  <2> QED
    BY <2>1 DEF Closed
<1>3. CASE P = {}
  <2>1. \A q \in A : r \notin DOMAIN op[q].after
    BY <1>1, <1>2, <1>3
  <2>2. own[r] = InitOwner[r]
    BY <1>1, <2>1 DEF LastLeft
  <2>3. op[o].before[r] = InitOwner[r]
    BY <1>3 DEF OpInv
  <2> QED
    BY <1>2, <1>3, <2>2, <2>3
<1>4. CASE P # {}
  <2>1. P \in SUBSET Nat /\ \A x \in P : x <= o
    BY <1>1
  <2>2. PICK m \in P : \A y \in P : y <= m
    <3> HIDE DEF P
    <3> QED BY <1>1, <1>4, <2>1, GreatestNat
  <2>3. m \in 1 .. o - 1 /\ r \in DOMAIN op[m].after /\ \A q \in m + 1 .. o - 1 : r \notin DOMAIN op[q].after
    <3>1. m \in 1 .. o - 1 /\ r \in DOMAIN op[m].after
      OBVIOUS
    <3>2. ASSUME NEW q \in m + 1 .. o - 1, r \in DOMAIN op[q].after PROVE FALSE
      <4>1. q \in P
        BY <1>1, <3>1, <3>2
      <4> HIDE DEF P
      <4> QED BY <1>1, <2>2, <3>1, <4>1
    <3> QED BY <3>1, <3>2
  <2>4. op[o].before[r] = op[m].after[r] /\ m \in A
    BY <2>3 DEF OpInv
  <2>5. \A q \in A : q > m => r \notin DOMAIN op[q].after
    <3> SUFFICES ASSUME NEW q \in A, q > m, r \in DOMAIN op[q].after PROVE FALSE
      OBVIOUS
    <3>1. q \in m + 1 .. o - 1
      BY <1>1, <1>2, <2>3
    <3> QED
      BY <2>3, <3>1
  <2>6. own[r] = op[m].after[r]
    BY <1>1, <2>3, <2>4, <2>5 DEF LastLeft
  <2>7. ASSUME NEW p \in 1 .. o - 1, r \in DOMAIN op[p].after PROVE p \in A
    <3>1. p \in P
      BY <2>7
    <3>2. p = m \/ p \in 1 .. m - 1
      <4> HIDE DEF P
      <4> QED BY <1>1, <2>2, <2>3, <3>1
    <3> QED
      BY <2>3, <2>4, <2>7, <3>2 DEF Closed
  <2> QED
    BY <1>2, <2>4, <2>6, <2>7
<1> QED
  BY <1>3, <1>4

\* The club of a registration follows its person (packetClubProjection).
LEMMA CarriedClub ==
    ASSUME StoreInv, OpInv, NEW own \in Owners, NEW clubs \in ClubTable, ClubsOf(clubs, own),
           NEW o \in DOMAIN op, \A r \in DOMAIN op[o].after : own[r] = op[o].before[r],
           NEW r \in DOMAIN op[o].after
    PROVE  /\ Carried(clubs, op[o], r) \in Maybe(Clubs)
           /\ Carried(clubs, op[o], r) # None => Carried(clubs, op[o], r).of = op[o].after[r]
           /\ op[o].after[r] # None /\ op[o].before[r] = op[o].after[r] => Carried(clubs, op[o], r) = clubs[r]
<1> DEFINE x == op[o].after[r]
           from == {s \in DOMAIN op[o].before : op[o].before[s] = x}
           d == CHOOSE s \in from : TRUE
<1>1. DOMAIN op[o].before = DOMAIN op[o].after /\ DOMAIN op[o].after \subseteq Reg
  BY OpFields DEF OpInv
<1>2. Carried(clubs, op[o], r) = IF x = None THEN None
                                 ELSE IF op[o].before[r] = x THEN clubs[r]
                                 ELSE IF Cardinality(from) = 1 THEN clubs[d] ELSE None
  BY DEF Carried
<1>3. Cardinality(from) = 1 => d \in from
  <2> HIDE DEF from
  <2>1. from = {} => Cardinality(from) = 0
    BY FS_EmptySet
  <2> QED
    BY <2>1
<1>4. d \in from => d \in DOMAIN op[o].after /\ own[d] = x
  BY <1>1
<1>5. \A s \in Reg : clubs[s] \in Maybe(Clubs) /\ (clubs[s] # None => clubs[s].of = own[s])
  BY DEF ClubsOf, ClubTable
<1> HIDE DEF from, d, x
<1>6. x = op[o].after[r] /\ own[r] = op[o].before[r] /\ r \in Reg
  BY <1>1 DEF x
<1>7. None \in Maybe(Clubs)
  BY DEF Maybe
<1> QED
  BY <1>1, <1>2, <1>3, <1>4, <1>5, <1>6, <1>7

\* Applying an operation whose dependencies have been applied keeps owners and clubs
\* consistent, in whatever order operations arrive (receiveOne).
LEMMA Applying ==
    ASSUME StoreInv, OpInv, NEW A, NEW own, NEW clubs, Consistent(A, own, clubs),
           NEW o \in DOMAIN op, o \notin A, op[o].deps \subseteq A
    PROVE  Consistent(A \cup {o}, Updated(op[o].after, own), CarriedAll(clubs, op[o]))
<1> DEFINE own2 == Updated(op[o].after, own)
           clubs2 == CarriedAll(clubs, op[o])
<1>1. /\ A \subseteq DOMAIN op /\ own \in Owners /\ clubs \in ClubTable
      /\ Closed(A) /\ LastLeft(A, own) /\ ClubsOf(clubs, own)
  BY DEF Consistent
<1>2. /\ o \in Nat /\ DOMAIN op[o].after \subseteq Reg
      /\ \A r \in DOMAIN op[o].after : op[o].after[r] \in Maybe(Person)
  BY OpFields
<1>3. \A r \in DOMAIN op[o].after :
          /\ own[r] = op[o].before[r]
          /\ \A q \in A : r \in DOMAIN op[q].after => q < o
          /\ \A p \in 1 .. o - 1 : r \in DOMAIN op[p].after => p \in A
  BY <1>1, MadeAgainst
<1>4. /\ own2 \in Owners
      /\ \A r \in Reg : own2[r] = IF r \in DOMAIN op[o].after THEN op[o].after[r] ELSE own[r]
  <2>2. own2 = [r \in Reg |-> IF r \in DOMAIN op[o].after THEN op[o].after[r] ELSE own[r]]
    BY DEF Updated
  <2> HIDE DEF own2
  <2> QED
    BY <1>1, <1>2, <2>2 DEF Owners
<1>5. \A r \in Reg : clubs2[r] = IF r \in DOMAIN op[o].after THEN Carried(clubs, op[o], r) ELSE clubs[r]
  BY DEF CarriedAll
<1>6. clubs2 \in ClubTable
  <2>1. \A r \in Reg : clubs2[r] \in Maybe(Clubs)
    <3> HIDE DEF clubs2
    <3>1. \A r \in Reg : clubs[r] \in Maybe(Clubs)
      BY <1>1 DEF ClubTable
    <3>2. \A r \in DOMAIN op[o].after : Carried(clubs, op[o], r) \in Maybe(Clubs)
      BY <1>1, <1>3, CarriedClub
    <3> QED BY <1>5, <3>1, <3>2
  <2> QED
    BY <2>1 DEF ClubTable, CarriedAll
<1> HIDE DEF own2, clubs2
<1>7. ClubsOf(clubs2, own2)
  <2> SUFFICES ASSUME NEW r \in Reg, clubs2[r] # None PROVE clubs2[r].of = own2[r]
    BY DEF ClubsOf
  <2>1. CASE r \in DOMAIN op[o].after
    <3>1. clubs2[r] = Carried(clubs, op[o], r) /\ own2[r] = op[o].after[r]
      BY <1>4, <1>5, <2>1
    <3> QED
      BY <1>1, <1>3, <2>1, <3>1, CarriedClub
  <2>2. CASE r \notin DOMAIN op[o].after
    BY <1>1, <1>4, <1>5, <2>2 DEF ClubsOf
  <2> QED
    BY <2>1, <2>2
<1>8. Closed(A \cup {o})
  BY <1>1, <1>3 DEF Closed
<1>9. LastLeft(A \cup {o}, own2)
  <2> SUFFICES ASSUME NEW r \in Reg
               PROVE  LastLeft(A \cup {o}, own2)!(r)
    BY DEF LastLeft
  <2>1. CASE r \in DOMAIN op[o].after
    <3>1. own2[r] = op[o].after[r] /\ \A q \in A : r \in DOMAIN op[q].after => q < o
      BY <1>3, <1>4, <2>1
    <3>2. \A q \in A : r \in DOMAIN op[q].after => o > q
      BY <1>1, <1>2, <3>1, OpFields
    <3> QED
      BY <2>1, <3>1, <3>2
  <2>2. CASE r \notin DOMAIN op[o].after
    <3>1. own2[r] = own[r] /\ LastLeft(A, own)!(r)
      BY <1>1, <1>4, <2>2 DEF LastLeft
    <3> QED
      BY <2>2, <3>1
  <2> QED
    BY <2>1, <2>2
<1> QED
  BY <1>1, <1>4, <1>6, <1>7, <1>8, <1>9 DEF Consistent, own2, clubs2

-----------------------------------------------------------------------------
(* The site takes a batch.                                                 *)

SiteNow == [owner |-> siteOwner, club |-> siteClub, op |-> siteOp]

\* The recursion over the journal has a solution: SiteAfter is the state after the first n
\* entries of the journal (PushPacketOperations).
LEMMA SiteAfterSteps ==
    ASSUME StoreInv, NEW batch, NEW refused
    PROVE  LET st == SiteAfter(batch, refused)
           IN  /\ st[0] = SiteNow
               /\ \A n \in 1 .. Len(journal) :
                     st[n] = IF journal[n] \in batch
                             THEN Taken(st[n - 1], journal[n], journal[n] \in refused) ELSE st[n - 1]
<1> DEFINE Step(x, n) == IF journal[n] \in batch THEN Taken(x, journal[n], journal[n] \in refused) ELSE x
           Steps(f, N) == [n \in 0 .. N |-> IF n = 0 THEN SiteNow ELSE Step(f[n - 1], n)]
           Unsolved == {N \in Nat : ~ \E f : f = Steps(f, N)}
<1>1. SiteAfter(batch, refused) = CHOOSE f : f = Steps(f, Len(journal))
  BY Zenon DEF SiteAfter, SiteNow
<1>2. Len(journal) \in Nat
  BY DEF StoreInv
<1> HIDE DEF Step
<1>3. Unsolved = {}
  <2> SUFFICES ASSUME Unsolved # {} PROVE FALSE
    OBVIOUS
  <2>1. PICK m \in Unsolved : \A y \in Unsolved : m <= y
    <3>1. Unsolved \in SUBSET Nat
      OBVIOUS
    <3> HIDE DEF Unsolved
    <3> QED BY <3>1, LeastNat
  <2>2. m \in Nat /\ ~ \E f : f = Steps(f, m)
    OBVIOUS
  <2>3. m # 0
    <3> SUFFICES ASSUME m = 0 PROVE \E f : f = Steps(f, m)
      BY <2>2
    <3>1. [n \in 0 .. 0 |-> SiteNow] = Steps([n \in 0 .. 0 |-> SiteNow], 0)
      OBVIOUS
    <3> QED BY <3>1
  <2>4. PICK f : f = Steps(f, m - 1)
    <3>1. m - 1 \in Nat /\ ~(m <= m - 1)
      BY <2>2, <2>3
    <3> QED BY <2>1, <3>1
  <2> DEFINE g == [n \in 0 .. m |-> IF n < m THEN f[n] ELSE Step(f[m - 1], m)]
  <2>5. \A n \in 0 .. m - 1 : f[n] = IF n = 0 THEN SiteNow ELSE Step(f[n - 1], n)
    BY <2>4
  <2>6. \A n \in 0 .. m : g[n] = IF n = 0 THEN SiteNow ELSE Step(g[n - 1], n)
    <3> TAKE n \in 0 .. m
    <3>1. CASE n = 0
      BY <2>2, <2>3, <2>5, <3>1
    <3>2. CASE n # 0 /\ n < m
      <4>1. n - 1 \in 0 .. m /\ n - 1 < m /\ n \in 0 .. m - 1
        BY <2>2, <3>2
      <4>2. g[n] = f[n] /\ g[n - 1] = f[n - 1]
        BY <3>2, <4>1
      <4> HIDE DEF g
      <4> QED BY <2>5, <3>2, <4>1, <4>2
    <3>3. CASE n = m
      <4>1. m - 1 \in 0 .. m /\ m - 1 < m /\ ~(m < m)
        BY <2>2, <2>3
      <4>2. g[m - 1] = f[m - 1] /\ g[m] = Step(f[m - 1], m)
        BY <2>2, <4>1
      <4> HIDE DEF g
      <4> QED BY <2>3, <3>3, <4>2
    <3>4. n = 0 \/ (n # 0 /\ n < m) \/ n = m
      BY <2>2
    <3> QED BY <3>1, <3>2, <3>3, <3>4
  <2>7. g = [n \in 0 .. m |-> g[n]]
    OBVIOUS
  <2> HIDE DEF g
  <2>8. g = Steps(g, m)
    BY <2>6, <2>7
  <2> QED BY <2>2, <2>8
<1>4. \E f : f = Steps(f, Len(journal))
  BY <1>2, <1>3
<1> DEFINE st == SiteAfter(batch, refused)
<1>5. st = Steps(st, Len(journal))
  <2> HIDE DEF Steps
  <2> QED BY <1>1, <1>4
<1> HIDE DEF st
<1>6. st[0] = SiteNow /\ \A n \in 1 .. Len(journal) : st[n] = Step(st[n - 1], n)
  BY <1>2, <1>5
<1> QED
  BY <1>6 DEF st, Step

\* A state of the site that continues the present one.
Follows(x) ==
    /\ x \in [owner : Owners, club : ClubTable, op : Outcomes]
    /\ \A o \in Op : siteOp[o] # None => x.op[o] = siteOp[o]
    /\ Consistent(AppliedAt(x.op), x.owner, x.club)

\* An operation is taken, refused, or left waiting; none that has an outcome is taken again.
LEMMA TakenFollows ==
    ASSUME StoreInv, OpInv, NEW x, Follows(x), NEW o \in DOMAIN op, NEW refuse
    PROVE  Follows(Taken(x, o, refuse))
<1> DEFINE A == AppliedAt(x.op)
<1>1. /\ x \in [owner : Owners, club : ClubTable, op : Outcomes]
      /\ \A p \in Op : siteOp[p] # None => x.op[p] = siteOp[p]
      /\ Consistent(A, x.owner, x.club)
  BY DEF Follows
<1>2. o \in Op /\ op[o].deps \subseteq Op
  BY OpFields
<1>3. x.op \in [Op -> {"applied", "conflict", None}] /\ None # "applied" /\ None # "conflict"
  BY <1>1, PushAssumption DEF Outcomes, Maybe
<1>4. CASE Taken(x, o, refuse) = x
  BY <1>4
<1>5. CASE x.op[o] = None /\ Taken(x, o, refuse) = [x EXCEPT !.op[o] = "conflict"]
  <2> DEFINE y == [x EXCEPT !.op[o] = "conflict"]
             outs == [x.op EXCEPT ![o] = "conflict"]
  <2>1. outs \in Outcomes /\ \A p \in Op : outs[p] = IF p = o THEN "conflict" ELSE x.op[p]
    BY <1>2, <1>3 DEF Outcomes, Maybe
  <2>2. y = [x EXCEPT !.op = outs]
    BY <1>1
  <2> HIDE DEF y, outs
  <2>3. y \in [owner : Owners, club : ClubTable, op : Outcomes] /\ y.op = outs /\ y.owner = x.owner /\ y.club = x.club
    BY <1>1, <2>1, <2>2
  <2>4. AppliedAt(outs) = A
    BY <1>2, <1>3, <1>5, <2>1 DEF AppliedAt
  <2>5. \A p \in Op : siteOp[p] # None => outs[p] = siteOp[p]
    BY <1>1, <1>5, <2>1
  <2>6. Follows(y)
    BY <1>1, <2>3, <2>4, <2>5 DEF Follows
  <2> QED
    BY <1>5, <2>6 DEF y
<1>6. CASE /\ x.op[o] = None /\ \A d \in op[o].deps : x.op[d] # None /\ x.op[d] # "conflict"
           /\ Taken(x, o, refuse) = [owner |-> Updated(op[o].after, x.owner), club |-> CarriedAll(x.club, op[o]),
                                     op |-> [x.op EXCEPT ![o] = "applied"]]
  <2> DEFINE outs == [x.op EXCEPT ![o] = "applied"]
             own2 == Updated(op[o].after, x.owner)
             clubs2 == CarriedAll(x.club, op[o])
             y == [owner |-> own2, club |-> clubs2, op |-> outs]
  <2>1. outs \in Outcomes /\ \A p \in Op : outs[p] = IF p = o THEN "applied" ELSE x.op[p]
    BY <1>2, <1>3 DEF Outcomes, Maybe
  <2> HIDE DEF outs, own2, clubs2
  <2>2. AppliedAt(outs) = A \cup {o} /\ o \notin A /\ op[o].deps \subseteq A
    BY <1>2, <1>3, <1>6, <2>1 DEF AppliedAt
  <2>3. Consistent(A \cup {o}, own2, clubs2)
    <3> HIDE DEF A
    <3> QED BY <1>1, <2>2, Applying DEF own2, clubs2
  <2>4. y \in [owner : Owners, club : ClubTable, op : Outcomes] /\ y.op = outs /\ y.owner = own2 /\ y.club = clubs2
    BY <2>1, <2>3 DEF Consistent
  <2>5. \A p \in Op : siteOp[p] # None => outs[p] = siteOp[p]
    BY <1>1, <1>6, <2>1
  <2> HIDE DEF y
  <2>6. Follows(y)
    BY <2>2, <2>3, <2>4, <2>5 DEF Follows
  <2> QED
    BY <1>6, <2>6 DEF y, outs, own2, clubs2
<1> QED
  BY <1>4, <1>5, <1>6 DEF Taken

\* The site's state after a batch continues the one before it.
LEMMA BatchFollows ==
    ASSUME IInv, NEW batch, NEW refused
    PROVE  Follows(SiteAfter(batch, refused)[Len(journal)])
<1> DEFINE st == SiteAfter(batch, refused)
           Bad == {n \in 0 .. Len(journal) : ~Follows(st[n])}
<1>1. StoreInv /\ OpInv /\ Len(journal) \in Nat
  BY DEF IInv, StoreInv
<1>2. /\ st[0] = SiteNow
      /\ \A n \in 1 .. Len(journal) :
            st[n] = IF journal[n] \in batch
                    THEN Taken(st[n - 1], journal[n], journal[n] \in refused) ELSE st[n - 1]
  BY <1>1, SiteAfterSteps
<1> HIDE DEF st
<1>3. Follows(SiteNow)
  BY DEF IInv, StoreInv, ReceiverInv, Follows, SiteNow, Consistent
<1>4. Bad = {}
  <2> SUFFICES ASSUME Bad # {} PROVE FALSE
    OBVIOUS
  <2>1. PICK m \in Bad : \A y \in Bad : m <= y
    <3>1. Bad \in SUBSET Nat
      BY <1>1
    <3> HIDE DEF Bad
    <3> QED BY <3>1, LeastNat
  <2>2. m \in 0 .. Len(journal) /\ ~Follows(st[m])
    OBVIOUS
  <2>3. m # 0
    BY <1>2, <1>3, <2>2
  <2>4. m - 1 \in 0 .. Len(journal) /\ ~(m <= m - 1) /\ m \in 1 .. Len(journal)
    BY <1>1, <2>2, <2>3
  <2>5. Follows(st[m - 1])
    BY <2>1, <2>4
  <2>6. journal[m] \in DOMAIN op
    <3>1. journal[m] \in Range(journal)
      BY <1>1, <2>4 DEF Range, StoreInv
    <3> QED BY <3>1 DEF IInv, TypeOK
  <2>7. Follows(Taken(st[m - 1], journal[m], journal[m] \in refused))
    BY <1>1, <2>5, <2>6, TakenFollows
  <2> QED
    BY <1>2, <2>2, <2>4, <2>5, <2>7
<1> QED
  BY <1>1, <1>4 DEF st

-----------------------------------------------------------------------------
(* Kinds of steps.                                                         *)

\* No club edit is lost, and no outcome on the site changes.
Monotone ==
    /\ DOMAIN edit \subseteq DOMAIN edit'
    /\ \A o \in Op : siteOp[o] # None => siteOp'[o] = siteOp[o]

\* What a synchronisation carries stays true while others take their steps.
LEMMA CarriesOn == ASSUME Monotone, NEW x, Carries(x) PROVE Carries(x)'
BY DEF Monotone, Carries, ClubsOf

\* A synchronisation takes a step (SyncPacketOperations).
LEMMA SyncGoes ==
    ASSUME IInv, Monotone, NEW s \in Sync, NEW x, Goto(s, x), Carries(x)'
    PROVE  SyncInv'
<1>1. sync = [t \in Sync |-> sync[t]] /\ \A t \in Sync : Carries(sync[t])
  BY DEF IInv, SyncInv
<1>2. sync' = [sync EXCEPT ![s] = x]
  BY DEF Goto
<1>3. sync' = [t \in Sync |-> sync'[t]] /\ \A t \in Sync : sync'[t] = IF t = s THEN x ELSE sync[t]
  BY <1>1, <1>2
<1>4. ASSUME NEW t \in Sync, NEW y, y = sync'[t] PROVE Carries(y)'
  <2>1. CASE t = s
    BY <1>3, <1>4, <2>1
  <2>2. CASE t # s
    <3>1. Carries(y)
      BY <1>1, <1>3, <1>4, <2>2
    <3> QED BY <3>1, CarriesOn
  <2> QED BY <2>1, <2>2
<1> QED
  BY <1>3, <1>4 DEF SyncInv, Carries

\* Or none does.
LEMMA SyncStays == ASSUME IInv, Monotone, UNCHANGED sync PROVE SyncInv'
<1>1. sync = [t \in Sync |-> sync[t]] /\ \A t \in Sync : Carries(sync[t])
  BY DEF IInv, SyncInv
<1>2. ASSUME NEW t \in Sync, NEW y, y = sync'[t] PROVE Carries(y)'
  <2>1. Carries(y)
    BY <1>1, <1>2
  <2> QED BY <2>1, CarriesOn
<1> QED
  BY <1>1, <1>2 DEF SyncInv, Carries

\* What the club edits keep.
EditsKept ==
    /\ edit' \in Seq(EditRow) /\ Len(edit') = Len(edit)
    /\ \A e \in DOMAIN edit : /\ edit'[e].reg = edit[e].reg /\ edit'[e].person = edit[e].person
                              /\ edit'[e].club = edit[e].club

\* The row of a club edit that is answered, put off or due again (packet_club_outbox).
Noted(row, st, b) == [row EXCEPT !.state = st, !.later = b]

\* It keeps registration, person and club.
LEMMA NotedFields ==
    ASSUME NEW row \in EditRow, NEW st \in EditStates, NEW b \in BOOLEAN
    PROVE  LET new == Noted(row, st, b)
           IN  /\ new \in EditRow /\ new.reg = row.reg /\ new.person = row.person /\ new.club = row.club
BY DEF EditRow, Noted

\* One row of the outbox is noted.
LEMMA EditNoted ==
    ASSUME IInv, NEW e \in DOMAIN edit, NEW st \in EditStates, NEW b \in BOOLEAN,
           edit' = [edit EXCEPT ![e] = Noted(edit[e], st, b)]
    PROVE  EditsKept
<1>1. edit \in Seq(EditRow)
  BY DEF IInv, TypeOK
<1> DEFINE new == Noted(edit[e], st, b)
<1>2. new \in EditRow /\ new.reg = edit[e].reg /\ new.person = edit[e].person /\ new.club = edit[e].club
  BY <1>1, NotedFields
<1> HIDE DEF new
<1>3. edit' = [edit EXCEPT ![e] = new]
  BY DEF new
<1>4. edit' \in Seq(EditRow) /\ Len(edit') = Len(edit) /\ \A f \in DOMAIN edit : edit'[f] = IF f = e THEN new ELSE edit[f]
  BY <1>1, <1>2, <1>3
<1> QED
  BY <1>2, <1>4 DEF EditsKept

\* A step that leaves the Desk's tables and the site alone; club edits may be noted.
LEMMA OutboxInv ==
    ASSUME IInv, UNCHANGED <<deskVars, ack, siteVars>>, EditsKept, SyncInv'
    PROVE  IInv'
<1>1. TypeOK' /\ StoreInv'
  BY DEF IInv, TypeOK, StoreInv, EditsKept, deskVars, siteVars
<1>2. OpInv' /\ ReceiverInv' /\ AcksAreTheSites'
  BY DEF IInv, OpInv, ReceiverInv, AcksAreTheSites, Consistent, Closed, LastLeft, ClubsOf, AppliedAt, deskVars, siteVars
<1> QED
  BY <1>1, <1>2 DEF IInv

\* The same, where no club edit is touched.
LEMMA EditsSame == ASSUME IInv, UNCHANGED <<edit, siteVars>> PROVE EditsKept /\ Monotone
BY DEF IInv, TypeOK, EditsKept, Monotone, siteVars

\* Noting a club edit leaves every other process where it is.
LEMMA KeptMonotone == ASSUME IInv, EditsKept, UNCHANGED siteVars PROVE Monotone
BY DEF IInv, TypeOK, EditsKept, Monotone, siteVars

-----------------------------------------------------------------------------
(* The inductive invariant holds initially and is kept by every action.    *)

\* A Desk with an installed roster satisfies the invariant.
LEMMA InitInv == Init => IInv
<1> SUFFICES ASSUME Init PROVE IInv
  OBVIOUS
<1>1. /\ op = <<>> /\ journal = <<>> /\ applied = {} /\ edit = <<>>
      /\ owner = InitOwner /\ siteOwner = InitOwner
      /\ ack = [o \in Op |-> None] /\ siteOp = [o \in Op |-> None]
      /\ heads = [r \in Reg |-> {}]
      /\ club = [r \in Reg |-> None] /\ siteClub = [r \in Reg |-> None]
      /\ siteEdit = [e \in Edit |-> None] /\ siteEdits = 0
      /\ sync = [s \in Sync |-> Idle]
  BY DEF Init
<1>2. InitOwner \in Owners /\ MaxEdit \in Nat /\ MaxOp \in Nat /\ MaxSiteEdit \in Nat
  BY PushAssumption DEF Owners, Maybe
<1>3. TypeOK
  BY <1>1, <1>2 DEF TypeOK, Maybe, Owners, Range, IsInjective
<1>4. StoreInv
  BY <1>1, <1>2 DEF StoreInv, Outcomes, Maybe
<1>5. OpInv /\ AcksAreTheSites
  BY <1>1 DEF OpInv, AcksAreTheSites
<1>6. AppliedAt(siteOp) = {}
  BY <1>1, PushAssumption DEF AppliedAt
<1>7. ReceiverInv
  <2>1. Consistent({}, InitOwner, [r \in Reg |-> None])
    BY <1>2 DEF Consistent, Closed, LastLeft, ClubsOf, ClubTable, Maybe
  <2> QED
    BY <1>1, <1>6, <2>1 DEF ReceiverInv
<1>8. SyncInv
  BY <1>1 DEF SyncInv, Carries, Idle
<1> QED
  BY <1>3, <1>4, <1>5, <1>7, <1>8 DEF IInv

\* The greatest member of a set of one (LastOp).
LEMMA MaxOne == ASSUME NEW n \in Nat PROVE Max({n}) = n
<1>1. {n} \in SUBSET Nat /\ {n} # {} /\ \A x \in {n} : x <= n
  OBVIOUS
<1>2. Max({n}) \in {n}
  BY <1>1, GreatestNat
<1> QED
  BY <1>2

\* What the tablet shows of a registration is what its last operation left.
LEMMA SeenIsLast ==
    ASSUME IInv, NEW r \in Reg
    PROVE  /\ Seen(r) \in Maybe(Person) /\ LastOp(r) \subseteq DOMAIN op
           /\ (\A p \in DOMAIN op : r \notin DOMAIN op[p].after) => Seen(r) = InitOwner[r]
           /\ \A p \in DOMAIN op :
                 r \in DOMAIN op[p].after /\ (\A q \in p + 1 .. Len(op) : r \notin DOMAIN op[q].after)
                    => Seen(r) = op[p].after[r] /\ p \in LastOp(r)
<1> DEFINE its == {o \in DOMAIN op : r \in DOMAIN op[o].after}
<1>1. LastOp(r) = IF its = {} THEN {} ELSE {Max(its)}
  BY DEF LastOp
<1>2. StoreInv /\ op \in Seq(OpRow) /\ Len(op) \in Nat /\ DOMAIN op = 1 .. Len(op) /\ InitOwner[r] \in Maybe(Person)
  BY PushAssumption DEF IInv, StoreInv, Maybe
<1>3. CASE its = {}
  <2>1. LastOp(r) = {} /\ Seen(r) = InitOwner[r] /\ \A p \in DOMAIN op : r \notin DOMAIN op[p].after
    BY <1>1, <1>3 DEF Seen
  <2> QED BY <1>2, <2>1
<1>4. CASE its # {}
  <2> DEFINE m == Max(its)
  <2>1. m \in its /\ \A y \in its : y <= m
    <3>1. its \in SUBSET Nat /\ \A x \in its : x <= Len(op)
      BY <1>2
    <3> HIDE DEF its
    <3> QED BY <1>2, <1>4, <3>1, GreatestNat
  <2> HIDE DEF m
  <2>2. m \in DOMAIN op /\ r \in DOMAIN op[m].after /\ m \in Nat
    BY <1>2, <2>1
  <2>3. LastOp(r) = {m}
    BY <1>1, <1>4 DEF m
  <2>4. Seen(r) = op[m].after[r]
    BY <2>2, <2>3, MaxOne DEF Seen
  <2>5. Seen(r) \in Maybe(Person)
    BY <1>2, <2>2, <2>4, OpFields
  <2>6. \A p \in DOMAIN op :
           r \in DOMAIN op[p].after /\ (\A q \in p + 1 .. Len(op) : r \notin DOMAIN op[q].after) => p = m
    <3> SUFFICES ASSUME NEW p \in DOMAIN op, r \in DOMAIN op[p].after,
                        \A q \in p + 1 .. Len(op) : r \notin DOMAIN op[q].after
                 PROVE  p = m
      OBVIOUS
    <3>1. p \in its
      OBVIOUS
    <3>2. p <= m
      BY <2>1, <3>1
    <3>3. p < m => m \in p + 1 .. Len(op)
      BY <1>2, <2>2
    <3> QED BY <1>2, <2>2, <3>2, <3>3
  <2> QED BY <2>2, <2>3, <2>4, <2>5, <2>6
<1> QED
  BY <1>3, <1>4

\* A row is added at the end of a table (op, journal, packet_club_outbox).
LEMMA Appended ==
    ASSUME NEW S, NEW a \in Seq(S), NEW x \in S
    PROVE  LET b == Append(a, x)
           IN  /\ b \in Seq(S) /\ Len(b) = Len(a) + 1 /\ b[Len(a) + 1] = x
               /\ \A i \in 1 .. Len(a) : b[i] = a[i]
               /\ Len(a) \in Nat /\ DOMAIN a = 1 .. Len(a) /\ DOMAIN b = 1 .. Len(a) + 1
OBVIOUS

\* The tablet makes an operation from what it shows.
LEMMA DraftInv ==
    ASSUME IInv, NEW after \in Some, Draft(after)
    PROVE  IInv'
<1> DEFINE before == [r \in DOMAIN after |-> Seen(r)]
           deps == UNION {LastOp(r) : r \in DOMAIN after}
           new == [after |-> after, before |-> before, deps |-> deps]
           n == Len(op) + 1
<1>0. Len(op) # MaxOp /\ op' = Append(op, new)
  BY DEF Draft, Made
<1>1. UNCHANGED <<journal, applied, owner, heads, club, ack, edit, siteVars, sync, fails>>
  BY DEF Draft
<1>2. /\ StoreInv /\ op \in Seq(OpRow) /\ Len(op) \in Nat /\ DOMAIN op = 1 .. Len(op)
      /\ Len(op) <= MaxOp /\ MaxOp \in Nat
  BY PushAssumption DEF IInv, StoreInv
<1>3. PICK D \in SUBSET Reg : after \in [D -> Maybe(Person)]
  BY DEF Some
<1>4. new \in OpRow
  <2>1. before \in [D -> Maybe(Person)]
    BY <1>3, SeenIsLast
  <2>2. \A r \in D : LastOp(r) \subseteq Op
    BY <1>3, <1>2, SeenIsLast DEF Op
  <2>3. deps \subseteq Op
    BY <1>3, <2>2
  <2>4. before \in Some
    BY <2>1 DEF Some
  <2> HIDE DEF before, deps
  <2> QED BY <2>3, <2>4 DEF OpRow
<1>5. new.after = after /\ new.before = before /\ new.deps = deps
  OBVIOUS
<1> HIDE DEF new
<1>6. /\ op' \in Seq(OpRow) /\ Len(op') = n /\ DOMAIN op' = 1 .. n /\ op'[n] = new
      /\ \A o \in DOMAIN op : op'[o] = op[o]
  <2> HIDE DEF before, deps
  <2>1. PICK a, row : a = op /\ row = new
    OBVIOUS
  <2>2. a \in Seq(OpRow) /\ row \in OpRow
    BY <1>2, <1>4, <2>1
  <2>3. op' = Append(a, row)
    BY <1>0, <2>1
  <2> HIDE DEF n
  <2>4. /\ op' \in Seq(OpRow) /\ Len(op') = Len(a) + 1 /\ op'[Len(a) + 1] = row
        /\ \A i \in 1 .. Len(a) : op'[i] = a[i]
        /\ Len(a) \in Nat /\ DOMAIN a = 1 .. Len(a) /\ DOMAIN op' = 1 .. Len(a) + 1
    BY <2>2, <2>3, Appended
  <2>5. n = Len(a) + 1
    BY <2>1 DEF n
  <2> QED
    BY <2>1, <2>4, <2>5
<1>7. StoreInv'
  <2>1. Len(op') <= MaxOp
    <3>1. Len(op') = Len(op) + 1
      BY <1>6
    <3>2. Len(op) # MaxOp
      BY <1>0
    <3>3. \A k \in Nat : k # MaxOp /\ k <= MaxOp => k + 1 <= MaxOp
      BY <1>2
    <3>4. Len(op) + 1 <= MaxOp
      BY <1>2, <3>2, <3>3
    <3> QED BY <3>1, <3>4
  <2> QED
    BY <1>1, <1>6, <2>1 DEF StoreInv, IInv, siteVars
<1>8. TypeOK'
  <2>1. DOMAIN op \subseteq DOMAIN op'
    BY <1>2, <1>6
  <2> QED
    BY <1>1, <2>1 DEF IInv, TypeOK, siteVars
<1>9. OpInv'
  <2> SUFFICES ASSUME NEW o \in DOMAIN op'
               PROVE  OpInv!(o)'
    BY DEF OpInv
  <2>1. CASE o # n
    <3>1. o \in DOMAIN op /\ op'[o] = op[o] /\ \A p \in 1 .. o - 1 : op'[p] = op[p]
      BY <1>2, <1>6, <2>1
    <3>2. \A p \in 1 .. o - 1 : \A q \in p + 1 .. o - 1 : op'[q] = op[q]
      BY <1>2, <3>1
    <3>3. OpInv!(o)
      BY <3>1 DEF IInv, OpInv
    <3> QED
      BY <3>1, <3>2, <3>3
  <2>2. CASE o = n
    <3>1. op'[o].after = after /\ op'[o].before = before /\ op'[o].deps = deps
      BY <1>5, <1>6, <2>2
    <3>2. \A p \in 1 .. o - 1 : p \in DOMAIN op /\ op'[p] = op[p]
      BY <1>2, <1>6, <2>2
    <3>3. 1 .. o - 1 = DOMAIN op /\ o - 1 = Len(op)
      BY <1>2, <2>2
    <3>4. ASSUME NEW r \in DOMAIN after
          PROVE  /\ (\A p \in DOMAIN op : r \notin DOMAIN op[p].after) => before[r] = InitOwner[r]
                 /\ \A p \in DOMAIN op :
                       r \in DOMAIN op[p].after /\ (\A q \in p + 1 .. Len(op) : r \notin DOMAIN op[q].after)
                          => before[r] = op[p].after[r] /\ p \in deps
      <4>1. r \in Reg /\ before[r] = Seen(r) /\ LastOp(r) \subseteq deps
        BY <1>3
      <4> HIDE DEF before, deps
      <4> QED BY <4>1, SeenIsLast
    <3>5. DOMAIN before = DOMAIN after
      OBVIOUS
    <3> HIDE DEF before, deps, n
    <3>6. \A p \in DOMAIN op : \A q \in p + 1 .. Len(op) : op'[q] = op[q]
      BY <1>2, <1>6
    <3> QED
      BY <3>1, <3>2, <3>3, <3>4, <3>5, <3>6
  <2> QED
    BY <2>1, <2>2
<1>10. ASSUME NEW A, NEW own, NEW clubs, Consistent(A, own, clubs) PROVE Consistent(A, own, clubs)'
  <2>1. A \subseteq DOMAIN op /\ \A q \in A : op'[q] = op[q] /\ \A p \in 1 .. q - 1 : op'[p] = op[p]
    BY <1>2, <1>6, <1>10 DEF Consistent
  <2>2. A \subseteq DOMAIN op'
    BY <1>2, <1>6, <2>1
  <2>3. Closed(A)'
    BY <2>1, <1>10 DEF Consistent, Closed
  <2>4. LastLeft(A, own)'
    BY <2>1, <1>10 DEF Consistent, LastLeft
  <2> QED
    BY <2>2, <2>3, <2>4, <1>10 DEF Consistent, ClubsOf
<1>11. ReceiverInv'
  <2>1. Consistent(applied, owner, club) /\ Consistent(AppliedAt(siteOp), siteOwner, siteClub)
    BY DEF IInv, ReceiverInv
  <2>2. AppliedAt(siteOp)' = AppliedAt(siteOp)
    BY <1>1 DEF AppliedAt, siteVars
  <2>3. PICK A, own, clubs, B, sown, sclubs :
           /\ A = applied /\ own = owner /\ clubs = club
           /\ B = AppliedAt(siteOp) /\ sown = siteOwner /\ sclubs = siteClub
    OBVIOUS
  <2>4. Consistent(A, own, clubs)' /\ Consistent(B, sown, sclubs)'
    BY <1>10, <2>1, <2>3
  <2>5. /\ applied' = A /\ owner' = own /\ club' = clubs
        /\ AppliedAt(siteOp)' = B /\ siteOwner' = sown /\ siteClub' = sclubs
    BY <1>1, <2>2, <2>3 DEF siteVars
  <2> QED
    BY <2>4, <2>5 DEF ReceiverInv, Consistent, Closed, LastLeft, ClubsOf
<1>12. AcksAreTheSites' /\ SyncInv'
  <2>1. Monotone
    BY <1>1, EditsSame
  <2> QED
    BY <1>1, <2>1, SyncStays DEF IInv, AcksAreTheSites, siteVars
<1> QED
  BY <1>7, <1>8, <1>9, <1>11, <1>12 DEF IInv

\* An operation enters the journal once, at its end.
LEMMA Recorded ==
    ASSUME NEW j \in Seq(Op), IsInjective(j), NEW o \in Op, o \notin Range(j)
    PROVE  /\ Append(j, o) \in Seq(Op) /\ IsInjective(Append(j, o))
           /\ Range(Append(j, o)) = Range(j) \cup {o}
<1> DEFINE k == Append(j, o)
<1>1. /\ k \in Seq(Op) /\ k[Len(j) + 1] = o /\ \A i \in 1 .. Len(j) : k[i] = j[i]
      /\ Len(j) \in Nat /\ DOMAIN j = 1 .. Len(j) /\ DOMAIN k = 1 .. Len(j) + 1
  BY Appended
<1> HIDE DEF k
<1>2. \A i \in DOMAIN k : i \in DOMAIN j \/ i = Len(j) + 1
  BY <1>1
<1>3. IsInjective(k)
  <2>1. \A i \in DOMAIN j : j[i] # o
    BY DEF Range
  <2>2. \A i, l \in DOMAIN j : j[i] = j[l] => i = l
    BY DEF IsInjective
  <2>3. \A i, l \in DOMAIN k : k[i] = k[l] => i = l
    BY <1>1, <1>2, <2>1, <2>2
  <2> QED BY <2>3 DEF IsInjective
<1>4. Range(k) = Range(j) \cup {o}
  <2>1. ASSUME NEW y \in Range(k) PROVE y \in Range(j) \cup {o}
    BY <1>1, <1>2 DEF Range
  <2>2. ASSUME NEW y \in Range(j) PROVE y \in Range(k)
    <3>1. PICK i \in DOMAIN j : y = j[i]
      BY DEF Range
    <3>2. i \in DOMAIN k /\ k[i] = y
      BY <1>1, <3>1
    <3> QED BY <3>2 DEF Range
  <2>3. o \in Range(k)
    <3>1. Len(j) + 1 \in DOMAIN k
      BY <1>1
    <3> QED BY <1>1, <3>1 DEF Range
  <2> QED BY <2>1, <2>2, <2>3
<1> QED
  BY <1>1, <1>3, <1>4 DEF k

\* What holds of a receiver depends on the operations made, not on what else changes.
LEMMA StillConsistent ==
    ASSUME UNCHANGED op, NEW A, NEW own, NEW clubs, Consistent(A, own, clubs)
    PROVE  Consistent(A, own, clubs)'
BY DEF Consistent, Closed, LastLeft, ClubsOf

\* An operation arrives: it is applied, or kept until its dependencies have been (receiveOne).
LEMMA ReceiveInv == ASSUME IInv, NEW o \in Op, Receive(o) PROVE IInv'
<1>1. /\ Made /\ o \notin applied /\ UNCHANGED <<op, ack, edit, siteVars, sync, fails>>
      /\ journal' = IF o \in Range(journal) THEN journal ELSE Append(journal, o)
  BY DEF Receive
<1>2. /\ StoreInv /\ OpInv /\ TypeOK /\ journal \in Seq(Op) /\ IsInjective(journal)
      /\ op \in Seq(OpRow) /\ Consistent(applied, owner, club)
  BY DEF IInv, StoreInv, TypeOK, ReceiverInv
<1>3. o \in DOMAIN op
  BY <1>1, <1>2 DEF Made, Op
<1>4. /\ journal' \in Seq(Op) /\ IsInjective(journal') /\ Range(journal') = Range(journal) \cup {o}
  <2>1. CASE o \in Range(journal)
    BY <1>1, <1>2, <2>1
  <2>2. CASE o \notin Range(journal)
    <3>1. journal' = Append(journal, o)
      BY <1>1, <2>2
    <3>2. PICK j : j = journal
      OBVIOUS
    <3>3. /\ Append(j, o) \in Seq(Op) /\ IsInjective(Append(j, o))
          /\ Range(Append(j, o)) = Range(j) \cup {o}
      BY <1>2, <2>2, <3>2, Recorded
    <3> QED BY <3>1, <3>2, <3>3
  <2> QED BY <2>1, <2>2
<1>5. /\ Consistent(applied, owner, club)' /\ applied' \subseteq applied \cup {o}
      /\ heads' \in [Reg -> SUBSET Op]
  <2>1. CASE op[o].deps \subseteq applied
    <3> DEFINE A == applied \cup {o}
               own == Updated(op[o].after, owner)
               clubs == CarriedAll(club, op[o])
    <3>1. applied' = A /\ owner' = own /\ club' = clubs /\ heads' = Updated([r \in DOMAIN op[o].after |-> {o}], heads)
      BY <2>1 DEF Receive
    <3>2. Consistent(A, own, clubs)
      BY <1>1, <1>2, <1>3, <2>1, Applying
    <3> HIDE DEF A, own, clubs
    <3>3. PICK a, w, c : a = A /\ w = own /\ c = clubs
      OBVIOUS
    <3>4. Consistent(a, w, c)'
      BY <1>1, <3>2, <3>3, StillConsistent
    <3>5. Consistent(applied, owner, club)'
      <4>1. applied' = a /\ owner' = w /\ club' = c
        BY <3>1, <3>3
      <4> QED BY <3>4, <4>1 DEF Consistent, Closed, LastLeft, ClubsOf
    <3>6. heads' \in [Reg -> SUBSET Op]
      <4>1. heads \in [Reg -> SUBSET Op]
        BY <1>2 DEF TypeOK
      <4> QED BY <3>1, <4>1 DEF Updated
    <3> QED
      BY <3>1, <3>5, <3>6 DEF A
  <2>2. CASE ~(op[o].deps \subseteq applied)
    <3>1. UNCHANGED <<applied, owner, heads, club>>
      BY <2>2 DEF Receive
    <3> QED
      BY <1>1, <1>2, <3>1 DEF TypeOK, Consistent, Closed, LastLeft, ClubsOf
  <2> QED BY <2>1, <2>2
<1>6. applied' \subseteq Range(journal')
  BY <1>2, <1>4, <1>5 DEF TypeOK
<1>7. owner' \in Owners /\ club' \in ClubTable
  BY <1>5 DEF Consistent
<1>8. TypeOK'
  BY <1>1, <1>2, <1>3, <1>4, <1>5, <1>6, <1>7 DEF TypeOK, Owners, ClubTable, siteVars
<1>9. StoreInv'
  BY <1>1, <1>2, <1>4 DEF StoreInv, siteVars
<1>10. OpInv' /\ AcksAreTheSites'
  BY <1>1 DEF IInv, OpInv, AcksAreTheSites, siteVars
<1>11. ReceiverInv'
  <2>1. Consistent(AppliedAt(siteOp), siteOwner, siteClub)'
    BY <1>1 DEF IInv, ReceiverInv, Consistent, Closed, LastLeft, ClubsOf, AppliedAt, siteVars
  <2> QED BY <1>5, <2>1 DEF ReceiverInv
<1>12. SyncInv'
  BY <1>1, EditsSame, SyncStays
<1> QED
  BY <1>8, <1>9, <1>10, <1>11, <1>12 DEF IInv

\* A club is entered at the Desk for the person who has the registration
\* (applyNativeClubEdit, ApplyPacketClubAffiliation, EnqueuePacketClubEdit).
LEMMA ClubEditInv ==
    ASSUME IInv, NEW r \in Reg, owner[r] \in Person, ClubEdited(r),
           UNCHANGED <<op, journal, applied, owner, heads, ack, siteVars, sync, fails>>
    PROVE  IInv'
<1>1. /\ TypeOK /\ StoreInv /\ edit \in Seq(EditRow) /\ Len(edit) \in Nat /\ Len(edit) < MaxEdit
      /\ MaxEdit \in Nat /\ MaxSiteEdit \in Nat /\ edit' = Append(edit, Queued(r))
      /\ club' = [club EXCEPT ![r] = [of |-> owner[r], value |-> Len(edit) + 1]]
  BY PushAssumption DEF IInv, TypeOK, ClubEdited
<1>2. Len(edit) + 1 \in Club
  BY <1>1 DEF Club
<1>3. PICK row : row = Queued(r)
  OBVIOUS
<1>4. row \in EditRow
  <2>1. heads[r] \subseteq Op
    BY <1>1 DEF TypeOK
  <2>2. ASSUME NEW x \in Person, NEW c \in Club, NEW h \in SUBSET Op
        PROVE  [reg |-> r, person |-> x, club |-> c, heads |-> h, state |-> "pending", later |-> FALSE] \in EditRow
    BY DEF EditRow, EditStates
  <2> QED BY <1>2, <1>3, <2>1, <2>2 DEF Queued
<1>5. /\ edit' \in Seq(EditRow) /\ Len(edit') = Len(edit) + 1 /\ DOMAIN edit = 1 .. Len(edit)
      /\ DOMAIN edit' = 1 .. Len(edit) + 1
  <2>1. PICK a : a = edit
    OBVIOUS
  <2>2. edit' = Append(a, row) /\ a \in Seq(EditRow)
    BY <1>1, <1>3, <2>1
  <2>3. /\ edit' \in Seq(EditRow) /\ Len(edit') = Len(a) + 1 /\ DOMAIN a = 1 .. Len(a)
        /\ DOMAIN edit' = 1 .. Len(a) + 1
    BY <1>4, <2>2, Appended
  <2> QED BY <2>1, <2>3
<1>6. Len(edit') <= MaxEdit
  <2>1. \A k \in Nat : k < MaxEdit => k + 1 <= MaxEdit
    BY <1>1
  <2> QED BY <1>1, <1>5, <2>1
<1>7. PICK c : c = [of |-> owner[r], value |-> Len(edit) + 1]
  OBVIOUS
<1>8. c \in Maybe(Clubs) /\ c.of = owner[r] /\ club' = [club EXCEPT ![r] = c]
  BY <1>1, <1>2, <1>7 DEF Clubs, Maybe
<1>9. club' \in [Reg -> Maybe(Clubs)] /\ \A q \in Reg : club'[q] = IF q = r THEN c ELSE club[q]
  BY <1>1, <1>8 DEF TypeOK
<1>10. TypeOK'
  BY <1>1, <1>5, <1>6, <1>9 DEF TypeOK, siteVars
<1>11. StoreInv' /\ OpInv' /\ AcksAreTheSites'
  BY DEF IInv, StoreInv, OpInv, AcksAreTheSites, siteVars
<1>12. ReceiverInv'
  <2>1. Consistent(AppliedAt(siteOp), siteOwner, siteClub)'
    BY DEF IInv, ReceiverInv, Consistent, Closed, LastLeft, ClubsOf, AppliedAt, siteVars
  <2>2. Consistent(applied, owner, club)
    BY DEF IInv, ReceiverInv
  <2>3. ClubsOf(club, owner)'
    BY <1>8, <1>9, <2>2 DEF Consistent, ClubsOf
  <2>4. Consistent(applied, owner, club)'
    BY <1>9, <2>2, <2>3 DEF Consistent, Closed, LastLeft, ClubTable
  <2> QED BY <2>1, <2>4 DEF ReceiverInv
<1>13. Monotone
  BY <1>1, <1>5 DEF Monotone, siteVars
<1> QED
  BY <1>10, <1>11, <1>12, <1>13, SyncStays DEF IInv

\* A club is changed on the site, or the site takes over a club edit: for the person who has
\* the registration there.
LEMMA SiteClubInv ==
    ASSUME IInv, NEW r \in Reg, NEW x \in Person, x = siteOwner[r], NEW v \in Club,
           siteClub' = [siteClub EXCEPT ![r] = [of |-> x, value |-> v]],
           UNCHANGED <<deskVars, ack, edit, siteOwner, siteOp>>
    PROVE  TypeOK' /\ OpInv' /\ ReceiverInv' /\ AcksAreTheSites' /\ Monotone
<1> DEFINE c == [of |-> x, value |-> v]
<1>1. c \in Maybe(Clubs) /\ c.of = x
  BY DEF Clubs, Maybe
<1> HIDE DEF c
<1>2. siteClub' = [siteClub EXCEPT ![r] = c] /\ siteClub \in [Reg -> Maybe(Clubs)] /\ TypeOK
  BY DEF c, IInv, TypeOK
<1>3. siteClub' \in [Reg -> Maybe(Clubs)] /\ \A q \in Reg : siteClub'[q] = IF q = r THEN c ELSE siteClub[q]
  BY <1>1, <1>2
<1>4. TypeOK'
  BY <1>2, <1>3 DEF TypeOK, deskVars
<1>5. OpInv' /\ AcksAreTheSites' /\ Monotone
  BY DEF IInv, OpInv, AcksAreTheSites, Monotone, deskVars
<1>6. Consistent(applied, owner, club)'
  BY DEF IInv, ReceiverInv, Consistent, Closed, LastLeft, ClubsOf, deskVars
<1>7. Consistent(AppliedAt(siteOp), siteOwner, siteClub)'
  <2>1. Consistent(AppliedAt(siteOp), siteOwner, siteClub)
    BY DEF IInv, ReceiverInv
  <2>2. ClubsOf(siteClub, siteOwner)'
    BY <1>1, <1>3, <2>1 DEF Consistent, ClubsOf
  <2> QED BY <1>3, <2>1, <2>2 DEF Consistent, Closed, LastLeft, ClubTable, AppliedAt, deskVars
<1> QED
  BY <1>4, <1>5, <1>6, <1>7 DEF ReceiverInv

\* A club is changed on the site.
LEMMA SiteEditsClubInv == ASSUME IInv, NEW r \in Reg, SiteEditsClub(r) PROVE IInv'
<1>1. /\ siteEdits < MaxSiteEdit /\ siteOwner[r] # None /\ siteEdits' = siteEdits + 1
      /\ siteClub' = [siteClub EXCEPT ![r] = [of |-> siteOwner[r], value |-> -siteEdits - 1]]
      /\ UNCHANGED <<deskVars, ack, edit, siteOwner, siteOp, siteEdit, sync, fails>>
  BY DEF SiteEditsClub
<1>2. siteEdits \in 0 .. MaxSiteEdit /\ MaxSiteEdit \in Nat /\ MaxEdit \in Nat /\ siteOwner \in [Reg -> Maybe(Person)]
  BY PushAssumption DEF IInv, StoreInv, TypeOK
<1>3. siteOwner[r] \in Person /\ -siteEdits - 1 \in Club
  BY <1>1, <1>2 DEF Maybe, Club
<1>4. TypeOK' /\ OpInv' /\ ReceiverInv' /\ AcksAreTheSites' /\ Monotone
  BY <1>1, <1>3, SiteClubInv
<1>5. StoreInv'
  <2>1. siteEdits' \in 0 .. MaxSiteEdit
    BY <1>1, <1>2
  <2> QED BY <1>1, <2>1 DEF IInv, StoreInv, deskVars
<1> QED
  BY <1>1, <1>4, <1>5, SyncStays DEF IInv

\* A step of a synchronisation that notes nothing.
LEMMA OnlySync ==
    ASSUME IInv, UNCHANGED <<deskVars, ack, edit, siteVars>>, NEW s \in Sync, NEW x, Goto(s, x), Carries(x)'
    PROVE  IInv'
BY EditsSame, OutboxInv, SyncGoes

\* The first edit to be sent is one of the outbox.
LEMMA FirstEdit == ASSUME IInv, PendingEdits # {} PROVE Min(PendingEdits) \in PendingEdits /\ Min(PendingEdits) \in DOMAIN edit
<1>1. edit \in Seq(EditRow)
  BY DEF IInv, TypeOK
<1>2. PendingEdits \in SUBSET Nat /\ PendingEdits \subseteq DOMAIN edit
  BY <1>1 DEF PendingEdits
<1> QED
  BY <1>2, LeastNat

\* The outbox is empty.
LEMMA FlushNothingInv == ASSUME IInv, NEW s \in Sync, FlushNothing(s) PROVE IInv'
<1>1. Carries([at |-> "list", one |-> FALSE])'
  BY DEF Carries
<1> QED
  BY <1>1, OnlySync DEF FlushNothing

\* The first edit of the outbox is given up, waits for an operation, or is sent.
LEMMA FlushEditInv == ASSUME IInv, NEW s \in Sync, FlushEdit(s) PROVE IInv' /\ EditsKept
<1>1. PICK e : e = Min(PendingEdits)
  OBVIOUS
<1>2. e \in DOMAIN edit /\ edit \in Seq(EditRow)
  BY <1>1, FirstEdit DEF FlushEdit, IInv, TypeOK
<1>3. UNCHANGED <<deskVars, ack, siteVars, fails>>
  BY DEF FlushEdit
<1>4. CASE edit' = [edit EXCEPT ![e].state = "review"] /\ UNCHANGED sync
  <2>1. edit[e] \in EditRow
    BY <1>2
  <2>2. PICK b \in BOOLEAN : b = edit[e].later
    <3>1. edit[e].later \in BOOLEAN
      BY <2>1 DEF EditRow
    <3> QED BY <3>1, Zenon
  <2>3. edit' = [edit EXCEPT ![e] = Noted(edit[e], "review", b)]
    <3>1. ASSUME NEW row \in EditRow, NEW c \in BOOLEAN, c = row.later
          PROVE  [row EXCEPT !.state = "review"] = Noted(row, "review", c)
      BY <3>1 DEF Noted, EditRow
    <3>2. [edit[e] EXCEPT !.state = "review"] = Noted(edit[e], "review", b)
      BY <2>1, <2>2, <3>1, Zenon
    <3> QED BY <1>4, <3>2, Zenon
  <2>4. "review" \in EditStates
    BY DEF EditStates
  <2>5. EditsKept
    BY <1>2, <2>3, <2>4, EditNoted
  <2> QED
    BY <1>3, <1>4, <2>5, KeptMonotone, SyncStays, OutboxInv
<1>5. CASE Goto(s, [at |-> "list", one |-> TRUE]) /\ UNCHANGED edit
  <2>1. Carries([at |-> "list", one |-> TRUE])'
    BY DEF Carries
  <2> QED
    BY <1>3, <1>5, <2>1, OnlySync, EditsSame
<1>6. CASE Goto(s, [at |-> "send", edit |-> e]) /\ UNCHANGED edit
  <2>1. Carries([at |-> "send", edit |-> e])'
    BY <1>2, <1>6 DEF Carries
  <2> QED
    BY <1>3, <1>6, <2>1, OnlySync, EditsSame
<1> QED
  BY <1>1, <1>4, <1>5, <1>6 DEF FlushEdit

\* A step that leaves the Desk alone and may change the record of edits on the site.
LEMMA SiteEditInv ==
    ASSUME IInv, UNCHANGED <<deskVars, ack, edit, siteOwner, siteOp, siteClub>>
    PROVE  TypeOK' /\ OpInv' /\ ReceiverInv' /\ AcksAreTheSites' /\ Monotone
<1>1. TypeOK'
  BY DEF IInv, TypeOK, deskVars
<1>2. OpInv' /\ AcksAreTheSites' /\ Monotone
  BY DEF IInv, OpInv, AcksAreTheSites, Monotone, deskVars
<1>3. ReceiverInv'
  BY DEF IInv, ReceiverInv, Consistent, Closed, LastLeft, ClubsOf, AppliedAt, deskVars
<1> QED
  BY <1>1, <1>2, <1>3

\* The site gets a club edit, once or again, and answers, or the answer is lost
\* (PushPacketClubEdit).
LEMMA SendEditInv == ASSUME IInv, NEW s \in Sync, NEW answered \in BOOLEAN, SendEdit(s, answered) PROVE IInv'
<1>1. PICK e : e = sync[s].edit
  OBVIOUS
<1>2. /\ e \in DOMAIN edit /\ edit \in Seq(EditRow) /\ Len(edit) <= MaxEdit /\ MaxEdit \in Nat
      /\ siteEdit \in [Edit -> Maybe({"applied", "conflict"})] /\ siteOwner \in [Reg -> Maybe(Person)]
  BY <1>1, PushAssumption DEF IInv, TypeOK, StoreInv, SyncInv, Carries, SendEdit
<1>3. e \in Edit /\ edit[e] \in EditRow
  BY <1>2 DEF Edit
<1>4. PICK out : out = SiteEditOutcome(e)
  OBVIOUS
<1>5. /\ out \in {"applied", "conflict"}
      /\ out = "applied" /\ siteEdit[e] = None => siteOwner[edit[e].reg] = edit[e].person
  BY <1>2, <1>3, <1>4 DEF SiteEditOutcome, Maybe
<1>6. /\ siteEdit' = [siteEdit EXCEPT ![e] = out]
      /\ siteClub' = IF out = "applied" /\ siteEdit[e] = None
                     THEN [siteClub EXCEPT ![edit[e].reg] = [of |-> edit[e].person, value |-> edit[e].club]]
                     ELSE siteClub
      /\ UNCHANGED <<siteOwner, siteOp, siteEdits, deskVars, ack, edit>>
  BY <1>1, <1>4 DEF SendEdit, SiteTakesEdit
<1>7. TypeOK' /\ OpInv' /\ ReceiverInv' /\ AcksAreTheSites' /\ Monotone
  <2>1. CASE out = "applied" /\ siteEdit[e] = None
    <3>1. PICK r, x, v : r = edit[e].reg /\ x = edit[e].person /\ v = edit[e].club
      OBVIOUS
    <3>2. r \in Reg /\ x \in Person /\ v \in Club
      BY <1>3, <3>1 DEF EditRow
    <3>3. x = siteOwner[r] /\ siteClub' = [siteClub EXCEPT ![r] = [of |-> x, value |-> v]]
      BY <1>5, <1>6, <2>1, <3>1
    <3> QED BY <1>6, <3>2, <3>3, SiteClubInv
  <2>2. CASE ~(out = "applied" /\ siteEdit[e] = None)
    BY <1>6, <2>2, SiteEditInv
  <2> QED BY <2>1, <2>2
<1>8. StoreInv'
  <2>1. siteEdit' \in [Edit -> Maybe({"applied", "conflict"})]
    BY <1>2, <1>3, <1>5, <1>6 DEF Maybe
  <2> QED BY <1>6, <2>1 DEF IInv, StoreInv, deskVars
<1>9. SyncInv'
  <2>1. PICK answer : answer = IF answered THEN out ELSE "failed"
    OBVIOUS
  <2>2. Goto(s, [at |-> "answer", edit |-> e, answer |-> answer])
    BY <1>1, <1>4, <2>1, Zenon DEF SendEdit
  <2>3. Carries([at |-> "answer", edit |-> e, answer |-> answer])'
    BY <1>2, <1>5, <1>6, <2>1 DEF Carries, EditStates
  <2> QED BY <1>7, <2>2, <2>3, SyncGoes
<1> QED
  BY <1>7, <1>8, <1>9 DEF IInv

\* The edit does not reach the site, or is refused there.
LEMMA SendEditFailsInv ==
    ASSUME IInv, NEW s \in Sync, NEW refused \in BOOLEAN, SendEditFails(s, refused) PROVE IInv'
<1>1. PICK e : e = sync[s].edit
  OBVIOUS
<1>2. PICK answer : answer = IF refused THEN "review" ELSE "failed"
  OBVIOUS
<1>3. /\ Goto(s, [at |-> "answer", edit |-> e, answer |-> answer])
      /\ UNCHANGED <<deskVars, ack, edit, siteVars>> /\ sync[s].at = "send"
  BY <1>1, <1>2, Zenon DEF SendEditFails
<1>4. e \in DOMAIN edit
  BY <1>1, <1>3 DEF IInv, SyncInv, Carries
<1>5. Carries([at |-> "answer", edit |-> e, answer |-> answer])'
  BY <1>2, <1>3, <1>4 DEF Carries, EditStates
<1> QED
  BY <1>3, <1>5, OnlySync

\* The answer is stored, or the edit is put off (AcknowledgePacketClubEdit, DeferPacketClubEdit).
LEMMA AnswerEditInv == ASSUME IInv, NEW s \in Sync, AnswerEdit(s) PROVE IInv' /\ EditsKept
<1>1. PICK e, answer : e = sync[s].edit /\ answer = sync[s].answer
  OBVIOUS
<1>2. /\ e \in DOMAIN edit /\ answer \in EditStates \cup {"failed"} /\ edit \in Seq(EditRow)
      /\ UNCHANGED <<deskVars, ack, siteVars, fails>> /\ Goto(s, Idle)
  BY <1>1 DEF IInv, TypeOK, SyncInv, Carries, AnswerEdit
<1>3. PICK row : row = edit[e]
  OBVIOUS
<1>4. edit' = [edit EXCEPT ![e] = IF answer = "failed" THEN [row EXCEPT !.state = "pending", !.later = TRUE]
                                  ELSE [row EXCEPT !.state = answer, !.later = FALSE]]
  BY <1>1, <1>2, <1>3, Zenon DEF AnswerEdit
<1>5. EditsKept
  <2>1. CASE answer = "failed"
    <3>1. edit' = [edit EXCEPT ![e] = Noted(edit[e], "pending", TRUE)]
      BY <1>3, <1>4, <2>1, Zenon DEF Noted
    <3>2. "pending" \in EditStates /\ TRUE \in BOOLEAN
      BY DEF EditStates
    <3> QED BY <1>2, <3>1, <3>2, EditNoted
  <2>2. CASE answer # "failed"
    <3>1. edit' = [edit EXCEPT ![e] = Noted(edit[e], answer, FALSE)]
      BY <1>3, <1>4, <2>2, Zenon DEF Noted
    <3>2. answer \in EditStates /\ FALSE \in BOOLEAN
      BY <1>2, <2>2
    <3> QED BY <1>2, <3>1, <3>2, EditNoted
  <2> QED BY <2>1, <2>2
<1>6. Carries(Idle)'
  BY DEF Carries, Idle
<1>7. SyncInv'
  BY <1>2, <1>5, <1>6, KeptMonotone, SyncGoes
<1> QED
  BY <1>2, <1>5, <1>7, OutboxInv

\* next_attempt_at of an edit has come.
LEMMA DelayInv == ASSUME IInv, NEW e \in Edit, DelayPasses(e) PROVE IInv' /\ EditsKept
<1>1. /\ e \in DOMAIN edit /\ edit[e].state = "pending" /\ edit \in Seq(EditRow)
      /\ edit' = [edit EXCEPT ![e].later = FALSE]
      /\ UNCHANGED <<deskVars, ack, siteVars, sync, fails>>
  BY DEF DelayPasses, PendingEdits, IInv, TypeOK
<1>2. ASSUME NEW row \in EditRow, row.state = "pending"
      PROVE  [row EXCEPT !.later = FALSE] = Noted(row, "pending", FALSE)
  BY <1>2 DEF Noted, EditRow
<1>3. [edit[e] EXCEPT !.later = FALSE] = Noted(edit[e], "pending", FALSE)
  <2>1. edit[e] \in EditRow
    BY <1>1
  <2> QED BY <1>1, <1>2, <2>1
<1>4. edit' = [edit EXCEPT ![e] = Noted(edit[e], "pending", FALSE)]
  BY <1>1, <1>3, Zenon
<1>5. "pending" \in EditStates /\ FALSE \in BOOLEAN
  BY DEF EditStates
<1>6. EditsKept
  BY <1>1, <1>4, <1>5, EditNoted
<1> QED
  BY <1>1, <1>6, KeptMonotone, SyncStays, OutboxInv

\* The operations to be sent are read (ListPendingPacketOperations).
LEMMA ListOpsInv == ASSUME IInv, NEW s \in Sync, ListOps(s) PROVE IInv'
<1>1. PICK batch : batch = Batch(sync[s].one)
  OBVIOUS
<1>2. batch \subseteq Op
  <2>1. PendingOps \subseteq Op /\ journal \in Seq(Op)
    BY OpFields DEF IInv, PendingOps, ReceiverInv, Consistent, StoreInv
  <2>2. PendingOps # {} => FirstPending \in PendingOps
    <3> SUFFICES ASSUME PendingOps # {} PROVE FirstPending \in PendingOps
      OBVIOUS
    <3> DEFINE N == {n \in DOMAIN journal : journal[n] \in PendingOps}
    <3>1. PICK o \in PendingOps : TRUE
      OBVIOUS
    <3>2. o \in Range(journal)
      BY <3>1 DEF IInv, TypeOK, PendingOps
    <3>3. PICK n \in DOMAIN journal : journal[n] = o
      BY <3>2 DEF Range
    <3>4. N \in SUBSET Nat /\ N # {}
      BY <2>1, <3>1, <3>3
    <3>5. Min(N) \in N
      <4> HIDE DEF N
      <4> QED BY <3>4, LeastNat
    <3> QED BY <3>5 DEF FirstPending
  <2> QED BY <1>1, <2>1, <2>2 DEF Batch
<1>3. UNCHANGED <<deskVars, ack, edit, siteVars>>
  BY DEF ListOps
<1>4. PICK x : x = IF batch # {} THEN [at |-> "push", batch |-> batch]
                   ELSE IF sync[s].one THEN Idle ELSE [at |-> "fetch"]
  OBVIOUS
<1>5. Goto(s, x)
  BY <1>1, <1>4, Zenon DEF ListOps
<1>6. Carries(x)'
  <2>1. \/ x = [at |-> "push", batch |-> batch]
        \/ x = Idle
        \/ x = [at |-> "fetch"]
    BY <1>4, Zenon
  <2> QED BY <1>2, <2>1 DEF Carries, Idle
<1> QED
  BY <1>3, <1>5, <1>6, OnlySync

\* The site takes a batch of operations and answers, or the answer is lost
\* (PushPacketOperations).
LEMMA PushOpsInv ==
    ASSUME IInv, NEW s \in Sync, NEW answered \in BOOLEAN, NEW refused, PushOps(s, answered, refused) PROVE IInv'
<1>1. PICK batch : batch = sync[s].batch
  OBVIOUS
<1>2. PICK st : st = SiteAfter(batch, refused)[Len(journal)]
  OBVIOUS
<1>3. /\ siteOwner' = st.owner /\ siteClub' = st.club /\ siteOp' = st.op
      /\ UNCHANGED <<siteEdit, siteEdits, deskVars, ack, edit>> /\ sync[s].at = "push"
  BY <1>1, <1>2, Zenon DEF PushOps, SiteTakesOps
<1>4. batch \subseteq Op
  BY <1>1, <1>3 DEF IInv, SyncInv, Carries
<1>5. Follows(st)
  BY <1>2, BatchFollows
<1>6. /\ st.owner \in Owners /\ st.club \in ClubTable /\ st.op \in Outcomes
      /\ \A o \in Op : siteOp[o] # None => st.op[o] = siteOp[o]
      /\ Consistent(AppliedAt(st.op), st.owner, st.club)
  BY <1>5 DEF Follows
<1>7. TypeOK' /\ StoreInv'
  <2>1. TypeOK'
    BY <1>3, <1>6 DEF IInv, TypeOK, Owners, ClubTable, deskVars
  <2>2. StoreInv'
    BY <1>3, <1>6 DEF IInv, StoreInv, deskVars
  <2> QED BY <2>1, <2>2
<1>8. OpInv'
  BY <1>3 DEF IInv, OpInv, deskVars
<1>9. AcksAreTheSites'
  BY <1>3, <1>6 DEF IInv, AcksAreTheSites
<1>10. ReceiverInv'
  <2>1. Consistent(applied, owner, club)'
    BY <1>3 DEF IInv, ReceiverInv, Consistent, Closed, LastLeft, ClubsOf, deskVars
  <2>2. PICK A, own, clubs : A = AppliedAt(st.op) /\ own = st.owner /\ clubs = st.club
    OBVIOUS
  <2>3. Consistent(A, own, clubs)'
    <3>1. UNCHANGED op
      BY <1>3 DEF deskVars
    <3> QED BY <1>6, <2>2, <3>1, StillConsistent
  <2>4. AppliedAt(siteOp)' = A /\ siteOwner' = own /\ siteClub' = clubs
    BY <1>3, <2>2 DEF AppliedAt
  <2>5. Consistent(AppliedAt(siteOp), siteOwner, siteClub)'
    BY <2>3, <2>4 DEF Consistent, Closed, LastLeft, ClubsOf
  <2> QED BY <2>1, <2>5 DEF ReceiverInv
<1>11. Monotone
  BY <1>3, <1>6 DEF Monotone
<1>12. SyncInv'
  <2>1. PICK rec : rec = siteOp'
    OBVIOUS
  <2>2. PICK x : x = IF answered THEN [at |-> "mark", batch |-> batch, receipts |-> rec] ELSE Idle
    OBVIOUS
  <2>3. Goto(s, x)
    BY <1>1, <2>1, <2>2, Zenon DEF PushOps
  <2>4. CASE x = [at |-> "mark", batch |-> batch, receipts |-> rec]
    <3>1. rec \in Outcomes
      BY <1>3, <1>6, <2>1
    <3>2. Carries(x)'
      BY <1>4, <2>1, <2>4, <3>1 DEF Carries
    <3> QED BY <1>11, <2>3, <3>2, SyncGoes
  <2>5. CASE x = Idle
    <3>1. Carries(x)'
      BY <2>5 DEF Carries, Idle
    <3> QED BY <1>11, <2>3, <3>1, SyncGoes
  <2> QED BY <2>2, <2>4, <2>5, Zenon
<1> QED
  BY <1>7, <1>8, <1>9, <1>10, <1>12 DEF IInv

\* The site's receipts are stored, each for its operation (MarkPacketOperationSiteReceipt).
LEMMA MarkOpsInv == ASSUME IInv, NEW s \in Sync, MarkOps(s) PROVE IInv'
<1>1. PICK batch, receipts : batch = sync[s].batch /\ receipts = sync[s].receipts
  OBVIOUS
<1>2. /\ ack' = [o \in Op |-> IF o \in batch THEN receipts[o] ELSE ack[o]]
      /\ Goto(s, Idle) /\ UNCHANGED <<deskVars, edit, siteVars, fails>>
  BY <1>1, Zenon DEF MarkOps, Receipt
<1>3. /\ receipts \in Outcomes /\ \A o \in Op : receipts[o] # None => siteOp[o] = receipts[o]
      /\ ack \in Outcomes /\ \A o \in Op : ack[o] # None => siteOp[o] = ack[o]
  BY <1>1 DEF IInv, SyncInv, Carries, MarkOps, TypeOK, Outcomes, AcksAreTheSites
<1>4. ack' \in Outcomes /\ \A o \in Op : ack'[o] # None => siteOp[o] = ack'[o]
  BY <1>2, <1>3 DEF Outcomes
<1>5. TypeOK' /\ StoreInv'
  BY <1>2, <1>4 DEF IInv, TypeOK, StoreInv, Outcomes, deskVars, siteVars
<1>6. AcksAreTheSites'
  BY <1>2, <1>4 DEF AcksAreTheSites, siteVars
<1>7. OpInv' /\ ReceiverInv'
  BY <1>2 DEF IInv, OpInv, ReceiverInv, Consistent, Closed, LastLeft, ClubsOf, AppliedAt, deskVars, siteVars
<1>8. Carries(Idle)'
  BY DEF Carries, Idle
<1>9. SyncInv'
  BY <1>2, <1>8, EditsSame, SyncGoes
<1> QED
  BY <1>5, <1>6, <1>7, <1>9 DEF IInv

\* The site's clubs are fetched with their owners (refreshPacketRelayClubs).
LEMMA FetchClubsInv == ASSUME IInv, NEW s \in Sync, NEW answered \in BOOLEAN, FetchClubs(s, answered) PROVE IInv'
<1>1. PICK own, clubs : own = siteOwner /\ clubs = siteClub
  OBVIOUS
<1>2. PICK x : x = IF answered THEN [at |-> "refresh", owner |-> own, club |-> clubs] ELSE Idle
  OBVIOUS
<1>3. Goto(s, x) /\ UNCHANGED <<deskVars, ack, edit, siteVars>>
  BY <1>1, <1>2, Zenon DEF FetchClubs
<1>4. own \in Owners /\ clubs \in ClubTable /\ ClubsOf(clubs, own)
  BY <1>1 DEF IInv, ReceiverInv, Consistent
<1>5. CASE x = [at |-> "refresh", owner |-> own, club |-> clubs]
  <2>1. Carries(x)'
    BY <1>4, <1>5 DEF Carries, ClubsOf
  <2> QED BY <1>3, <2>1, OnlySync
<1>6. CASE x = Idle
  <2>1. Carries(x)'
    BY <1>6 DEF Carries, Idle
  <2> QED BY <1>3, <2>1, OnlySync
<1> QED
  BY <1>2, <1>5, <1>6, Zenon

\* The clubs fetched are taken over where the owner is still the same
\* (filterClubOwners, ApplyBoundMemberClubs).
LEMMA RefreshClubsInv == ASSUME IInv, NEW s \in Sync, RefreshClubs(s) PROVE IInv'
<1>1. PICK own, clubs : own = sync[s].owner /\ clubs = sync[s].club
  OBVIOUS
<1>2. /\ club' = Refreshed({r \in Reg : Bound(own, r) /\ ~Protected(own, r)}, clubs)
      /\ Goto(s, Idle) /\ UNCHANGED <<op, journal, applied, owner, heads, ack, edit, siteVars, fails>>
  BY <1>1, Zenon DEF RefreshClubs
<1>3. own \in Owners /\ clubs \in ClubTable /\ ClubsOf(clubs, own)
  BY <1>1 DEF IInv, SyncInv, Carries, RefreshClubs
<1>4. club \in ClubTable /\ Consistent(applied, owner, club)
  BY DEF IInv, ReceiverInv, Consistent
<1>5. club' \in ClubTable
  BY <1>2, <1>3, <1>4 DEF Refreshed, ClubTable
<1>6. \A r \in Reg : club'[r] = club[r] \/ (own[r] = owner[r] /\ club'[r] = clubs[r])
  BY <1>2 DEF Refreshed, Bound
<1>7. ClubsOf(club, owner)'
  BY <1>2, <1>3, <1>4, <1>6 DEF Consistent, ClubsOf
<1>8. TypeOK' /\ StoreInv'
  BY <1>2, <1>5 DEF IInv, TypeOK, StoreInv, ClubTable, siteVars
<1>9. OpInv' /\ AcksAreTheSites'
  BY <1>2 DEF IInv, OpInv, AcksAreTheSites, siteVars
<1>10. ReceiverInv'
  <2>1. Consistent(AppliedAt(siteOp), siteOwner, siteClub)'
    BY <1>2 DEF IInv, ReceiverInv, Consistent, Closed, LastLeft, ClubsOf, AppliedAt, siteVars
  <2>2. Consistent(applied, owner, club)'
    BY <1>2, <1>4, <1>5, <1>7 DEF Consistent, Closed, LastLeft
  <2> QED BY <2>1, <2>2 DEF ReceiverInv
<1>11. Carries(Idle)'
  BY DEF Carries, Idle
<1>12. SyncInv'
  BY <1>2, <1>11, EditsSame, SyncGoes
<1> QED
  BY <1>8, <1>9, <1>10, <1>12 DEF IInv

\* Replacing and moving a person are operations of the tablet.
LEMMA ReplaceInv == ASSUME IInv, NEW r \in Reg, NEW x \in Person, ReplacePerson(r, x) PROVE IInv'
<1>1. [q \in {r} |-> x] \in [{r} -> Maybe(Person)] /\ {r} \in SUBSET Reg
  BY DEF Maybe
<1>2. [q \in {r} |-> x] \in Some
  BY <1>1 DEF Some
<1> QED
  BY <1>2, DraftInv DEF ReplacePerson

\* A move takes the person to another registration.
LEMMA MoveInv == ASSUME IInv, NEW r \in Reg, NEW s \in Reg, MovePerson(r, s) PROVE IInv'
<1> DEFINE after == [q \in {r, s} |-> IF q = r THEN None ELSE Seen(r)]
<1>1. Draft(after)
  BY DEF MovePerson
<1>2. PICK a : a = after
  OBVIOUS
<1>3. a \in [{r, s} -> Maybe(Person)] /\ {r, s} \in SUBSET Reg
  BY <1>2, SeenIsLast DEF Maybe
<1>4. a \in Some
  BY <1>3 DEF Some
<1>5. Draft(a)
  <2> HIDE DEF after
  <2> QED BY <1>1, <1>2
<1> QED
  BY <1>4, <1>5, DraftInv

\* The invariant is kept by every step.
LEMMA NextInv == ASSUME IInv, [Next]_vars PROVE IInv'
<1>1. CASE \E r \in Reg, x \in Person : ReplacePerson(r, x)
  BY <1>1, ReplaceInv
<1>2. CASE \E r, s \in Reg : MovePerson(r, s)
  BY <1>2, MoveInv
<1>3. CASE \E o \in Op : Receive(o)
  BY <1>3, ReceiveInv
<1>4. CASE \E r \in Reg : NativeEditClub(r)
  <2>1. PICK r \in Reg : NativeEditClub(r)
    BY <1>4
  <2>2. owner[r] \in Person
    BY <2>1 DEF NativeEditClub, IInv, TypeOK, Maybe
  <2> QED BY <2>1, <2>2, ClubEditInv DEF NativeEditClub
<1>5. CASE \E r \in Reg : SiteEditsClub(r)
  BY <1>5, SiteEditsClubInv
<1>6. CASE \E r \in Reg, x \in Person : TabletEditsClub(r, x)
  <2>1. PICK r \in Reg, x \in Person : TabletEditsClub(r, x)
    BY <1>6
  <2> QED BY <2>1, ClubEditInv DEF TabletEditsClub
<1>7. CASE \E s \in Sync : SyncStep(s)
  <2>1. PICK s \in Sync : SyncStep(s)
    BY <1>7
  <2>2. CASE FlushNothing(s)
    BY <2>2, FlushNothingInv
  <2>3. CASE FlushEdit(s)
    BY <2>3, FlushEditInv
  <2>4. CASE AnswerEdit(s)
    BY <2>4, AnswerEditInv
  <2>5. CASE ListOps(s)
    BY <2>5, ListOpsInv
  <2>6. CASE MarkOps(s)
    BY <2>6, MarkOpsInv
  <2>7. CASE RefreshClubs(s)
    BY <2>7, RefreshClubsInv
  <2>8. CASE \E answered \in BOOLEAN : SendEdit(s, answered)
    BY <2>8, SendEditInv
  <2>9. CASE \E answered \in BOOLEAN : SendEditFails(s, answered)
    BY <2>9, SendEditFailsInv
  <2>10. CASE \E answered \in BOOLEAN : FetchClubs(s, answered)
    BY <2>10, FetchClubsInv
  <2>11. CASE \E answered \in BOOLEAN, refused \in SUBSET Refusable : PushOps(s, answered, refused)
    BY <2>11, PushOpsInv
  <2> QED
    BY <2>1, <2>2, <2>3, <2>4, <2>5, <2>6, <2>7, <2>8, <2>9, <2>10, <2>11 DEF SyncStep
<1>8. CASE \E e \in Edit : DelayPasses(e)
  BY <1>8, DelayInv
<1>9. CASE UNCHANGED vars
  <2>1. UNCHANGED <<deskVars, ack, siteVars, edit, sync>>
    BY <1>9 DEF vars
  <2> QED BY <2>1, EditsSame, SyncStays, OutboxInv
<1> QED
  BY <1>1, <1>2, <1>3, <1>4, <1>5, <1>6, <1>7, <1>8, <1>9 DEF Next

-----------------------------------------------------------------------------
(* The theorems.                                                           *)

\* The inductive invariant holds in every reachable state: the Desk and the site are both
\* closed under the order in which the tablet changed a registration, and what a
\* synchronisation carries is still true of the site (SyncPacketOperations).
THEOREM Invariance == Spec => []IInv
BY InitInv, NextInv, PTL DEF Spec

\* The stores of the Desk and the site keep their types; an operation is in the journal once
\* (packet_issuance_operations, packet_club_outbox).
THEOREM TypeCorrect == Spec => []TypeOK
<1>1. IInv => TypeOK
  BY DEF IInv
<1> QED
  BY <1>1, Invariance, PTL

\* An operation is taken for delivered with an outcome only if that is the outcome it has at
\* the site, with any number of synchronisations at the same time
\* (MarkPacketOperationSiteReceipt).
THEOREM ReceiptsAreTrue == Spec => []AcksAreTheSites
<1>1. IInv => AcksAreTheSites
  BY DEF IInv
<1> QED
  BY <1>1, Invariance, PTL

\* A club is shown only for the person it was entered for, at the Desk and on the site,
\* whatever the order in which operations and clubs arrive (packetClubProjection,
\* filterClubOwners).
THEOREM ClubsFollowPersons == Spec => []ClubOfOwner
<1>1. IInv => ClubOfOwner
  BY DEF IInv, ReceiverInv, Consistent, ClubsOf, ClubOfOwner
<1> QED
  BY <1>1, Invariance, PTL

\* A step that leaves the clubs alone leaves shown what is shown.
LEMMA ShownStays ==
    ASSUME EditsKept, UNCHANGED club, NEW e \in DOMAIN edit, Shown(e)
    PROVE  Shown(e)'
BY DEF EditsKept, Shown

\* An operation leaves the club of a registration whose person it does not change
\* (packetClubProjection).
LEMMA ReceiveShows ==
    ASSUME IInv, NEW o \in Op, Receive(o), NEW e \in DOMAIN edit, Newest(e), Shown(e), Newest(e)'
    PROVE  Shown(e)'
<1>1. /\ Made /\ o \notin applied /\ UNCHANGED <<op, edit>> /\ edit \in Seq(EditRow)
      /\ StoreInv /\ OpInv /\ Consistent(applied, owner, club) /\ op \in Seq(OpRow)
  BY DEF IInv, ReceiverInv, TypeOK, StoreInv, Receive
<1>2. PICK r, x : r = edit[e].reg /\ x = edit[e].person
  OBVIOUS
<1>3. r \in Reg /\ x \in Person /\ x # None
  <2>1. edit[e] \in EditRow
    BY <1>1
  <2> QED BY <1>2, <2>1, PushAssumption DEF EditRow
<1>4. owner[r] = x /\ owner'[r] = x
  BY <1>1, <1>2 DEF Newest
<1>5. club'[r] = club[r]
  <2>1. CASE op[o].deps \subseteq applied /\ r \in DOMAIN op[o].after
    <3>1. o \in DOMAIN op
      BY <1>1 DEF Made, Op
    <3>2. \A q \in DOMAIN op[o].after : owner[q] = op[o].before[q]
      BY <1>1, <2>1, <3>1, MadeAgainst DEF Consistent
    <3>3. owner'[r] = op[o].after[r] /\ club'[r] = Carried(club, op[o], r)
      BY <1>3, <2>1 DEF Receive, Updated, CarriedAll
    <3>4. op[o].before[r] = x /\ op[o].after[r] = x
      BY <1>4, <2>1, <3>2, <3>3
    <3>5. Carried(club, op[o], r) = club[r]
      BY <1>3, <3>4 DEF Carried
    <3> QED BY <3>3, <3>5
  <2>2. CASE op[o].deps \subseteq applied /\ r \notin DOMAIN op[o].after
    BY <1>3, <2>2 DEF Receive, CarriedAll
  <2>3. CASE ~(op[o].deps \subseteq applied)
    BY <2>3 DEF Receive
  <2> QED BY <2>1, <2>2, <2>3
<1> QED
  BY <1>1, <1>2, <1>5 DEF Shown

\* An edit for another person is one of another registration.
LEMMA ClubEditShows ==
    ASSUME IInv, NEW r \in Reg, owner[r] \in Person, ClubEdited(r), UNCHANGED owner,
           NEW e \in DOMAIN edit, Newest(e), Shown(e), Newest(e)'
    PROVE  Shown(e)'
<1>1. edit \in Seq(EditRow) /\ club \in [Reg -> Maybe(Clubs)]
  BY DEF IInv, TypeOK
<1>2. PICK a, row : a = edit /\ row = Queued(r)
  OBVIOUS
<1>3. row.person = owner[r]
  BY <1>2 DEF Queued
<1>4. /\ edit' = Append(a, row)
      /\ club' = [club EXCEPT ![r] = [of |-> owner[r], value |-> Len(edit) + 1]]
  BY <1>2 DEF ClubEdited
<1>5. /\ Len(a) \in Nat /\ DOMAIN a = 1 .. Len(a) /\ DOMAIN edit' = 1 .. Len(a) + 1
      /\ edit'[Len(a) + 1] = row /\ edit'[e] = edit[e] /\ e \in 1 .. Len(a)
  BY <1>1, <1>2, <1>4
<1>6. Len(a) + 1 \in DOMAIN edit' /\ Len(a) + 1 > e
  BY <1>5
<1>7. row.person # edit[e].person
  BY <1>5, <1>6 DEF Newest
<1>8. owner[edit[e].reg] = edit[e].person
  BY DEF Newest
<1>9. edit[e].reg # r
  BY <1>3, <1>7, <1>8
<1>10. edit[e].reg \in Reg
  <2>1. edit[e] \in EditRow
    BY <1>1
  <2> QED BY <2>1 DEF EditRow
<1>11. club'[edit[e].reg] = club[edit[e].reg]
  BY <1>1, <1>4, <1>9, <1>10
<1> QED
  BY <1>5, <1>11 DEF Shown

\* The site's clubs do not replace one that is to be delivered (protectPendingPacketClubs).
LEMMA RefreshShows ==
    ASSUME IInv, NEW s \in Sync, RefreshClubs(s), NEW e \in PendingEdits, Newest(e), Shown(e)
    PROVE  Shown(e)'
<1>1. PICK own, clubs : own = sync[s].owner /\ clubs = sync[s].club
  OBVIOUS
<1>2. /\ club' = Refreshed({q \in Reg : Bound(own, q) /\ ~Protected(own, q)}, clubs)
      /\ UNCHANGED edit
  BY <1>1, Zenon DEF RefreshClubs
<1>3. PICK r : r = edit[e].reg
  OBVIOUS
<1>4. r \in Reg /\ e \in DOMAIN edit
  <2>1. e \in DOMAIN edit /\ edit \in Seq(EditRow)
    BY DEF PendingEdits, IInv, TypeOK
  <2>2. edit[e] \in EditRow
    BY <2>1
  <2> QED BY <1>3, <2>1, <2>2 DEF EditRow
<1>5. owner[r] = edit[e].person
  BY <1>3 DEF Newest
<1>6. Bound(own, r) => Protected(own, r)
  BY <1>3, <1>5 DEF Bound, Protected
<1>7. club'[r] = club[r]
  BY <1>2, <1>4, <1>6 DEF Refreshed
<1> QED
  BY <1>2, <1>3, <1>7 DEF Shown

\* What an operator enters is shown until the site has answered, whatever arrives meanwhile
\* (protectPendingPacketClubs).
THEOREM EnteredClubStays == Spec => PendingEditKept
<1>1. ASSUME IInv, [Next]_vars, NEW e \in PendingEdits, Newest(e), Shown(e), Newest(e)'
      PROVE  Shown(e)'
  <2>1. e \in DOMAIN edit
    BY DEF PendingEdits
  <2>2. CASE EditsKept /\ UNCHANGED club
    BY <1>1, <2>1, <2>2, ShownStays
  <2>3. ASSUME UNCHANGED <<edit, club>> PROVE Shown(e)'
    BY <1>1, <2>3 DEF Shown
  <2>4. CASE \E r \in Reg, x \in Person : ReplacePerson(r, x)
    BY <2>3, <2>4 DEF ReplacePerson, Draft
  <2>5. CASE \E r, s \in Reg : MovePerson(r, s)
    BY <2>3, <2>5 DEF MovePerson, Draft
  <2>6. CASE \E o \in Op : Receive(o)
    BY <1>1, <2>1, <2>6, ReceiveShows
  <2>7. CASE \E r \in Reg : NativeEditClub(r)
    <3>1. PICK r \in Reg : NativeEditClub(r)
      BY <2>7
    <3>2. owner[r] \in Person
      BY <1>1, <3>1 DEF NativeEditClub, IInv, TypeOK, Maybe
    <3> QED BY <1>1, <2>1, <3>1, <3>2, ClubEditShows DEF NativeEditClub
  <2>8. CASE \E r \in Reg : SiteEditsClub(r)
    BY <2>3, <2>8 DEF SiteEditsClub, deskVars
  <2>9. CASE \E r \in Reg, x \in Person : TabletEditsClub(r, x)
    BY <1>1, <2>1, <2>9, ClubEditShows DEF TabletEditsClub
  <2>10. CASE \E s \in Sync : SyncStep(s)
    <3>1. PICK s \in Sync : SyncStep(s)
      BY <2>10
    <3>2. CASE FlushNothing(s)
      BY <2>3, <3>2 DEF FlushNothing, deskVars
    <3>3. CASE FlushEdit(s)
      BY <1>1, <2>2, <3>3, FlushEditInv DEF FlushEdit, deskVars
    <3>4. CASE AnswerEdit(s)
      BY <1>1, <2>2, <3>4, AnswerEditInv DEF AnswerEdit, deskVars
    <3>5. CASE ListOps(s)
      BY <2>3, <3>5 DEF ListOps, deskVars
    <3>6. CASE MarkOps(s)
      BY <2>3, <3>6 DEF MarkOps, deskVars
    <3>7. CASE RefreshClubs(s)
      BY <1>1, <3>7, RefreshShows
    <3>8. CASE \E answered \in BOOLEAN : SendEdit(s, answered)
      BY <2>3, <3>8 DEF SendEdit, deskVars
    <3>9. CASE \E answered \in BOOLEAN : SendEditFails(s, answered)
      BY <2>3, <3>9 DEF SendEditFails, deskVars
    <3>10. CASE \E answered \in BOOLEAN : FetchClubs(s, answered)
      BY <2>3, <3>10 DEF FetchClubs, deskVars
    <3>11. CASE \E answered \in BOOLEAN, refused \in SUBSET Refusable : PushOps(s, answered, refused)
      BY <2>3, <3>11 DEF PushOps, deskVars
    <3> QED
      BY <3>1, <3>2, <3>3, <3>4, <3>5, <3>6, <3>7, <3>8, <3>9, <3>10, <3>11 DEF SyncStep
  <2>11. CASE \E f \in Edit : DelayPasses(f)
    BY <1>1, <2>2, <2>11, DelayInv DEF DelayPasses, deskVars
  <2>12. CASE UNCHANGED vars
    BY <2>3, <2>12 DEF vars, deskVars
  <2> QED
    BY <1>1, <2>4, <2>5, <2>6, <2>7, <2>8, <2>9, <2>10, <2>11, <2>12 DEF Next
<1>2. IInv /\ [Next]_vars => [\A e \in PendingEdits : Newest(e) /\ Shown(e) /\ Newest(e)' => Shown(e)']_vars
  BY <1>1
<1> QED
  BY <1>2, Invariance, PTL DEF Spec, PendingEditKept
=============================================================================
