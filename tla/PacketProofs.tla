----------------------------- MODULE PacketProofs ------------------------------
(***************************************************************************)
(* Packet issuance for any roster, any number of operations and edits.     *)
(***************************************************************************)
EXTENDS PacketDesk, TLAPS

\* parseCommand: what a command carries
Carries(c) ==
    /\ c.id \in Id /\ (c.type \notin Single => c.target \in Id)
    /\ c.type \in Creating \cup {"change_race"} => c.race \in Race
    /\ c.type = "edit_person" => c.person \in Person

-----------------------------------------------------------------------------
(* Commands (packetissuance/transitions.go).                               *)

\* The image of a registration that does not exist yet.
LEMMA EmptyType == ASSUME NEW x \in Race PROVE Empty(x) \in Registration /\ Empty(x).evidence = FALSE
BY DEF Empty, Registration, Maybe, Status

\* A feed image is a registration.
LEMMA BareType == ASSUME NEW r \in Registration PROVE Bare(r) \in Registration
BY DEF Bare, Registration

\* Evidence does not show in a feed image (packetFeedProjection).
LEMMA BareAgain ==
    ASSUME NEW r \in Registration, NEW b \in BOOLEAN
    PROVE  /\ [r EXCEPT !.evidence = b] \in Registration
           /\ [r EXCEPT !.evidence = b].evidence = b
           /\ Bare([r EXCEPT !.evidence = b]) = Bare(r) /\ Bare(Bare(r)) = Bare(r)
BY DEF Bare, Registration

\* A slot without a person.
LEMMA VacatedType ==
    ASSUME NEW r \in Registration
    PROVE  /\ Vacated(r) \in Registration /\ Vacated(r).bib = r.bib /\ Vacated(r).epc = r.epc
           /\ Vacated(r).person = None
BY DEF Vacated, Registration, Maybe, Status

\* An edited person keeps the identity.
LEMMA EditedType ==
    ASSUME NEW c \in Command, NEW p \in Person, c.person \in Person
    PROVE  Edited(p, c) \in Person /\ Edited(p, c).pid = p.pid
BY DEF Edited, Person

\* A command of one registration leaves a registration (Apply).
LEMMA SingleType ==
    ASSUME NEW c \in Command, Carries(c), c.type \in Single, NEW r \in Registration, AllowsSingle(r, c)
    PROVE  AfterSingle(r, c) \in Registration
<1>1. /\ c.bib \in Maybe(Bib) /\ c.person \in Maybe(Person) /\ c.flag \in BOOLEAN
  BY DEF Command
<1>2. CASE c.type = "create_registration"
  <2>1. AfterSingle(r, c) = [r EXCEPT !.person = c.person, !.bib = c.bib, !.issued = c.flag]
    BY <1>2 DEF AfterSingle
  <2> QED BY <1>1, <2>1 DEF Registration
<1>3. CASE c.type = "assign_number"
  <2>1. AfterSingle(r, c) = [r EXCEPT !.bib = c.bib, !.issued = c.flag]
    BY <1>3 DEF AfterSingle
  <2> QED BY <1>1, <2>1 DEF Registration
<1>4. CASE c.type = "clear_number"
  <2>1. AfterSingle(r, c) = [r EXCEPT !.bib = None, !.epc = None, !.issued = FALSE]
    BY <1>4 DEF AfterSingle
  <2> QED BY <1>1, <2>1 DEF Registration, Maybe
<1>5. CASE c.type = "unassign_number"
  <2>1. AfterSingle(r, c) = [r EXCEPT !.bib = None, !.issued = FALSE]
    BY <1>5 DEF AfterSingle
  <2> QED BY <1>1, <2>1 DEF Registration, Maybe
<1>6. CASE c.type = "issue"
  <2>1. AfterSingle(r, c) = [r EXCEPT !.issued = TRUE]
    BY <1>6 DEF AfterSingle
  <2> QED BY <1>1, <2>1 DEF Registration
<1>7. CASE c.type = "undo_issue"
  <2>1. AfterSingle(r, c) = [r EXCEPT !.issued = FALSE]
    BY <1>7 DEF AfterSingle
  <2> QED BY <1>1, <2>1 DEF Registration
<1>8. CASE c.type = "set_dns"
  <2>1. AfterSingle(r, c) = [r EXCEPT !.status = IF c.flag THEN "dns" ELSE "registered"]
    BY <1>8 DEF AfterSingle
  <2> QED BY <1>1, <2>1 DEF Registration, Status
<1>9. CASE c.type = "release_to_reserve"
  <2>1. AfterSingle(r, c) = [Vacated(r) EXCEPT !.reserve = TRUE]
    BY <1>9 DEF AfterSingle
  <2> QED BY <1>1, <2>1, VacatedType DEF Registration
<1>10. CASE c.type = "edit_person"
  <2>1. AfterSingle(r, c) = [r EXCEPT !.person = Edited(r.person, c)]
    BY <1>10 DEF AfterSingle
  <2>2. r.person \in Person
    BY <1>10 DEF AllowsSingle, Assigned, Registration, Maybe
  <2>3. Edited(r.person, c) \in Maybe(Person)
    BY <1>10, <2>2, EditedType DEF Carries, Maybe
  <2> QED BY <1>1, <2>1, <2>3 DEF Registration
<1>11. CASE c.type = "change_race"
  <2>1. AfterSingle(r, c) = [r EXCEPT !.race = c.race] /\ c.race \in Race
    BY <1>11 DEF AfterSingle, Carries
  <2> QED BY <1>1, <2>1 DEF Registration
<1>12. CASE c.type = "replace_person"
  <2>1. AfterSingle(r, c) = [r EXCEPT !.person = c.person, !.reserve = FALSE, !.issued = c.flag,
                                      !.status = "registered"]
    BY <1>12 DEF AfterSingle
  <2> QED BY <1>1, <2>1 DEF Registration, Status
<1> QED
  BY <1>2, <1>3, <1>4, <1>5, <1>6, <1>7, <1>8, <1>9, <1>10, <1>11, <1>12 DEF Single

\* Two registrations that differ in nothing a timed runner must keep.
SameKept(r, s) ==
    /\ r.race = s.race /\ r.bib = s.bib /\ r.epc = s.epc /\ r.person = s.person
    /\ r.reserve = s.reserve /\ r.status = s.status /\ r.transferredTo = s.transferredTo

\* That is field by field.
LEMMA KeptFields ==
    ASSUME NEW r, NEW s, SameKept(r, s), NEW f \in Kept
    PROVE  r[f] = s[f]
<1>1. f \in {"race", "bib", "epc", "person", "reserve", "status", "transferredTo"}
  BY DEF Kept, Fields
<1>2. CASE f = "race"
  BY <1>2 DEF SameKept
<1>3. CASE f = "bib"
  BY <1>3 DEF SameKept
<1>4. CASE f = "epc"
  BY <1>4 DEF SameKept
<1>5. CASE f = "person"
  BY <1>5 DEF SameKept
<1>6. CASE f = "reserve"
  BY <1>6 DEF SameKept
<1>7. CASE f = "status"
  BY <1>7 DEF SameKept
<1>8. CASE f = "transferredTo"
  BY <1>8 DEF SameKept
<1> QED
  BY <1>1, <1>2, <1>3, <1>4, <1>5, <1>6, <1>7, <1>8

\* A command of one registration with timing evidence hands out a packet or takes it back.
LEMMA SingleTimed ==
    ASSUME NEW c \in Command, c.type \in Single, NEW r \in Registration, AllowsSingle(r, c), r.evidence
    PROVE  SameKept(AfterSingle(r, c), r)
<1>1. c.type \in {"issue", "undo_issue"}
  BY DEF AllowsSingle, Editable, Single
<1>2. CASE c.type = "issue"
  <2>1. AfterSingle(r, c) = [r EXCEPT !.issued = TRUE]
    BY <1>2 DEF AfterSingle
  <2> QED BY <2>1 DEF SameKept, Registration
<1>3. CASE c.type = "undo_issue"
  <2>1. AfterSingle(r, c) = [r EXCEPT !.issued = FALSE]
    BY <1>3 DEF AfterSingle
  <2> QED BY <2>1 DEF SameKept, Registration
<1> QED
  BY <1>1, <1>2, <1>3

\* A command of one registration keeps its number, takes it away or gives it the one it names.
LEMMA SingleBib ==
    ASSUME NEW c \in Command, c.type \in Single, NEW r \in Registration, AllowsSingle(r, c)
    PROVE  \/ AfterSingle(r, c).bib \in {r.bib, None}
           \/ c.type \in Numbering /\ AfterSingle(r, c).bib = c.bib
<1>1. CASE c.type \in Numbering
  <2>1. \/ AfterSingle(r, c) = [r EXCEPT !.person = c.person, !.bib = c.bib, !.issued = c.flag]
        \/ AfterSingle(r, c) = [r EXCEPT !.bib = c.bib, !.issued = c.flag]
    BY <1>1 DEF AfterSingle, Numbering
  <2> QED BY <1>1, <2>1 DEF Registration
<1>2. CASE c.type = "clear_number"
  <2>1. AfterSingle(r, c) = [r EXCEPT !.bib = None, !.epc = None, !.issued = FALSE]
    BY <1>2 DEF AfterSingle
  <2> QED BY <2>1 DEF Registration
<1>3. CASE c.type = "unassign_number"
  <2>1. AfterSingle(r, c) = [r EXCEPT !.bib = None, !.issued = FALSE]
    BY <1>3 DEF AfterSingle
  <2> QED BY <2>1 DEF Registration
<1>4. CASE c.type \in {"issue", "undo_issue"}
  <2>1. PICK b : AfterSingle(r, c) = [r EXCEPT !.issued = b]
    BY <1>4 DEF AfterSingle
  <2> QED BY <2>1 DEF Registration
<1>5. CASE c.type = "set_dns"
  <2>1. AfterSingle(r, c) = [r EXCEPT !.status = IF c.flag THEN "dns" ELSE "registered"]
    BY <1>5 DEF AfterSingle
  <2> QED BY <2>1 DEF Registration
<1>6. CASE c.type = "release_to_reserve"
  <2>1. AfterSingle(r, c) = [Vacated(r) EXCEPT !.reserve = TRUE]
    BY <1>6 DEF AfterSingle
  <2> QED BY <2>1, VacatedType DEF Registration
<1>7. CASE c.type = "edit_person"
  <2>1. AfterSingle(r, c) = [r EXCEPT !.person = Edited(r.person, c)]
    BY <1>7 DEF AfterSingle
  <2> QED BY <2>1 DEF Registration
<1>8. CASE c.type = "change_race"
  <2>1. AfterSingle(r, c) = [r EXCEPT !.race = c.race]
    BY <1>8 DEF AfterSingle
  <2> QED BY <2>1 DEF Registration
<1>9. CASE c.type = "replace_person"
  <2>1. AfterSingle(r, c) = [r EXCEPT !.person = c.person, !.reserve = FALSE, !.issued = c.flag,
                                      !.status = "registered"]
    BY <1>9 DEF AfterSingle
  <2> QED BY <2>1 DEF Registration
<1> QED
  BY <1>1, <1>2, <1>3, <1>4, <1>5, <1>6, <1>7, <1>8, <1>9 DEF Single, Numbering

\* A move, or a return, leaves registrations, and numbers where they are; what it returns
\* comes from its source.
LEMMA PairType ==
    ASSUME NEW c \in Command, Carries(c), c.type \notin Single,
           NEW s \in Registration, NEW t \in Registration, AllowsPair(s, t, c)
    PROVE  /\ AfterSource(s, c) \in Registration /\ AfterTarget(s, t, c) \in Registration
           /\ AfterSource(s, c).bib \in {s.bib, None}
           /\ AfterTarget(s, t, c).bib = IF c.type = "return_to_reserve" THEN c.bib ELSE t.bib
           /\ c.type = "return_to_reserve" => AfterSource(s, c).bib = None
           /\ ~s.evidence /\ ~t.evidence
<1>1. /\ c.bib \in Maybe(Bib) /\ c.target \in Id /\ c.flag \in BOOLEAN /\ c.returnSource \in BOOLEAN
  BY DEF Command, Carries
<1>2. ~s.evidence /\ ~t.evidence
  BY EmptyType DEF AllowsPair, Editable, Available, IsVirtual, Registration
<1>3. CASE c.type = "return_to_reserve"
  <2>1. /\ AfterSource(s, c) = [s EXCEPT !.bib = None, !.epc = None, !.issued = FALSE]
        /\ AfterTarget(s, t, c) = [t EXCEPT !.bib = c.bib, !.epc = s.epc, !.reserve = TRUE]
    BY <1>3 DEF AfterSource, AfterTarget
  <2> QED BY <1>1, <1>2, <1>3, <2>1 DEF Registration, Maybe
<1>4. CASE c.type \in Moving
  <2>1. /\ AfterTarget(s, t, c) = [t EXCEPT !.person = s.person, !.reserve = FALSE, !.issued = c.flag]
        /\ c.type # "return_to_reserve"
    BY <1>4 DEF AfterTarget, Moving
  <2>2. AfterTarget(s, t, c) \in Registration /\ AfterTarget(s, t, c).bib = t.bib
    BY <1>1, <2>1 DEF Registration
  <2>3. CASE c.type = "move_race"
    <3>1. AfterSource(s, c) = [s EXCEPT !.status = "dns", !.transferredTo = c.target]
      BY <2>3 DEF AfterSource
    <3> QED BY <1>1, <1>2, <2>1, <2>2, <3>1 DEF Registration, Maybe, Status
  <2>4. CASE c.type = "move_to_reserve"
    <3>1. AfterSource(s, c) = [Vacated(s) EXCEPT !.reserve = TRUE]
      BY <2>4 DEF AfterSource
    <3> QED BY <1>1, <1>2, <2>1, <2>2, <3>1, VacatedType DEF Registration
  <2>5. CASE c.type = "assign_reserve"
    <3>1. AfterSource(s, c) = [Vacated(s) EXCEPT !.reserve = c.returnSource,
                                  !.bib = IF c.returnSource THEN Vacated(s).bib ELSE None,
                                  !.epc = IF c.returnSource THEN Vacated(s).epc ELSE None]
      BY <2>5 DEF AfterSource
    <3>2. Vacated(s) \in Registration /\ Vacated(s).bib = s.bib /\ Vacated(s).epc = s.epc
      BY VacatedType
    <3> QED BY <1>1, <1>2, <2>1, <2>2, <3>1, <3>2 DEF Registration, Maybe
  <2> QED BY <1>4, <2>3, <2>4, <2>5 DEF Moving
<1> QED
  BY <1>3, <1>4 DEF AllowsPair

\* What a command does to its rows, whichever it is (Apply).
LEMMA EffectRows ==
    ASSUME NEW c \in Command, Carries(c), NEW rows, DOMAIN rows = Rows(c),
           \A i \in Rows(c) : rows[i] \in Registration, Allows(rows, c)
    PROVE  LET new == Effect(rows, c)
           IN  /\ DOMAIN new = Rows(c)
               /\ \A i \in Rows(c) :
                     /\ new[i] \in Registration
                     /\ rows[i].evidence => SameKept(new[i], rows[i])
                     /\ \/ new[i].bib \in {rows[i].bib, None}
                        \/ c.type \in Numbering /\ new[i].bib = c.bib
                        \/ /\ c.type = "return_to_reserve" /\ i = c.target /\ new[i].bib = c.bib
                           /\ c.id # c.target /\ new[c.id].bib = None
<1> DEFINE new == Effect(rows, c)
<1>1. DOMAIN new = Rows(c)
  BY DEF Effect
<1>2. CASE c.type \in Single
  <2>1. Rows(c) = {c.id} /\ AllowsSingle(rows[c.id], c)
    BY <1>2 DEF Rows, Allows
  <2>2. new[c.id] = AfterSingle(rows[c.id], c)
    BY <1>2, <2>1 DEF Effect
  <2>3. rows[c.id] \in Registration
    BY <2>1
  <2>4. /\ new[c.id] \in Registration
        /\ rows[c.id].evidence => SameKept(new[c.id], rows[c.id])
        /\ \/ new[c.id].bib \in {rows[c.id].bib, None}
           \/ c.type \in Numbering /\ new[c.id].bib = c.bib
    <3> HIDE DEF new
    <3> QED BY <1>2, <2>1, <2>2, <2>3, SingleType, SingleTimed, SingleBib
  <2> HIDE DEF new
  <2> QED BY <1>1, <2>1, <2>4 DEF new
<1>3. CASE c.type \notin Single
  <2>1. Rows(c) = {c.id, c.target} /\ AllowsPair(rows[c.id], rows[c.target], c) /\ c.id # c.target
    BY <1>3 DEF Rows, Allows, AllowsPair
  <2>2. new[c.id] = AfterSource(rows[c.id], c) /\ new[c.target] = AfterTarget(rows[c.id], rows[c.target], c)
    BY <1>3, <2>1 DEF Effect
  <2>3. rows[c.id] \in Registration /\ rows[c.target] \in Registration
    BY <2>1
  <2>4. /\ new[c.id] \in Registration /\ new[c.target] \in Registration
        /\ new[c.id].bib \in {rows[c.id].bib, None}
        /\ new[c.target].bib = IF c.type = "return_to_reserve" THEN c.bib ELSE rows[c.target].bib
        /\ c.type = "return_to_reserve" => new[c.id].bib = None
        /\ ~rows[c.id].evidence /\ ~rows[c.target].evidence
    <3> HIDE DEF new
    <3> QED BY <1>3, <2>1, <2>2, <2>3, PairType
  <2> HIDE DEF new
  <2> QED BY <1>1, <2>1, <2>4 DEF new
<1> QED
  BY <1>2, <1>3

\* What a merge puts together from three registrations is a registration (overlayPacketEffect).
LEMMA OverlayType ==
    ASSUME NEW a \in Registration, NEW b \in Registration, NEW r \in Registration
    PROVE  Overlay(a, b, r) \in Registration
<1> DEFINE V(p) == IF At(a, p) = At(b, p) THEN At(r, p) ELSE At(b, p)
           split == "pid" \in Paths({a, b, r})
           person == IF split THEN [pid |-> V("pid"), text |-> V("text"), complete |-> V("complete")]
                     ELSE V("person")
<1>1. /\ V("race") \in {r.race, b.race} /\ V("bib") \in {r.bib, b.bib} /\ V("epc") \in {r.epc, b.epc}
      /\ V("person") \in {r.person, b.person}
  BY DEF At, PersonFields
<1>2. /\ V("reserve") \in {r.reserve, b.reserve} /\ V("issued") \in {r.issued, b.issued}
      /\ V("status") \in {r.status, b.status} /\ V("transferredTo") \in {r.transferredTo, b.transferredTo}
      /\ V("evidence") \in {r.evidence, b.evidence}
  BY DEF At, PersonFields
<1>3. person \in Maybe(Person)
  <2>1. CASE split
    <3>1. a.person \in Person /\ b.person \in Person /\ r.person \in Person
      BY <2>1 DEF Paths, Fields, Registration, Maybe
    <3>2. /\ V("pid") \in {r.person.pid, b.person.pid} /\ V("text") \in {r.person.text, b.person.text}
          /\ V("complete") \in {r.person.complete, b.person.complete}
      BY DEF At, PersonFields
    <3>3. V("pid") \in PersonId /\ V("text") \in Text /\ V("complete") \in BOOLEAN
      <4> HIDE DEF V
      <4> QED BY <3>1, <3>2 DEF Person
    <3> HIDE DEF V
    <3> QED BY <2>1, <3>3 DEF Person, Maybe
  <2>2. CASE ~split
    <3>1. r.person \in Maybe(Person) /\ b.person \in Maybe(Person)
      BY DEF Registration
    <3>2. person = V("person")
      BY <2>2
    <3> HIDE DEF V, person
    <3> QED BY <1>1, <3>1, <3>2
  <2> QED BY <2>1, <2>2
<1>4. Overlay(a, b, r) = [race |-> V("race"), bib |-> V("bib"), epc |-> V("epc"), person |-> person,
                          reserve |-> V("reserve"), issued |-> V("issued"), status |-> V("status"),
                          transferredTo |-> V("transferredTo"), evidence |-> V("evidence")]
  BY Zenon DEF Overlay
<1>5. /\ V("race") \in Race /\ V("bib") \in Maybe(Bib) /\ V("epc") \in Maybe(Chip)
      /\ V("reserve") \in BOOLEAN /\ V("issued") \in BOOLEAN /\ V("status") \in Status
      /\ V("transferredTo") \in Maybe(Id) /\ V("evidence") \in BOOLEAN
  <2> HIDE DEF V
  <2> QED BY <1>1, <1>2 DEF Registration
<1> HIDE DEF V, person
<1> QED
  BY <1>3, <1>4, <1>5 DEF Registration

\* Registrations that differ in their evidence only.
LEMMA BareSame ==
    ASSUME NEW r \in Registration, NEW s \in Registration, Bare(s) = Bare(r)
    PROVE  /\ s.person = r.person
           /\ \A p \in (Fields \cup PersonFields) \ {"evidence"} : At(s, p) = At(r, p)
<1>1. /\ s.race = r.race /\ s.bib = r.bib /\ s.epc = r.epc /\ s.person = r.person
      /\ s.reserve = r.reserve /\ s.issued = r.issued /\ s.status = r.status
      /\ s.transferredTo = r.transferredTo
  BY DEF Bare, Registration
<1>2. ASSUME NEW p \in Fields \ {"evidence"} PROVE s[p] = r[p]
  <2>1. p \in {"race", "bib", "epc", "person", "reserve", "issued", "status", "transferredTo"}
    BY DEF Fields
  <2> QED BY <1>1, <2>1
<1> QED
  BY <1>1, <1>2 DEF At

\* A merge takes each field from the side that changed it (overlayPacketEffect).
LEMMA OverlayAt ==
    ASSUME NEW a \in Registration, NEW b \in Registration, NEW r \in Registration,
           NEW p \in Paths({a, b, r})
    PROVE  At(Overlay(a, b, r), p) = IF At(a, p) = At(b, p) THEN At(r, p) ELSE At(b, p)
<1> DEFINE V(q) == IF At(a, q) = At(b, q) THEN At(r, q) ELSE At(b, q)
           split == "pid" \in Paths({a, b, r})
           person == IF split THEN [pid |-> V("pid"), text |-> V("text"), complete |-> V("complete")]
                     ELSE V("person")
<1>1. PICK m : m = Overlay(a, b, r)
  OBVIOUS
<1>2. m = [race |-> V("race"), bib |-> V("bib"), epc |-> V("epc"), person |-> person,
           reserve |-> V("reserve"), issued |-> V("issued"), status |-> V("status"),
           transferredTo |-> V("transferredTo"), evidence |-> V("evidence")]
  BY <1>1, Zenon DEF Overlay
<1>3. split <=> a.person # None /\ b.person # None /\ r.person # None
  BY DEF Paths, Fields, PersonFields
<1>4. p \in IF split THEN (Fields \ {"person"}) \cup PersonFields ELSE Fields
  BY <1>3 DEF Paths
<1> HIDE DEF V, split
<1>5. CASE p \in PersonFields
  <2>1. split
    BY <1>4, <1>5 DEF Fields, PersonFields
  <2>2. /\ m.person.pid = V("pid") /\ m.person.text = V("text")
        /\ m.person.complete = V("complete")
    BY <1>2, <2>1
  <2>3. m.person[p] = V(p)
    BY <1>5, <2>2 DEF PersonFields
  <2> QED BY <1>1, <1>5, <2>3 DEF At, V
<1>6. CASE p \in Fields \ PersonFields
  <2>1. /\ m.race = V("race") /\ m.bib = V("bib") /\ m.epc = V("epc")
        /\ m.reserve = V("reserve") /\ m.issued = V("issued") /\ m.status = V("status")
        /\ m.transferredTo = V("transferredTo") /\ m.evidence = V("evidence")
        /\ ~split => m.person = V("person")
    BY <1>2
  <2>2. p = "person" => ~split
    BY <1>4 DEF PersonFields
  <2>3. m[p] = V(p)
    BY <1>6, <2>1, <2>2 DEF Fields
  <2> QED BY <1>1, <1>6, <2>3 DEF At, V
<1> QED
  BY <1>4, <1>5, <1>6

\* A merge that is found compatible changes only fields in which the current registration still
\* is what the change was made from: every other field is kept as it is (mergePacketFeedValue).
THEOREM MergeKeepsOwn ==
    ASSUME NEW b \in Registration, NEW a \in Registration, NEW r \in Registration,
           NEW v \in Registration, NEW w \in Registration,
           Compatible(b, a, Bare(r)), Bare(v) = Bare(r), Bare(w) = Bare(Overlay(b, a, r)),
           NEW p \in Paths({v, w, b}) \ {"evidence"}
    PROVE  At(v, p) \in {At(b, p), At(w, p)}
<1>1. PICK m \in Registration : m = Overlay(b, a, r)
  BY OverlayType
<1>2. Bare(r) \in Registration /\ Bare(Bare(r)) = Bare(r)
  BY BareType, BareAgain
<1>3. /\ v.person = r.person /\ w.person = m.person /\ Bare(r).person = r.person
      /\ \A q \in (Fields \cup PersonFields) \ {"evidence"} :
            At(v, q) = At(r, q) /\ At(w, q) = At(m, q) /\ At(Bare(r), q) = At(r, q)
  BY <1>1, <1>2, BareSame
<1>4. Paths({b, a, Bare(r)}) = Paths({b, a, r})
  BY <1>3 DEF Paths
<1>5. p \in Paths({b, a, r}) /\ p \in (Fields \cup PersonFields) \ {"evidence"}
  <2>1. p \in (Fields \cup PersonFields) \ {"evidence"}
    BY DEF Paths
  <2>2. CASE b.person # None /\ a.person # None /\ r.person # None
    <3>1. Paths({b, a, r}) = (Fields \ {"person"}) \cup PersonFields
      BY <2>2 DEF Paths
    <3>2. m.person # None
      <4>1. m.person = [pid |-> m.person.pid, text |-> m.person.text,
                        complete |-> m.person.complete]
        BY <1>1, <3>1 DEF Overlay, PersonFields
      <4>2. /\ b.person \in Person /\ a.person \in Person /\ r.person \in Person
        BY <2>2 DEF Registration, Maybe
      <4>3. /\ At(m, "pid") \in {At(r, "pid"), At(a, "pid")}
            /\ At(m, "text") \in {At(r, "text"), At(a, "text")}
            /\ At(m, "complete") \in {At(r, "complete"), At(a, "complete")}
        BY <1>1, <3>1, OverlayAt DEF PersonFields
      <4>4. /\ m.person.pid \in PersonId /\ m.person.text \in Text
            /\ m.person.complete \in BOOLEAN
        BY <4>2, <4>3 DEF At, PersonFields, Person
      <4>5. m.person \in Person
        BY <4>1, <4>4 DEF Person
      <4> QED BY <4>5, DeskAssumption
    <3>3. Paths({v, w, b}) = (Fields \ {"person"}) \cup PersonFields
      BY <1>3, <2>2, <3>2 DEF Paths
    <3> QED BY <2>1, <3>1, <3>3
  <2>3. CASE ~(b.person # None /\ a.person # None /\ r.person # None)
    <3>1. Paths({b, a, r}) = Fields
      BY <2>3 DEF Paths
    <3>2. At(m, "person") = IF At(b, "person") = At(a, "person") THEN At(r, "person")
                            ELSE At(a, "person")
      BY <1>1, <3>1, OverlayAt DEF Fields
    <3>3. m.person = IF b.person = a.person THEN r.person ELSE a.person
      BY <3>2 DEF At, PersonFields
    <3>4. Paths({v, w, b}) = Fields
      BY <1>3, <2>3, <3>3 DEF Paths
    <3> QED BY <3>1, <3>4
  <2> QED BY <2>2, <2>3
<1>6. At(m, p) = IF At(b, p) = At(a, p) THEN At(r, p) ELSE At(a, p)
  BY <1>1, <1>5, OverlayAt
<1>7. At(b, p) # At(a, p) => At(r, p) \in {At(b, p), At(a, p)}
  BY <1>3, <1>4, <1>5 DEF Compatible
<1> QED
  BY <1>3, <1>5, <1>6, <1>7

-----------------------------------------------------------------------------
(* What tablets make.                                                      *)

\* A correction names a move that was made, and its rows.
Corrects(c) ==
    c.type = "correct_move" =>
        /\ c.ref \in Op /\ op[c.ref] # None /\ op[c.ref].cmd.type \in Moving
        /\ c.id = op[c.ref].cmd.id /\ c.target = op[c.ref].cmd.target

\* A person that a command brings is the operation's own (a fresh id, made on the tablet).
Entering == {"create_registration", "replace_person"}
Enters(c, o) == c.type \in Entering => c.person.pid = o

\* The operations that were made are about one or two registrations.
OpInv ==
    /\ op = [o \in Op |-> op[o]]
    /\ \A o \in Op : op[o] # None =>
          /\ op[o].cmd \in Command /\ op[o].heads \subseteq Action
          /\ DOMAIN op[o].before = DOMAIN op[o].after /\ DOMAIN op[o].before \subseteq Id
          /\ \A i \in DOMAIN op[o].before :
                op[o].before[i] \in Registration /\ op[o].after[i] \in Registration
          /\ op[o].cmd.type # "resolve_conflict" =>
                /\ Carries(op[o].cmd) /\ DOMAIN op[o].before = Rows(op[o].cmd)
                /\ Corrects(op[o].cmd) /\ Enters(op[o].cmd, o)

\* A person entered on a tablet.
LEMMA NewcomerType ==
    ASSUME NEW o \in Op, NEW b \in BOOLEAN
    PROVE  Newcomer(o, b) \in Person /\ Newcomer(o, b).pid = o
<1>1. (CHOOSE t \in Text : TRUE) \in Text
  BY DeskAssumption
<1> QED
  BY <1>1, DeskAssumption DEF Newcomer, Person

\* Every command that a tablet sends carries what its type asks for (parseCommand).
LEMMA RequestType ==
    ASSUME OpInv, NEW o \in Op, NEW c \in Requests(o)
    PROVE  /\ c \in Command /\ Carries(c) /\ Corrects(c) /\ Enters(c, o)
           /\ c.type # "resolve_conflict"
<1> DEFINE S1 == {Blank(t, i) : t \in Commands \cap {"issue", "undo_issue", "clear_number",
                                           "unassign_number", "release_to_reserve"}, i \in Id}
           S2 == {SetDns(i, b) : i \in Id, b \in BOOLEAN}
           S3 == {EditPerson(o, i, t) : i \in Id, t \in Text}
           S4 == {ChangeRace(i, x) : i \in Id, x \in Race}
           S5 == {ReplacePerson(o, i, b) : i \in Id, b \in BOOLEAN}
           S6 == {AssignNumber(i, n, b) : i \in Id, n \in Bib, b \in BOOLEAN}
           S7 == {CreateRegistration(o, i, x, n, b) :
                    i \in Minted, x \in Race, n \in Maybe(Bib), b \in BOOLEAN}
           S8 == {ReturnToReserve(i, j, n, x) : i \in Id, j \in Minted, n \in Bib, x \in Race}
           S9 == {Move(t, i, j, b) : t \in Commands \cap Moving, i \in Id, j \in Id, b \in BOOLEAN}
           S10 == {AssignReturning(i, j) : i \in Id, j \in Id}
           S11 == {CorrectMove(q) : q \in {p \in Op : op[p] # None /\ op[p].cmd.type \in Moving}}
<1>12. \/ c \in S1 \/ c \in S2 \/ c \in S3 \/ c \in S4 \/ c \in S5 \/ c \in S6 \/ c \in S7 \/ c \in S8
       \/ c \in S9 \/ c \in S10 \/ c \in S11
  BY DEF Requests, InUse
<1> HIDE DEF S1, S2, S3, S4, S5, S6, S7, S8, S9, S10, S11
<1> USE DEF Command, Carries, Corrects, Enters, Entering, Types, Single, Moving, Creating, Maybe, Blank
<1>1. CASE c \in S1
  <2>1. PICK t \in {"issue", "undo_issue", "clear_number", "unassign_number", "release_to_reserve"},
             i \in Id : c = Blank(t, i)
    BY <1>1 DEF S1
  <2> QED BY <2>1
<1>2. CASE c \in S2
  <2>1. PICK i \in Id, b \in BOOLEAN : c = SetDns(i, b)
    BY <1>2 DEF S2
  <2> QED BY <2>1 DEF SetDns
<1>3. CASE c \in S3
  <2>1. PICK i \in Id, t \in Text : c = EditPerson(o, i, t)
    BY <1>3 DEF S3
  <2>2. [Newcomer(o, TRUE) EXCEPT !.text = t] \in Person
    BY NewcomerType DEF Person
  <2> QED
    BY <2>1, <2>2 DEF EditPerson
<1>4. CASE c \in S4
  <2>1. PICK i \in Id, x \in Race : c = ChangeRace(i, x)
    BY <1>4 DEF S4
  <2> QED BY <2>1 DEF ChangeRace
<1>5. CASE c \in S5
  <2>1. PICK i \in Id, b \in BOOLEAN : c = ReplacePerson(o, i, b)
    BY <1>5 DEF S5
  <2> QED
    BY <2>1, NewcomerType
       DEF ReplacePerson
<1>6. CASE c \in S6
  <2>1. PICK i \in Id, n \in Bib, b \in BOOLEAN : c = AssignNumber(i, n, b)
    BY <1>6 DEF S6
  <2> QED BY <2>1 DEF AssignNumber
<1>7. CASE c \in S7
  <2>1. PICK i \in Minted, x \in Race, n \in Maybe(Bib), b \in BOOLEAN : c = CreateRegistration(o, i, x, n, b)
    BY <1>7 DEF S7
  <2>2. PICK y \in BOOLEAN : y = (n # None)
    BY Zenon
  <2>3. c = [Blank("create_registration", i) EXCEPT
                    !.race = x, !.bib = n, !.person = Newcomer(o, b), !.flag = y]
    BY <2>1, <2>2, Zenon DEF CreateRegistration
  <2> QED
    BY <2>3, NewcomerType, TransitionsAssumption
<1>8. CASE c \in S8
  <2>1. PICK i \in Id, j \in Minted, n \in Bib, x \in Race : c = ReturnToReserve(i, j, n, x)
    BY <1>8 DEF S8
  <2> QED
    BY <2>1, TransitionsAssumption
       DEF ReturnToReserve
<1>9. CASE c \in S9
  <2>1. PICK t \in Moving, i \in Id, j \in Id, b \in BOOLEAN : c = Move(t, i, j, b)
    BY <1>9 DEF S9
  <2> QED BY <2>1 DEF Move
<1>10. CASE c \in S10
  <2>1. PICK i \in Id, j \in Id : c = AssignReturning(i, j)
    BY <1>10 DEF S10
  <2> QED BY <2>1 DEF AssignReturning
<1>11. CASE c \in S11
  <2>1. PICK q \in Op : op[q] # None /\ op[q].cmd.type \in Moving /\ c = CorrectMove(q)
    BY <1>11 DEF S11
  <2>2. op[q].cmd.id \in Id /\ op[q].cmd.target \in Id
    BY <2>1 DEF OpInv, Carries, Moving, Single
  <2> QED
    BY <2>1, <2>2 DEF CorrectMove
<1> QED
  BY <1>12, <1>1, <1>2, <1>3, <1>4, <1>5, <1>6, <1>7, <1>8, <1>9, <1>10, <1>11, Zenon

-----------------------------------------------------------------------------
(* The inductive invariant.                                                *)

Row == [value : Registration, heads : SUBSET Action, deleted : BOOLEAN]

\* A published change has an image; what is published of a conflict changes nothing.
Image == {ch \in Change : ch.before # None \/ ch.after # None}
Entry == {e \in [id : Action, outcome : Accepted \cup {"conflict"},
                 changes : UNION {[S -> Image] : S \in SUBSET Id}] :
             e.outcome = "conflict" => DOMAIN e.changes = {}}

StateInv ==
    /\ proj \in [Id -> Maybe(Row)]
    /\ outcome \in [Op -> Final \cup {"none", "waiting"}]
    /\ \A o \in Op : outcome[o] # "none" => op[o] # None
    /\ feed \in Seq(Entry)
    /\ floor \in 0 .. Len(feed)
    /\ passed \subseteq Timed
    /\ resolved \in [Op -> Maybe(Op)]
    /\ shown = None \/ shown.op \in Op

\* What has been published is decided: it is not received again.
FeedInv ==
    \A n \in 1 .. Len(feed) :
        feed[n].id \in Op => outcome[feed[n].id] \notin {"none", "waiting"}

IInv == OpInv /\ StateInv /\ FeedInv /\ FeedReplaysRoster

\* What the Desk reads of a registration is the stored one, but for the evidence.
LEMMA CurrentType ==
    ASSUME StateInv, NEW i \in Id, Found(i)
    PROVE  /\ Current(i) \in Registration /\ proj[i].value \in Registration /\ proj[i].heads \subseteq Action
           /\ Bare(Current(i)) = Bare(proj[i].value) /\ Current(i).evidence = Evidence(proj[i].value)
           /\ SameKept(Current(i), proj[i].value) /\ Current(i).issued = proj[i].value.issued
<1>1. proj[i] \in Row
  BY DEF StateInv, Found, Maybe
<1>2. proj[i].value \in Registration /\ proj[i].heads \subseteq Action
  BY <1>1 DEF Row
<1>3. PICK b \in BOOLEAN : b = Evidence(proj[i].value)
  <2>1. Evidence(proj[i].value) \in BOOLEAN
    BY <1>2, Zenon DEF Evidence, Registration
  <2> QED BY <2>1
<1>4. Current(i) = [proj[i].value EXCEPT !.evidence = b]
  BY <1>3, Zenon DEF Current
<1> QED
  BY <1>2, <1>3, <1>4, BareAgain DEF SameKept, Registration

\* What the Desk does when it applies an operation: every row is live and as the Desk has it now,
\* or does not exist and is created (receiveOne, receiveNumber, receiveReserveReturn).
LEMMA AppliedRows ==
    ASSUME OpInv, StateInv, NEW o \in Op, Sendable(o), Decision(o) = "applied"
    PROVE  LET rows == Merged(o)
               c == op[o].cmd
           IN  /\ c \in Command /\ Carries(c) /\ DOMAIN rows = Rows(c) /\ Rows(c) \subseteq Id
               /\ \A i \in Rows(c) :
                     /\ rows[i] \in Registration
                     /\ \/ Live(i) /\ rows[i] = Current(i)
                        \/ ~Found(i) /\ rows[i] = Empty(rows[i].race) /\ c.type \in Creating
               /\ ~Taken(c) /\ ~Disputed(c) /\ Derivable(o, rows)
<1> DEFINE rows == Merged(o)
           c == op[o].cmd
<1>1. /\ op[o] # None /\ c.type # "resolve_conflict" /\ c \in Command /\ Carries(c)
      /\ DOMAIN op[o].before = Rows(c) /\ Rows(c) \subseteq Id
      /\ \A i \in Rows(c) : op[o].before[i] \in Registration
  BY DEF OpInv, Sendable
<1>2. ~Taken(c) /\ ~Unknown(o) /\ ~Disputed(c) /\ MergeDecision(o, rows) = "applied"
  BY DEF Decision
<1>3. Derivable(o, rows)
  BY <1>2 DEF MergeDecision
<1>4. DOMAIN rows = Rows(c)
  BY <1>1 DEF Merged
<1>5. ASSUME NEW i \in Rows(c)
      PROVE  /\ rows[i] \in Registration
             /\ \/ Live(i) /\ rows[i] = Current(i)
                \/ ~Found(i) /\ rows[i] = Empty(rows[i].race) /\ c.type \in Creating
  <2>1. CASE c.type \in Creating /\ ~Found(i)
    <3>1. rows[i] = Empty(op[o].before[i].race) /\ op[o].before[i].race \in Race
      BY <1>1, <2>1 DEF Merged, Registration
    <3>2. rows[i] = Empty(rows[i].race)
      BY <3>1 DEF Empty
    <3> QED BY <2>1, <3>1, <3>2, EmptyType
  <2>2. CASE ~(c.type \in Creating /\ ~Found(i))
    <3>1. rows[i] = Current(i)
      BY <1>1, <2>2 DEF Merged
    <3>2. Live(i)
      <4>1. CASE i \in Created(c)
        <5>1. c.type \in Creating /\ ~Found(i)
          BY <1>2, <4>1 DEF Created, Taken, Disputed, Creating
        <5> QED BY <2>2, <5>1
      <4>2. CASE i \notin Created(c)
        BY <1>1, <1>2, <4>2 DEF Unknown
      <4> QED BY <4>1, <4>2
    <3> QED BY <1>1, <3>1, <3>2, CurrentType DEF Live
  <2> QED BY <2>1, <2>2
<1> HIDE DEF rows, c
<1>6. /\ c \in Command /\ Carries(c) /\ DOMAIN rows = Rows(c) /\ Rows(c) \subseteq Id
      /\ \A i \in Rows(c) :
             /\ rows[i] \in Registration
             /\ \/ Live(i) /\ rows[i] = Current(i)
                \/ ~Found(i) /\ rows[i] = Empty(rows[i].race) /\ c.type \in Creating
      /\ ~Taken(c) /\ ~Disputed(c) /\ Derivable(o, rows)
  BY <1>1, <1>2, <1>3, <1>4, <1>5
<1> QED
  BY <1>6, Zenon DEF rows, c

\* A correction puts back what the move it names was made on.
LEMMA CorrectedRows ==
    ASSUME OpInv, NEW c \in Command, Carries(c), Corrects(c), c.type = "correct_move"
    PROVE  LET new == op[c.ref].before
           IN  DOMAIN new = Rows(c) /\ \A i \in Rows(c) : new[i] \in Registration
<1>1. /\ c.ref \in Op /\ op[c.ref] # None /\ op[c.ref].cmd.type \in Moving
      /\ c.id = op[c.ref].cmd.id /\ c.target = op[c.ref].cmd.target
  BY DEF Corrects
<1>2. /\ DOMAIN op[c.ref].before = Rows(op[c.ref].cmd)
      /\ \A i \in DOMAIN op[c.ref].before : op[c.ref].before[i] \in Registration
  BY <1>1 DEF OpInv, Moving
<1>3. Rows(op[c.ref].cmd) = Rows(c)
  BY <1>1 DEF Rows, Moving, Single
<1> QED
  BY <1>2, <1>3

\* What an operation that is applied leaves (packetMergeDecision): registrations; a row with
\* evidence keeps its runner; a number is new in a row only if the command names it.
LEMMA DerivedRows ==
    ASSUME OpInv, NEW o \in Op, Sendable(o), NEW rows, DOMAIN rows = Rows(op[o].cmd),
           \A i \in DOMAIN rows : rows[i] \in Registration, Derivable(o, rows)
    PROVE  LET new == Derived(o, rows)
               c == op[o].cmd
           IN  /\ DOMAIN new = DOMAIN rows
               /\ \A i \in DOMAIN rows :
                     /\ new[i] \in Registration
                     /\ rows[i].evidence => SameKept(new[i], rows[i])
                     /\ \/ new[i].bib \in {rows[i].bib, None}
                        \/ c.type \in Numbering /\ new[i].bib = c.bib
                        \/ /\ c.type = "return_to_reserve" /\ i = c.target /\ new[i].bib = c.bib
                           /\ c.id # c.target /\ new[c.id].bib = None
<1> DEFINE new == Derived(o, rows)
           c == op[o].cmd
<1>1. c \in Command /\ Carries(c) /\ Corrects(c)
  BY DEF OpInv, Sendable
<1>2. CASE c.type = "correct_move"
  <2>1. new = op[c.ref].before /\ Reversible(rows, op[c.ref])
    BY <1>2 DEF Derived, Derivable
  <2>2. DOMAIN new = Rows(c) /\ \A i \in Rows(c) : new[i] \in Registration
    BY <1>1, <1>2, <2>1, CorrectedRows
  <2>3. c.ref \in Op /\ op[c.ref] # None
    BY <1>1, <1>2 DEF Corrects
  <2>4. DOMAIN op[c.ref].after = Rows(c)
    BY <2>1, <2>2, <2>3 DEF OpInv
  <2>5. \A i \in Rows(c) : ~rows[i].evidence /\ \A f \in {"race", "bib", "epc"} : rows[i][f] = new[i][f]
    <3>1. \A i \in DOMAIN op[c.ref].after :
             /\ ~rows[i].evidence
             /\ \A f \in {"race", "bib", "epc"} : rows[i][f] = op[c.ref].before[i][f]
      BY <2>1, Zenon DEF Reversible
    <3> QED BY <2>1, <2>4, <3>1, Zenon
  <2>6. \A i \in Rows(c) : new[i].bib = rows[i].bib
    BY <2>5
  <2> QED BY <2>2, <2>5, <2>6
<1>3. CASE c.type # "correct_move"
  <2>1. new = Effect(rows, c) /\ Allows(rows, c)
    BY <1>3 DEF Derived, Derivable
  <2> QED BY <1>1, <2>1, EffectRows
<1> QED
  BY <1>2, <1>3

-----------------------------------------------------------------------------
(* Following a feed.                                                       *)

\* An appended action is the last one.
LEMMA Appended ==
    ASSUME NEW S, NEW f \in Seq(S), NEW e \in S
    PROVE  /\ Append(f, e) \in Seq(S) /\ Len(f) \in Nat /\ Len(Append(f, e)) = Len(f) + 1
           /\ Append(f, e)[Len(f) + 1] = e
           /\ \A n \in 1 .. Len(f) : Append(f, e)[n] = f[n]
OBVIOUS

\* The last action of a feed that is about a registration, and the image it leaves.
LastIn(f, i) ==
    {n \in 1 .. Len(f) :
        /\ i \in DOMAIN f[n].changes
        /\ \A m \in n + 1 .. Len(f) : i \notin DOMAIN f[m].changes}
Told(f, i) ==
    IF LastIn(f, i) = {} THEN InitRoster[i]
    ELSE CHOOSE v \in {f[n].changes[i].after : n \in LastIn(f, i)} : TRUE

\* One more action: a tablet takes its images, and nothing else changes.
LEMMA ToldNext ==
    ASSUME NEW f \in Seq(Entry), NEW e \in Entry, NEW i
    PROVE  Told(Append(f, e), i) = IF i \in DOMAIN e.changes THEN e.changes[i].after ELSE Told(f, i)
<1> DEFINE g == Append(f, e)
<1>1. /\ Len(f) \in Nat /\ Len(g) = Len(f) + 1 /\ g[Len(f) + 1] = e
      /\ \A n \in 1 .. Len(f) : g[n] = f[n]
  BY Appended
<1> HIDE DEF g
<1>2. CASE i \in DOMAIN e.changes
  <2>1. LastIn(g, i) = {Len(f) + 1}
    <3>1. Len(f) + 1 \in LastIn(g, i)
      BY <1>1, <1>2 DEF LastIn
    <3>2. ASSUME NEW n \in LastIn(g, i) PROVE n = Len(f) + 1
      <4>1. n \in 1 .. Len(f) + 1 /\ \A m \in n + 1 .. Len(f) + 1 : i \notin DOMAIN g[m].changes
        BY <1>1 DEF LastIn
      <4> QED BY <1>1, <1>2, <4>1
    <3> QED BY <3>1, <3>2
  <2>2. {g[n].changes[i].after : n \in LastIn(g, i)} = {e.changes[i].after}
    BY <1>1, <2>1
  <2> QED BY <1>2, <2>1, <2>2 DEF Told, g
<1>3. CASE i \notin DOMAIN e.changes
  <2>1. ASSUME NEW n PROVE n \in LastIn(g, i) <=> n \in LastIn(f, i)
    <3>1. ASSUME n \in LastIn(g, i) PROVE n \in LastIn(f, i)
      <4>1. /\ n \in 1 .. Len(f) + 1 /\ i \in DOMAIN g[n].changes
            /\ \A m \in n + 1 .. Len(f) + 1 : i \notin DOMAIN g[m].changes
        BY <1>1, <3>1 DEF LastIn
      <4>2. n \in 1 .. Len(f)
        BY <1>1, <1>3, <4>1
      <4>3. \A m \in n + 1 .. Len(f) : m \in 1 .. Len(f) /\ m \in n + 1 .. Len(f) + 1
        BY <1>1, <4>2
      <4> QED BY <1>1, <4>1, <4>2, <4>3 DEF LastIn
    <3>2. ASSUME n \in LastIn(f, i) PROVE n \in LastIn(g, i)
      <4>1. /\ n \in 1 .. Len(f) /\ i \in DOMAIN f[n].changes
            /\ \A m \in n + 1 .. Len(f) : i \notin DOMAIN f[m].changes
        BY <3>2 DEF LastIn
      <4>2. \A m \in n + 1 .. Len(f) + 1 : m = Len(f) + 1 \/ (m \in n + 1 .. Len(f) /\ m \in 1 .. Len(f))
        BY <1>1, <4>1
      <4>3. \A m \in n + 1 .. Len(f) + 1 : i \notin DOMAIN g[m].changes
        BY <1>1, <1>3, <4>1, <4>2
      <4> QED BY <1>1, <4>1, <4>3 DEF LastIn
    <3> QED BY <3>1, <3>2
  <2>2. LastIn(g, i) = LastIn(f, i)
    BY <2>1
  <2>3. \A n \in LastIn(f, i) : g[n] = f[n]
    BY <1>1 DEF LastIn
  <2>4. {g[n].changes[i].after : n \in LastIn(g, i)} = {f[n].changes[i].after : n \in LastIn(f, i)}
    BY <2>2, <2>3
  <2> QED BY <1>3, <2>2, <2>4 DEF Told, g
<1> QED
  BY <1>2, <1>3

\* A tablet follows the Desk's feed.
LEMMA FollowedTold ==
    ASSUME NEW i
    PROVE  Followed(i) = Told(feed, i) /\ Followed(i)' = Told(feed', i)
BY Zenon DEF Followed, Told, LastChange, LastIn

\* An empty minted registration and an absent one look alike, and evidence does not show.
LEMMA SeenBare ==
    ASSUME NEW i, NEW r \in Registration
    PROVE  /\ Seen(i, Bare(r)) = Seen(i, r)
           /\ IsVirtual(i, r) => Seen(i, r) = None
           /\ Seen(i, None) = None
<1>1. Bare(r) \in Registration /\ Bare(Bare(r)) = Bare(r)
  BY BareType, BareAgain
<1>2. None \notin Registration
  BY DeskAssumption
<1>3. IsVirtual(i, r) => IsVirtual(i, Bare(r))
  <2>1. ASSUME IsVirtual(i, r) PROVE Bare(r) = r
    BY <2>1 DEF IsVirtual, Empty, Bare, Registration
  <2> QED BY <2>1
<1> QED
  BY <1>1, <1>2, <1>3 DEF Seen

\* An image without evidence stands for an absent registration when the registration does.
LEMMA VirtualBare ==
    ASSUME NEW i, NEW r \in Registration, IsVirtual(i, r)
    PROVE  IsVirtual(i, Bare(r))
<1>1. Bare(r) = r
  BY DEF IsVirtual, Empty, Bare, Registration
<1> QED
  BY <1>1

\* An action of the feed.
LEMMA EntryType ==
    ASSUME NEW a \in Action, NEW out \in Accepted \cup {"conflict"},
           NEW D \in SUBSET Id, NEW ch \in [D -> Image], out = "conflict" => D = {}
    PROVE  [id |-> a, outcome |-> out, changes |-> ch] \in Entry
<1>1. ch \in UNION {[S -> Image] : S \in SUBSET Id} /\ DOMAIN ch = D
  OBVIOUS
<1> QED
  BY <1>1 DEF Entry

\* The images of an action of the feed.
LEMMA EntryImages ==
    ASSUME NEW e \in Entry
    PROVE  /\ e.id \in Action /\ e.outcome \in Accepted \cup {"conflict"}
           /\ e.outcome = "conflict" => DOMAIN e.changes = {}
           /\ DOMAIN e.changes \subseteq Id
           /\ \A i \in DOMAIN e.changes :
                 /\ e.changes[i] \in Change
                 /\ e.changes[i].before \in Maybe(Registration)
                 /\ e.changes[i].after \in Maybe(Registration)
                 /\ e.changes[i].before # None \/ e.changes[i].after # None
<1>1. /\ e.id \in Action /\ e.outcome \in Accepted \cup {"conflict"}
      /\ e.changes \in UNION {[S -> Image] : S \in SUBSET Id}
      /\ e.outcome = "conflict" => DOMAIN e.changes = {}
  BY DEF Entry
<1>2. PICK S \in SUBSET Id : e.changes \in [S -> Image]
  BY <1>1
<1>3. DOMAIN e.changes = S /\ \A i \in S : e.changes[i] \in Image
  BY <1>2
<1> QED
  BY <1>1, <1>3 DEF Image, Change

\* The action that a step publishes tells what the step does to the roster.
Announced(e) ==
    /\ feed' = Append(feed, e)
    /\ \A i \in Id :
          IF i \notin DOMAIN e.changes THEN proj'[i] = proj[i]
          ELSE IF e.changes[i].after # None
          THEN Live(i)' /\ Bare(proj'[i].value) = e.changes[i].after
          ELSE Live(i)' => IsVirtual(i, Bare(proj'[i].value))

\* The roster and the feed change together.
LEMMA ReplayStep ==
    ASSUME StateInv, StateInv', NEW e \in Entry, Announced(e), FeedReplaysRoster
    PROVE  FeedReplaysRoster'
<1> SUFFICES ASSUME NEW i \in Id
             PROVE  Seen(i, Followed(i)') = Seen(i, IF Live(i)' THEN proj'[i].value ELSE None)
  BY Zenon DEF FeedReplaysRoster, Seen
<1>1. Followed(i)' = IF i \in DOMAIN e.changes THEN e.changes[i].after ELSE Followed(i)
  BY FollowedTold, ToldNext DEF Announced, StateInv
<1>2. ASSUME Live(i)' PROVE proj'[i].value \in Registration
  BY <1>2 DEF StateInv, Live, Found, Maybe, Row
<1>3. CASE i \in DOMAIN e.changes /\ e.changes[i].after # None
  <2>1. Live(i)' /\ e.changes[i].after = Bare(proj'[i].value)
    BY <1>3 DEF Announced
  <2> QED BY <1>1, <1>2, <1>3, <2>1, SeenBare
<1>4. CASE i \in DOMAIN e.changes /\ e.changes[i].after = None
  <2>1. Live(i)' => IsVirtual(i, Bare(proj'[i].value))
    BY <1>4 DEF Announced
  <2>2. Seen(i, IF Live(i)' THEN proj'[i].value ELSE None) = None
    BY <2>1 DEF Seen
  <2> QED BY <1>1, <1>4, <2>2 DEF Seen
<1>5. CASE i \notin DOMAIN e.changes
  <2>1. proj'[i] = proj[i] /\ Followed(i)' = Followed(i)
    BY <1>1, <1>5 DEF Announced
  <2>2. Live(i)' <=> Live(i)
    BY <2>1 DEF Live, Found
  <2> QED BY <2>1, <2>2 DEF FeedReplaysRoster
<1> QED
  BY <1>3, <1>4, <1>5

\* Neither does.
LEMMA ReplaySame ==
    ASSUME FeedReplaysRoster, proj' = proj, feed' = feed
    PROVE  FeedReplaysRoster'
<1>1. ASSUME NEW i \in Id PROVE Followed(i)' = Followed(i) /\ (Live(i)' <=> Live(i))
  BY FollowedTold DEF Live, Found
<1> QED
  BY <1>1 DEF FeedReplaysRoster, Seen

\* What is stored is a registration that the Desk has.
LEMMA StoredRow ==
    ASSUME NEW r \in Registration, NEW heads \in SUBSET Action
    PROVE  /\ Stored(r, heads) \in Row /\ Stored(r, heads) # None
           /\ Stored(r, heads).value = r /\ Stored(r, heads).heads = heads
           /\ Stored(r, heads).deleted = FALSE
<1>1. Stored(r, heads) \in Row
  BY DEF Stored, Row
<1>2. None \notin Row
  BY DeskAssumption DEF Row, Action
<1> QED
  BY <1>1, <1>2 DEF Stored

-----------------------------------------------------------------------------
(* The steps.                                                              *)

\* Operations that were made stay as they are.
LEMMA OpsSame == ASSUME OpInv, op' = op PROVE OpInv'
BY DEF OpInv, Corrects

\* The decisions a receipt may come to.
LEMMA DecisionType == ASSUME NEW o PROVE Decision(o) \in Final \cup {"waiting"}
BY DEF Decision, MergeDecision, Final, Accepted

\* What receiving an operation applies (receiveOne): the rows as they were, and what they are then.
ReceivedRows(o, rows, after) ==
    /\ rows = Merged(o) /\ after = Derived(o, rows)
    /\ DOMAIN after = DOMAIN rows /\ DOMAIN rows = Rows(op[o].cmd) /\ DOMAIN rows \subseteq Id
    /\ \A i \in DOMAIN rows :
          /\ rows[i] \in Registration /\ after[i] \in Registration
          /\ proj'[i] = Stored(after[i], {o})
    /\ \A i \in Id \ DOMAIN rows : proj'[i] = proj[i]
    /\ proj' = [i \in Id |-> proj'[i]]

ReceivedAs(o, rows, after) ==
    /\ ReceivedRows(o, rows, after)
    /\ feed' = Append(feed, [id |-> o, outcome |-> "applied",
                             changes |-> Changes(op[o].cmd, rows, after)])

\* An operation that is applied writes its rows (receiveOne).
LEMMA AppliedWrites ==
    ASSUME OpInv, StateInv, NEW o \in Op, Receive(o), Decision(o) = "applied"
    PROVE  \E rows, after :
              /\ ReceivedRows(o, rows, after)
              /\ feed' = Published(o, "applied", Changes(op[o].cmd, rows, after))
<1>1. PICK rows : rows = Merged(o)
  OBVIOUS
<1>2. PICK after : after = Derived(o, rows)
  OBVIOUS
<1>3. Sendable(o)
  BY DEF Receive
<1>4. /\ DOMAIN rows = Rows(op[o].cmd) /\ DOMAIN rows \subseteq Id
      /\ \A i \in DOMAIN rows : rows[i] \in Registration
      /\ Derivable(o, rows)
  BY <1>1, <1>3, AppliedRows
<1>5. DOMAIN after = DOMAIN rows /\ \A i \in DOMAIN rows : after[i] \in Registration
  BY <1>2, <1>3, <1>4, DerivedRows
<1>6. proj' = [i \in Id |-> IF i \in DOMAIN rows THEN Stored(after[i], {o}) ELSE proj[i]]
  BY <1>1, <1>2, Zenon DEF Receive
<1>7. feed' = Published(o, "applied", Changes(op[o].cmd, rows, after))
  BY <1>1, <1>2, Zenon DEF Receive
<1>8. /\ \A i \in DOMAIN rows : proj'[i] = Stored(after[i], {o})
      /\ \A i \in Id \ DOMAIN rows : proj'[i] = proj[i]
      /\ proj' = [i \in Id |-> proj'[i]]
  BY <1>4, <1>6
<1> QED
  BY <1>1, <1>2, <1>4, <1>5, <1>7, <1>8 DEF ReceivedRows

\* It also publishes them.
LEMMA ReceiveApplied ==
    ASSUME OpInv, StateInv, FeedInv, NEW o \in Op, Receive(o), Decision(o) = "applied"
    PROVE  \E rows, after : ReceivedAs(o, rows, after)
<1>1. PICK rows, after : /\ ReceivedRows(o, rows, after)
                         /\ feed' = Published(o, "applied", Changes(op[o].cmd, rows, after))
  BY AppliedWrites
<1>2. ~ \E n \in 1 .. Len(feed) : feed[n].id = o
  BY DEF FeedInv, Receive
<1> QED
  BY <1>1, <1>2 DEF ReceivedAs, Published

\* The images it publishes are those of the rows it leaves.
LEMMA ChangesType ==
    ASSUME NEW o, NEW rows, NEW after, ReceivedRows(o, rows, after)
    PROVE  /\ Changes(op[o].cmd, rows, after) \in [DOMAIN rows -> Image]
           /\ \A i \in DOMAIN rows : Changes(op[o].cmd, rows, after)[i].after = Bare(after[i])
<1>1. PICK ch : ch = Changes(op[o].cmd, rows, after)
  OBVIOUS
<1>2. DOMAIN ch = DOMAIN rows /\ ch = [i \in DOMAIN rows |-> ch[i]]
  BY <1>1 DEF Changes
<1>3. ASSUME NEW i \in DOMAIN rows
      PROVE  ch[i] \in Image /\ ch[i].after = Bare(after[i])
  <2>1. ch[i] = [before |-> IF op[o].cmd.type \in Creating /\ IsVirtual(i, rows[i])
                            THEN None ELSE Bare(rows[i]), after |-> Bare(after[i])]
    BY <1>1 DEF Changes
  <2>2. Bare(rows[i]) \in Registration /\ Bare(after[i]) \in Registration
    BY BareType DEF ReceivedRows
  <2>3. Bare(after[i]) # None
    BY <2>2, DeskAssumption
  <2> QED BY <2>1, <2>2, <2>3 DEF Image, Change, Maybe
<1> QED
  BY <1>1, <1>2, <1>3

\* Receiving keeps the types of the tables, whatever the Desk has published before.
LEMMA ReceiveCore ==
    ASSUME OpInv, StateInv, NEW o \in Op, Receive(o)
    PROVE  OpInv' /\ StateInv'
<1>1. /\ Sendable(o) /\ outcome[o] \in {"none", "waiting"}
      /\ outcome' = [outcome EXCEPT ![o] = Decision(o)]
      /\ op' = op /\ floor' = floor /\ passed' = passed /\ resolved' = resolved /\ shown' = shown
  BY DEF Receive
<1>2. OpInv'
  BY <1>1, OpsSame
<1>3. o \in Action /\ {o} \in SUBSET Action /\ Decision(o) \in Final \cup {"waiting"} /\ op[o] # None
  BY <1>1, DecisionType DEF Action, Sendable
<1>4. /\ outcome' \in [Op -> Final \cup {"none", "waiting"}]
      /\ \A q \in Op : outcome'[q] # "none" => op'[q] # None
      /\ passed' \subseteq Timed /\ resolved' \in [Op -> Maybe(Op)]
      /\ shown' = None \/ shown'.op \in Op
  BY <1>1, <1>3 DEF StateInv
<1>5. ASSUME NEW out \in Final \cup {"waiting"}, NEW D \in SUBSET Id, NEW ch \in [D -> Image],
             out # "applied" => D = {}, feed' = Published(o, out, ch)
      PROVE  feed' \in Seq(Entry) /\ floor' \in 0 .. Len(feed')
  <2>1. CASE feed' = feed
    BY <1>1, <2>1 DEF StateInv
  <2>2. CASE feed' # feed
    <3>1. PICK e : e = [id |-> o, outcome |-> out, changes |-> ch]
      OBVIOUS
    <3>2. feed' = Append(feed, e) /\ out \notin {"waiting", "rejected"}
      BY <1>5, <2>2, <3>1 DEF Published
    <3>3. out \in Accepted \cup {"conflict"} /\ (out = "conflict" => D = {})
      BY <1>5, <3>2 DEF Final
    <3>4. e \in Entry
      BY <1>3, <3>1, <3>3, EntryType
    <3>5. feed' \in Seq(Entry) /\ Len(feed) \in Nat /\ Len(feed') = Len(feed) + 1
      BY <3>2, <3>4, Appended DEF StateInv
    <3> QED BY <1>1, <3>5 DEF StateInv
  <2> QED BY <2>1, <2>2
<1>6. CASE Decision(o) = "applied"
  <2>1. PICK rows, after : /\ ReceivedRows(o, rows, after)
                           /\ feed' = Published(o, "applied", Changes(op[o].cmd, rows, after))
    BY <1>6, AppliedWrites
  <2>2. DOMAIN rows \in SUBSET Id /\ Changes(op[o].cmd, rows, after) \in [DOMAIN rows -> Image]
    BY <2>1, ChangesType DEF ReceivedRows
  <2>3. feed' \in Seq(Entry) /\ floor' \in 0 .. Len(feed')
    BY <1>5, <2>1, <2>2 DEF Final, Accepted
  <2>4. ASSUME NEW i \in Id PROVE proj'[i] \in Maybe(Row)
    <3>1. CASE i \in DOMAIN rows
      <4>1. proj'[i] = Stored(after[i], {o}) /\ after[i] \in Registration
        BY <2>1, <3>1 DEF ReceivedRows
      <4> QED BY <1>3, <4>1, StoredRow DEF Maybe
    <3>2. CASE i \notin DOMAIN rows
      BY <2>1, <3>2 DEF StateInv, ReceivedRows
    <3> QED BY <3>1, <3>2
  <2>5. proj' \in [Id -> Maybe(Row)]
    BY <2>1, <2>4 DEF ReceivedRows
  <2> QED BY <1>2, <1>4, <2>3, <2>5 DEF StateInv
<1>7. CASE Decision(o) # "applied"
  <2>1. proj' = proj
    BY <1>7, Zenon DEF Receive
  <2>2. feed' = Published(o, Decision(o), NoChanges)
    BY <1>7, Zenon DEF Receive
  <2>3. NoChanges \in [{} -> Image]
    BY DEF NoChanges
  <2>4. feed' \in Seq(Entry) /\ floor' \in 0 .. Len(feed')
    BY <1>3, <1>5, <1>7, <2>2, <2>3
  <2> QED BY <1>2, <1>4, <2>1, <2>4 DEF StateInv
<1> QED
  BY <1>6, <1>7

\* The feed grows by an action of something that is decided.
LEMMA FeedGrows ==
    ASSUME StateInv, FeedInv, NEW e \in Entry, feed' = Append(feed, e),
           \A q \in Op : outcome[q] \notin {"none", "waiting"} => outcome'[q] \notin {"none", "waiting"},
           e.id \in Op => outcome'[e.id] \notin {"none", "waiting"}
    PROVE  FeedInv'
<1>1. /\ feed' \in Seq(Entry) /\ Len(feed) \in Nat /\ Len(feed') = Len(feed) + 1
      /\ feed'[Len(feed) + 1] = e
      /\ \A n \in 1 .. Len(feed) : feed'[n] = feed[n]
  BY Appended DEF StateInv
<1>2. \A n \in 1 .. Len(feed') : n \in 1 .. Len(feed) \/ n = Len(feed) + 1
  BY <1>1
<1> QED
  BY <1>1, <1>2 DEF FeedInv

\* Receiving an operation (receiveOne, receiveNumber, receiveReserveReturn).
LEMMA ReceiveStep ==
    ASSUME OpInv, StateInv, FeedInv, NEW o \in Op, Receive(o)
    PROVE  /\ OpInv' /\ StateInv' /\ FeedInv'
           /\ (proj' = proj /\ feed' = feed) \/ \E e \in Entry : Announced(e)
<1>1. /\ Sendable(o) /\ outcome[o] \in {"none", "waiting"}
      /\ outcome' = [outcome EXCEPT ![o] = Decision(o)]
  BY DEF Receive
<1>2. o \in Action /\ {o} \in SUBSET Action /\ Decision(o) \in Final \cup {"waiting"}
  BY DecisionType DEF Action
<1>3. OpInv' /\ StateInv'
  BY ReceiveCore
<1>4. ASSUME Decision(o) # "waiting", NEW e \in Entry, e.id = o, feed' = Append(feed, e)
      PROVE  FeedInv'
  <2>1. outcome'[o] \notin {"none", "waiting"}
    BY <1>1, <1>2, <1>4 DEF StateInv, Final, Accepted
  <2>2. \A q \in Op : outcome[q] \notin {"none", "waiting"} => outcome'[q] \notin {"none", "waiting"}
    BY <1>1, <2>1 DEF StateInv
  <2> QED BY <1>4, <2>1, <2>2, FeedGrows
<1>5. CASE Decision(o) = "applied"
  <2>1. PICK rows, after : ReceivedAs(o, rows, after)
    BY <1>5, ReceiveApplied
  <2>2. ReceivedRows(o, rows, after) /\ DOMAIN rows \in SUBSET Id
    BY <2>1 DEF ReceivedAs, ReceivedRows
  <2>3. PICK ch : ch = Changes(op[o].cmd, rows, after)
    OBVIOUS
  <2>4. ch \in [DOMAIN rows -> Image] /\ \A i \in DOMAIN rows : ch[i].after = Bare(after[i])
    BY <2>2, <2>3, ChangesType
  <2>5. PICK e : e = [id |-> o, outcome |-> "applied", changes |-> ch]
    OBVIOUS
  <2>6. e \in Entry
    BY <1>2, <2>2, <2>4, <2>5, EntryType DEF Accepted
  <2>7. feed' = Append(feed, e) /\ e.id = o /\ e.changes = ch /\ DOMAIN ch = DOMAIN rows
    BY <2>1, <2>3, <2>4, <2>5 DEF ReceivedAs
  <2>8. FeedInv'
    BY <1>4, <1>5, <2>6, <2>7
  <2>9. ASSUME NEW i \in DOMAIN rows
        PROVE  Live(i)' /\ Bare(proj'[i].value) = ch[i].after /\ ch[i].after # None
    <3>1. after[i] \in Registration /\ proj'[i] = Stored(after[i], {o}) /\ ch[i].after = Bare(after[i])
      BY <2>2, <2>4 DEF ReceivedRows
    <3>2. PICK s : s = Stored(after[i], {o})
      OBVIOUS
    <3>3. s # None /\ s.value = after[i] /\ s.deleted = FALSE /\ proj'[i] = s
      BY <1>2, <3>1, <3>2, StoredRow
    <3>4. Bare(after[i]) \in Registration /\ None \notin Registration
      BY <3>1, BareType, DeskAssumption
    <3> QED BY <3>1, <3>3, <3>4 DEF Live, Found
  <2>10. Announced(e)
    BY <2>2, <2>7, <2>9 DEF Announced, ReceivedRows
  <2> QED BY <1>3, <2>6, <2>8, <2>10
<1>6. CASE Decision(o) # "applied"
  <2>1. proj' = proj
    BY <1>6, Zenon DEF Receive
  <2>2. feed' = Published(o, Decision(o), NoChanges)
    BY <1>6, Zenon DEF Receive
  <2>3. CASE feed' = feed
    <3>1. \A n \in 1 .. Len(feed) : feed[n].id # o
      BY <1>1 DEF FeedInv
    <3>2. FeedInv'
      BY <1>1, <2>3, <3>1 DEF FeedInv, StateInv
    <3> QED BY <1>3, <2>1, <2>3, <3>2
  <2>4. CASE feed' # feed
    <3>1. PICK e : e = [id |-> o, outcome |-> Decision(o), changes |-> NoChanges]
      OBVIOUS
    <3>2. feed' = Append(feed, e) /\ Decision(o) \notin {"waiting", "rejected"}
      BY <2>2, <2>4, <3>1 DEF Published
    <3>3. Decision(o) \in Accepted \cup {"conflict"}
      BY <1>2, <3>2 DEF Final
    <3>4. NoChanges \in [{} -> Image]
      BY DEF NoChanges
    <3>5. e \in Entry /\ e.id = o /\ DOMAIN e.changes = {}
      BY <1>2, <3>1, <3>3, <3>4, EntryType DEF NoChanges
    <3>6. FeedInv'
      BY <1>4, <3>2, <3>5
    <3>7. Announced(e)
      BY <2>1, <3>2, <3>5 DEF Announced
    <3> QED BY <1>3, <3>5, <3>6, <3>7
  <2> QED BY <2>3, <2>4
<1> QED
  BY <1>5, <1>6

\* A registration in a tablet's view (its own operations included).
LEMMA ViewType ==
    ASSUME OpInv, StateInv, NEW c \in Command, Carries(c), NEW i \in Rows(c), NEW v \in Views(i, c)
    PROVE  v.value \in Registration /\ v.heads \subseteq Action
<1>1. i \in Id
  BY DEF Carries, Rows
<1>2. CASE i \in Created(c)
  <2>1. v = [value |-> Empty(c.race), heads |-> {}]
    BY <1>2 DEF Views
  <2>2. c.race \in Race
    BY <1>2 DEF Created, Carries, Creating
  <2> QED BY <2>1, <2>2, EmptyType
<1>3. CASE i \notin Created(c)
  <2>1. CASE Live(i) /\ v = [value |-> Current(i), heads |-> proj[i].heads]
    BY <1>1, <2>1, CurrentType DEF Live
  <2>2. CASE \E q \in Op : /\ op[q] # None /\ i \in DOMAIN op[q].after
                           /\ v = [value |-> op[q].after[i], heads |-> {q}]
    BY <2>2 DEF OpInv, Action
  <2>3. \/ Live(i) /\ v = [value |-> Current(i), heads |-> proj[i].heads]
        \/ \E q \in Op : /\ op[q] # None /\ i \in DOMAIN op[q].after
                         /\ v = [value |-> op[q].after[i], heads |-> {q}]
    BY <1>3 DEF Views
  <2> QED BY <2>1, <2>2, <2>3
<1> QED
  BY <1>2, <1>3

\* Making an operation on a tablet.
LEMMA CreateStep ==
    ASSUME OpInv, StateInv, NEW o \in Op, Create(o)
    PROVE  OpInv' /\ StateInv'
<1>1. OpInv /\ StateInv
  OBVIOUS
<1>2. /\ op[o] = None /\ proj' = proj /\ outcome' = outcome /\ feed' = feed /\ floor' = floor
      /\ passed' = passed /\ resolved' = resolved /\ shown' = shown
  BY DEF Create
<1>3. PICK c \in Requests(o) : \E view \in [Rows(c) -> UNION {Views(i, c) : i \in Rows(c)}] :
         LET before == [i \in Rows(c) |-> view[i].value]
             heads == UNION {view[i].heads : i \in Rows(c)}
             after == IF c.type = "correct_move" THEN op[c.ref].before ELSE Effect(before, c)
         IN /\ \A i \in Rows(c) : view[i] \in Views(i, c)
            /\ IF c.type = "correct_move" THEN Reversible(before, op[c.ref]) ELSE Allows(before, c)
            /\ after # before
            /\ op' = [op EXCEPT ![o] = Operation(c, before, after, heads)]
  BY Zenon DEF Create
<1>3a. PICK view \in [Rows(c) -> UNION {Views(i, c) : i \in Rows(c)}] :
         LET before == [i \in Rows(c) |-> view[i].value]
             heads == UNION {view[i].heads : i \in Rows(c)}
             after == IF c.type = "correct_move" THEN op[c.ref].before ELSE Effect(before, c)
         IN /\ \A i \in Rows(c) : view[i] \in Views(i, c)
            /\ IF c.type = "correct_move" THEN Reversible(before, op[c.ref]) ELSE Allows(before, c)
            /\ after # before
            /\ op' = [op EXCEPT ![o] = Operation(c, before, after, heads)]
  BY <1>3, Zenon
<1>4. c \in Command /\ Carries(c) /\ Corrects(c) /\ Enters(c, o) /\ c.type # "resolve_conflict"
  BY <1>1, RequestType
<1>5. PICK before : before = [i \in Rows(c) |-> view[i].value]
  OBVIOUS
<1>6. PICK heads : heads = UNION {view[i].heads : i \in Rows(c)}
  OBVIOUS
<1>7. PICK after : after = IF c.type = "correct_move" THEN op[c.ref].before ELSE Effect(before, c)
  OBVIOUS
<1>8. /\ \A i \in Rows(c) : view[i] \in Views(i, c)
      /\ IF c.type = "correct_move" THEN Reversible(before, op[c.ref]) ELSE Allows(before, c)
      /\ op' = [op EXCEPT ![o] = Operation(c, before, after, heads)]
  BY <1>3a, <1>5, <1>6, <1>7, Zenon
<1>9. ASSUME NEW i \in Rows(c) PROVE view[i].value \in Registration /\ view[i].heads \subseteq Action
  BY <1>1, <1>4, <1>8, ViewType
<1>10. /\ DOMAIN before = Rows(c) /\ (\A i \in Rows(c) : before[i] \in Registration)
       /\ heads \subseteq Action /\ Rows(c) \subseteq Id
  BY <1>4, <1>5, <1>6, <1>9 DEF Carries, Rows
<1>11. DOMAIN after = Rows(c) /\ \A i \in Rows(c) : after[i] \in Registration
  <2>1. CASE c.type = "correct_move"
    BY <1>1, <1>4, <1>7, <2>1, CorrectedRows
  <2>2. CASE c.type # "correct_move"
    <3>1. after = Effect(before, c) /\ Allows(before, c)
      BY <1>7, <1>8, <2>2
    <3> QED BY <1>4, <1>10, <3>1, EffectRows
  <2> QED BY <2>1, <2>2
<1>12. PICK new : new = Operation(c, before, after, heads)
  OBVIOUS
<1>13. new.cmd = c /\ new.before = before /\ new.after = after /\ new.heads = heads
  BY <1>12 DEF Operation
<1>14. /\ op' = [q \in Op |-> op'[q]] /\ op'[o] = new
       /\ \A q \in Op : q # o => op'[q] = op[q]
  BY <1>1, <1>8, <1>12 DEF OpInv
<1>15. ASSUME NEW d, d.type = "correct_move" => d.ref # o, Corrects(d) PROVE Corrects(d)'
  BY <1>14, <1>15 DEF Corrects
<1>16. Corrects(c)'
  BY <1>2, <1>4, <1>15 DEF Corrects
<1>17. ASSUME NEW q \in Op, op'[q] # None
       PROVE  /\ op'[q].cmd \in Command /\ op'[q].heads \subseteq Action
              /\ DOMAIN op'[q].before = DOMAIN op'[q].after /\ DOMAIN op'[q].before \subseteq Id
              /\ \A i \in DOMAIN op'[q].before :
                    op'[q].before[i] \in Registration /\ op'[q].after[i] \in Registration
              /\ op'[q].cmd.type # "resolve_conflict" =>
                    /\ Carries(op'[q].cmd) /\ DOMAIN op'[q].before = Rows(op'[q].cmd)
                    /\ Corrects(op[q].cmd)' /\ Enters(op'[q].cmd, q)
  <2>1. CASE q = o
    <3>1. Corrects(op[q].cmd)'
      BY <1>13, <1>14, <1>16, <2>1 DEF Corrects
    <3> QED BY <1>4, <1>10, <1>11, <1>13, <1>14, <2>1, <3>1
  <2>2. CASE q # o
    <3>1. op'[q] = op[q] /\ op[q] # None
      BY <1>14, <1>17, <2>2
    <3>2. ASSUME op[q].cmd.type # "resolve_conflict" PROVE Corrects(op[q].cmd)'
      <4>1. Corrects(op[q].cmd)
        BY <1>1, <3>1, <3>2 DEF OpInv
      <4> QED BY <1>2, <1>14, <3>1, <4>1 DEF Corrects
    <3> QED BY <1>1, <3>1, <3>2 DEF OpInv
  <2> QED BY <2>1, <2>2
<1>18. OpInv'
  BY <1>14, <1>17 DEF OpInv
<1>19. StateInv'
  <2>1. \A q \in Op : outcome[q] # "none" => op'[q] # None
    <3>1. outcome[o] = "none"
      BY <1>1, <1>2 DEF StateInv
    <3> QED BY <1>1, <1>14, <3>1 DEF StateInv
  <2> QED BY <1>1, <1>2, <2>1 DEF StateInv
<1> QED
  BY <1>18, <1>19

\* A registration after the Desk's editor (packetRegistrationFromMember).
LEMMA EditedRowType ==
    ASSUME NEW i \in Id, NEW r \in Registration, NEW s \in EditedRows(i, r)
    PROVE  /\ s \in Registration
           /\ \/ s.person = None \/ s.person.pid = i
              \/ r.person # None /\ s.person.pid = r.person.pid
<1> DEFINE Races == {[r EXCEPT !.race = x] : x \in Race}
           Bibs == {[r EXCEPT !.bib = n] : n \in Maybe(Bib)}
           Epcs == {[r EXCEPT !.epc = n] : n \in Maybe(Chip)}
           Statuses == {[r EXCEPT !.status = x] : x \in Status}
           Persons == {[r EXCEPT !.person = IF @ # None THEN [@ EXCEPT !.text = t]
                                   ELSE [pid |-> i, text |-> t, complete |-> FALSE]] : t \in Text}
           Nobody == {[r EXCEPT !.person = None]}
<1>a. EditedRows(i, r) = UNION {InUse(EditorFields, "race", Races), InUse(EditorFields, "bib", Bibs),
                                InUse(EditorFields, "epc", Epcs), InUse(EditorFields, "status", Statuses),
                                InUse(EditorFields, "person", Nobody \cup Persons)}
  BY Zenon DEF EditedRows
<1>b. s \in Races \/ s \in Bibs \/ s \in Epcs \/ s \in Statuses \/ s \in Nobody \/ s \in Persons
  <2> HIDE DEF Races, Bibs, Epcs, Statuses, Persons, Nobody
  <2> QED BY <1>a DEF InUse
<1>1. \/ \E x \in Race : s = [r EXCEPT !.race = x]
      \/ \E n \in Maybe(Bib) : s = [r EXCEPT !.bib = n]
      \/ \E n \in Maybe(Chip) : s = [r EXCEPT !.epc = n]
      \/ \E x \in Status : s = [r EXCEPT !.status = x]
      \/ s = [r EXCEPT !.person = None]
      \/ \E t \in Text : s = [r EXCEPT !.person = IF @ # None THEN [@ EXCEPT !.text = t]
                                   ELSE [pid |-> i, text |-> t, complete |-> FALSE]]
  BY <1>b, Zenon
<1>2. CASE \E t \in Text : s = [r EXCEPT !.person = IF @ # None THEN [@ EXCEPT !.text = t]
                                   ELSE [pid |-> i, text |-> t, complete |-> FALSE]]
  <2>1. PICK t \in Text : s = [r EXCEPT !.person = IF @ # None THEN [@ EXCEPT !.text = t]
                                   ELSE [pid |-> i, text |-> t, complete |-> FALSE]]
    BY <1>2
  <2>2. PICK p : p = IF r.person # None THEN [r.person EXCEPT !.text = t]
                     ELSE [pid |-> i, text |-> t, complete |-> FALSE]
    OBVIOUS
  <2>3. s = [r EXCEPT !.person = p]
    BY <2>1, <2>2
  <2>4. p \in Maybe(Person)
    BY <2>2, DeskAssumption DEF Registration, Maybe, Person
  <2>5. p.pid = i \/ (r.person # None /\ p.pid = r.person.pid)
    BY <2>2 DEF Registration, Maybe, Person
  <2>6. s \in Registration /\ s.person = p
    BY <2>3, <2>4 DEF Registration
  <2> QED BY <2>5, <2>6
<1> QED
  BY <1>1, <1>2 DEF Registration, Maybe

\* An edit at the Desk (preparePacketMemberChange, publishPacketMemberChange).
LEMMA EditStep ==
    ASSUME OpInv, StateInv, NEW a \in Edit, NEW i \in Id, DeskEdit(a, i)
    PROVE  OpInv' /\ StateInv' /\ (FeedInv => FeedInv') /\ \E e \in Entry : Announced(e)
<1>1. /\ op' = op /\ outcome' = outcome /\ floor' = floor /\ passed' = passed
      /\ resolved' = resolved /\ shown' = shown /\ Live(i)
  BY DEF DeskEdit
<1>2. PICK after \in EditedRows(i, Current(i)) :
          /\ proj' = [proj EXCEPT ![i] = Stored(after, proj[i].heads \cup {a})]
          /\ feed' = ServerChange(a, i, Current(i), after)
  BY DEF DeskEdit
<1>3. Current(i) \in Registration /\ proj[i].heads \cup {a} \in SUBSET Action /\ a \in Action
  BY <1>1, CurrentType DEF Live, Action
<1>4. after \in Registration
  BY <1>3, EditedRowType
<1>5. Bare(after) \in Registration /\ Bare(after) # None
  BY <1>4, BareType, DeskAssumption
<1>6. PICK ch : ch = [j \in {i} |-> [before |-> Bare(Current(i)), after |-> Bare(after)]]
  OBVIOUS
<1>7. ch \in [{i} -> Image] /\ DOMAIN ch = {i} /\ ch[i].after = Bare(after)
  BY <1>3, <1>5, <1>6, BareType DEF Image, Change, Maybe
<1>8. PICK e : e = [id |-> a, outcome |-> "applied", changes |-> ch]
  OBVIOUS
<1>9. feed' = Append(feed, e)
  BY <1>2, <1>6, <1>8 DEF ServerChange
<1>10. e \in Entry /\ e.id = a /\ e.changes = ch
  BY <1>3, <1>7, <1>8, EntryType DEF Accepted
<1>11. FeedInv => FeedInv'
  BY <1>1, <1>9, <1>10, FeedGrows, DeskAssumption
<1>12. PICK s : s = Stored(after, proj[i].heads \cup {a})
  OBVIOUS
<1>13. s \in Row /\ s # None /\ s.value = after /\ s.deleted = FALSE
  BY <1>3, <1>4, <1>12, StoredRow
<1>14. proj' \in [Id -> Maybe(Row)] /\ proj'[i] = s /\ \A j \in Id : j # i => proj'[j] = proj[j]
  BY <1>2, <1>12, <1>13 DEF StateInv, Maybe
<1>15. feed' \in Seq(Entry) /\ floor' \in 0 .. Len(feed')
  BY <1>1, <1>9, <1>10, Appended DEF StateInv
<1>16. StateInv'
  BY <1>1, <1>14, <1>15 DEF StateInv
<1>17. Announced(e)
  BY <1>5, <1>7, <1>9, <1>10, <1>13, <1>14 DEF Announced, Live, Found
<1> QED
  BY <1>1, <1>10, <1>11, <1>16, <1>17, OpsSame

\* A pass, a page of conflicts, an archived part of the feed: the roster stays.
LEMMA OtherSteps ==
    ASSUME OpInv, StateInv, \/ \E x \in Timed : Pass(x)
                            \/ \E o \in Op : Show(o)
                            \/ \E n \in 1 .. Len(feed) : Compact(n)
                            \/ UNCHANGED deskVars
    PROVE  /\ OpInv' /\ StateInv' /\ (FeedInv => FeedInv')
           /\ proj' = proj /\ feed' = feed
<1>1. /\ op' = op /\ proj' = proj /\ outcome' = outcome /\ feed' = feed /\ resolved' = resolved
  BY DEF Pass, Show, Compact, deskVars
<1>2. passed' \subseteq Timed
  BY DEF Pass, Show, Compact, deskVars, StateInv
<1>3. floor' \in 0 .. Len(feed)
  <2>1. CASE \E n \in 1 .. Len(feed) : Compact(n)
    <3>1. PICK n \in 1 .. Len(feed) : Compact(n)
      BY <2>1
    <3> QED BY <3>1 DEF Compact, StateInv
  <2>2. CASE floor' = floor
    BY <2>2 DEF StateInv
  <2> QED BY <2>1, <2>2 DEF Pass, Show, deskVars
<1>4. shown' = None \/ shown'.op \in Op
  <2>1. CASE \E o \in Op : Show(o)
    <3>1. PICK o \in Op : shown' = Candidate(o)
      BY <2>1 DEF Show
    <3>2. Candidate(o).op = o
      BY DEF Candidate
    <3> QED BY <3>1, <3>2
  <2>2. CASE shown' = shown
    BY <2>2 DEF StateInv
  <2> QED BY <2>1, <2>2 DEF Pass, Compact, deskVars
<1>5. OpInv' /\ (FeedInv => FeedInv')
  BY <1>1, OpsSame DEF FeedInv
<1>6. StateInv'
  BY <1>1, <1>2, <1>3, <1>4 DEF StateInv
<1> QED
  BY <1>1, <1>5, <1>6

\* The rows a conflict is shown with (packetConflictCandidate).
LEMMA CandidateType ==
    ASSUME OpInv, StateInv, NEW o \in Op, op[o] # None, op[o].cmd.type # "resolve_conflict"
    PROVE  LET cand == Candidate(o)
               D == Rows(op[o].cmd)
           IN  /\ D \subseteq Id /\ DOMAIN op[o].before = D
               /\ cand.before \in [D -> Registration] /\ cand.after \in [D -> Registration]
               /\ \A i \in D : cand.before[i] = IF Live(i) THEN Current(i) ELSE op[o].before[i]
               /\ cand.applicable =>
                     /\ Applicable(o) /\ op[o].cmd \in Command /\ Carries(op[o].cmd)
                     /\ Allows(cand.before, op[o].cmd) /\ cand.after = Effect(cand.before, op[o].cmd)
<1> DEFINE D == Rows(op[o].cmd)
<1>1. PICK rows : rows = Reviewed(o)
  OBVIOUS
<1>2. /\ op[o].cmd \in Command /\ Carries(op[o].cmd) /\ DOMAIN op[o].before = D /\ D \subseteq Id
      /\ \A i \in D : op[o].before[i] \in Registration /\ op[o].after[i] \in Registration
  BY DEF OpInv
<1> HIDE DEF D
<1>3. DOMAIN rows = D /\ \A i \in D : rows[i] = IF Live(i) THEN Current(i) ELSE op[o].before[i]
  BY <1>1, <1>2 DEF Reviewed
<1>4. ASSUME NEW i \in D PROVE rows[i] \in Registration
  <2>1. CASE Live(i)
    BY <1>2, <1>3, <2>1, CurrentType DEF Live
  <2>2. CASE ~Live(i)
    BY <1>2, <1>3, <2>2
  <2> QED BY <2>1, <2>2
<1>4a. rows \in [D -> Registration]
  BY <1>1, <1>2, <1>3, <1>4 DEF Reviewed
<1>5. PICK cand : cand = Candidate(o)
  OBVIOUS
<1>6. cand.before = rows /\ (cand.applicable <=> Applicable(o))
  BY <1>1, <1>5 DEF Candidate
<1>7. CASE Applicable(o)
  <2>1. cand.after = Effect(rows, op[o].cmd) /\ Allows(rows, op[o].cmd)
    BY <1>1, <1>5, <1>7 DEF Candidate, Applicable
  <2>2. DOMAIN cand.after = D /\ \A i \in D : cand.after[i] \in Registration
    BY <1>2, <1>3, <1>4, <2>1, EffectRows DEF D
  <2>3. cand.after = [i \in D |-> cand.after[i]]
    BY <1>3, <2>1, <2>2 DEF Effect
  <2>4. cand.after \in [D -> Registration]
    BY <2>2, <2>3
  <2> QED BY <1>2, <1>3, <1>4a, <1>5, <1>6, <1>7, <2>1, <2>4 DEF D
<1>8. CASE ~Applicable(o)
  <2>1. cand.after = [i \in DOMAIN rows |-> Overlay(op[o].before[i], op[o].after[i], rows[i])]
    BY <1>1, <1>5, <1>8 DEF Candidate
  <2>2. cand.after \in [D -> Registration]
    BY <1>2, <1>3, <1>4, <2>1, OverlayType
  <2> QED BY <1>2, <1>3, <1>4a, <1>5, <1>6, <1>8, <2>2 DEF D
<1> QED
  BY <1>7, <1>8

\* A decision on a conflict (ResolvePacketConflict), whoever has looked at it.
LEMMA DecideStep ==
    ASSUME OpInv, StateInv, NEW o \in Op, NEW r \in Op, NEW keep \in BOOLEAN,
           Decide(o, r, keep, Candidate(o)), shown' \in {None, shown}
    PROVE  OpInv' /\ StateInv' /\ (FeedInv => FeedInv') /\ \E e \in Entry : Announced(e)
<1>1. PICK cand : cand = Candidate(o)
  OBVIOUS
<1>2. /\ op[r] = None /\ outcome[o] = "conflict" /\ Reviewable(o) /\ Candidate(o) = cand
      /\ keep => cand.applicable
      /\ outcome' = [outcome EXCEPT ![r] = "applied"]
      /\ resolved' = [resolved EXCEPT ![o] = r] /\ floor' = floor /\ passed' = passed
  BY <1>1 DEF Decide, Conflicts
<1>3. op[o] # None /\ op[o].cmd.type # "resolve_conflict"
  BY <1>2 DEF StateInv, Reviewable
<1>4. PICK D : D = Rows(op[o].cmd)
  OBVIOUS
<1>5. /\ D \subseteq Id /\ DOMAIN op[o].before = D
      /\ cand.before \in [D -> Registration] /\ cand.after \in [D -> Registration]
      /\ \A i \in D : cand.before[i] = IF Live(i) THEN Current(i) ELSE op[o].before[i]
  BY <1>2, <1>3, <1>4, CandidateType
<1>6. PICK from : from = IF keep THEN cand.before ELSE cand.after
  OBVIOUS
<1>7. PICK to : to = IF keep THEN cand.after ELSE cand.before
  OBVIOUS
<1>8. PICK new : new = Operation([Blank("resolve_conflict", None) EXCEPT !.ref = o, !.flag = keep],
                                  from, to, {o})
  OBVIOUS
<1>9. /\ op' = [op EXCEPT ![r] = new]
      /\ proj' = IF keep
                 THEN [i \in Id |-> IF i \in DOMAIN to THEN Stored(to[i], {r}) ELSE proj[i]]
                 ELSE proj
      /\ feed' = Append(feed, [id |-> r, outcome |-> "applied", changes |-> DecidedChanges(from, to)])
  BY <1>1, <1>6, <1>7, <1>8, Zenon DEF Decide
<1>10. /\ from \in [D -> Registration] /\ to \in [D -> Registration]
       /\ DOMAIN from = D /\ DOMAIN to = D
       /\ \A i \in D : from[i] \in Registration /\ to[i] \in Registration
  BY <1>5, <1>6, <1>7
<1>11. r \in Action /\ {r} \in SUBSET Action /\ {o} \in SUBSET Action
  BY DEF Action
<1>12. OpInv'
  <2>1. /\ new.cmd \in Command /\ new.cmd.type = "resolve_conflict"
        /\ new.before = from /\ new.after = to /\ new.heads = {o}
    BY <1>8 DEF Operation, Blank, Command, Types, Maybe
  <2>2. /\ op' = [q \in Op |-> op'[q]] /\ op'[r] = new
        /\ \A q \in Op : q # r => op'[q] = op[q]
    BY <1>9 DEF OpInv
  <2>3. ASSUME NEW q \in Op, op'[q] # None
        PROVE  /\ op'[q].cmd \in Command /\ op'[q].heads \subseteq Action
               /\ DOMAIN op'[q].before = DOMAIN op'[q].after /\ DOMAIN op'[q].before \subseteq Id
               /\ \A i \in DOMAIN op'[q].before :
                     op'[q].before[i] \in Registration /\ op'[q].after[i] \in Registration
               /\ op'[q].cmd.type # "resolve_conflict" =>
                     /\ Carries(op'[q].cmd) /\ DOMAIN op'[q].before = Rows(op'[q].cmd)
                     /\ Corrects(op[q].cmd)' /\ Enters(op'[q].cmd, q)
    <3>1. CASE q = r
      BY <1>5, <1>10, <1>11, <2>1, <2>2, <3>1
    <3>2. CASE q # r
      <4>1. op'[q] = op[q] /\ op[q] # None
        BY <2>2, <2>3, <3>2
      <4>2. ASSUME op[q].cmd.type # "resolve_conflict" PROVE Corrects(op[q].cmd)'
        <5>1. Corrects(op[q].cmd)
          BY <4>1, <4>2 DEF OpInv
        <5> QED BY <1>2, <2>2, <4>1, <5>1 DEF Corrects
      <4> QED BY <4>1, <4>2 DEF OpInv
    <3> QED BY <3>1, <3>2
  <2> QED BY <2>2, <2>3 DEF OpInv
<1>13. PICK ch : ch = DecidedChanges(from, to)
  OBVIOUS
<1>14. ASSUME NEW i \in D
       PROVE  ch[i] \in Image /\ ch[i].after = IF IsVirtual(i, to[i]) THEN None ELSE Bare(to[i])
  <2>1. ch[i] = [before |-> Bare(from[i]), after |-> IF IsVirtual(i, to[i]) THEN None ELSE Bare(to[i])]
    BY <1>10, <1>13 DEF DecidedChanges
  <2>2. Bare(from[i]) \in Registration /\ Bare(to[i]) \in Registration
    BY <1>10, BareType
  <2>3. Bare(from[i]) # None
    BY <2>2, DeskAssumption
  <2> QED BY <2>1, <2>2, <2>3 DEF Image, Change, Maybe
<1>15. ch \in [D -> Image] /\ DOMAIN ch = D
  BY <1>10, <1>13, <1>14 DEF DecidedChanges
<1>16. PICK e : e = [id |-> r, outcome |-> "applied", changes |-> ch]
  OBVIOUS
<1>17. e \in Entry /\ e.id = r /\ e.changes = ch /\ feed' = Append(feed, e)
  BY <1>5, <1>9, <1>11, <1>13, <1>15, <1>16, EntryType DEF Accepted
<1>18. FeedInv => FeedInv'
  <2>1. outcome'[r] \notin {"none", "waiting"}
    BY <1>2 DEF StateInv
  <2>2. \A q \in Op : outcome[q] \notin {"none", "waiting"} => outcome'[q] \notin {"none", "waiting"}
    BY <1>2, <2>1 DEF StateInv
  <2> QED BY <1>17, <2>1, <2>2, FeedGrows
<1>19. /\ outcome' \in [Op -> Final \cup {"none", "waiting"}]
       /\ \A q \in Op : outcome'[q] # "none" => op'[q] # None
       /\ passed' \subseteq Timed /\ resolved' \in [Op -> Maybe(Op)]
       /\ shown' = None \/ shown'.op \in Op
       /\ feed' \in Seq(Entry) /\ floor' \in 0 .. Len(feed')
  <2>1. op'[r] # None /\ \A q \in Op : q # r => op'[q] = op[q]
    <3>1. op'[r] = new /\ \A q \in Op : q # r => op'[q] = op[q]
      BY <1>9 DEF OpInv
    <3>2. new \in OperationOn(D) /\ D \in SUBSET Id
      BY <1>5, <1>8, <1>10, <1>11 DEF OperationOn, Operation, Blank, Command, Types, Maybe
    <3> QED BY <3>1, <3>2, DeskAssumption
  <2>2. feed' \in Seq(Entry) /\ Len(feed) \in Nat /\ Len(feed') = Len(feed) + 1
    BY <1>17, Appended DEF StateInv
  <2> QED BY <1>2, <2>1, <2>2 DEF StateInv, Final, Accepted, Maybe
<1>20. CASE keep
  <2>1. /\ proj' = [i \in Id |-> proj'[i]]
        /\ \A i \in D : proj'[i] = Stored(to[i], {r})
        /\ \A i \in Id \ D : proj'[i] = proj[i]
    BY <1>5, <1>9, <1>10, <1>20
  <2>2. ASSUME NEW i \in D
        PROVE  proj'[i] \in Row /\ proj'[i] # None /\ proj'[i].value = to[i] /\ proj'[i].deleted = FALSE
    <3>1. to[i] \in Registration /\ proj'[i] = Stored(to[i], {r})
      BY <1>10, <2>1
    <3>2. PICK x : x = Stored(to[i], {r})
      OBVIOUS
    <3>3. x \in Row /\ x # None /\ x.value = to[i] /\ x.deleted = FALSE
      BY <1>11, <3>1, <3>2, StoredRow
    <3> QED BY <3>1, <3>2, <3>3
  <2>3. proj' \in [Id -> Maybe(Row)]
    BY <2>1, <2>2 DEF StateInv, Maybe
  <2>4. StateInv'
    BY <1>19, <2>3 DEF StateInv
  <2>5. ASSUME NEW i \in D
        PROVE  IF ch[i].after # None THEN Live(i)' /\ Bare(proj'[i].value) = ch[i].after
               ELSE IsVirtual(i, Bare(proj'[i].value))
    <3>1. Live(i)' /\ proj'[i].value = to[i] /\ to[i] \in Registration
      BY <1>10, <2>2 DEF Live, Found
    <3>2. Bare(to[i]) # None
      BY <3>1, BareType, DeskAssumption
    <3> QED BY <1>14, <3>1, <3>2, VirtualBare
  <2>6. Announced(e)
    BY <1>15, <1>17, <2>1, <2>5 DEF Announced
  <2> QED BY <1>12, <1>17, <1>18, <2>4, <2>6
<1>21. CASE ~keep
  <2>1. proj' = proj /\ to = cand.before
    BY <1>7, <1>9, <1>21
  <2>2. StateInv'
    BY <1>19, <2>1 DEF StateInv
  <2>3. ASSUME NEW i \in D
        PROVE  IF ch[i].after # None THEN Live(i)' /\ Bare(proj'[i].value) = ch[i].after
               ELSE Live(i)' => IsVirtual(i, Bare(proj'[i].value))
    <3>1. to[i] \in Registration /\ ch[i].after = IF IsVirtual(i, to[i]) THEN None ELSE Bare(to[i])
      BY <1>10, <1>14
    <3>1a. Bare(to[i]) # None
      BY <3>1, BareType, DeskAssumption
    <3>2. Live(i)' <=> Live(i)
      BY <2>1 DEF Live, Found
    <3>3. CASE Live(i)
      <4>1. to[i] = Current(i) /\ Bare(Current(i)) = Bare(proj[i].value)
        BY <1>5, <2>1, <3>3, CurrentType DEF Live
      <4> QED BY <2>1, <3>1, <3>1a, <3>2, <3>3, <4>1, VirtualBare
    <3>4. CASE ~Live(i)
      <4>1. to[i] = op[o].before[i] /\ IsVirtual(i, op[o].before[i])
        BY <1>2, <1>5, <2>1, <3>4 DEF Reviewable
      <4> QED BY <3>1, <3>2, <3>4, <4>1
    <3> QED BY <3>3, <3>4
  <2>4. Announced(e)
    BY <1>15, <1>17, <2>1, <2>3 DEF Announced
  <2> QED BY <1>12, <1>17, <1>18, <2>2, <2>4
<1> QED
  BY <1>20, <1>21

\* The operator decides on what the screen shows.
LEMMA ResolveDecides ==
    ASSUME StateInv, NEW r, NEW keep, Resolve(r, keep)
    PROVE  shown.op \in Op /\ Decide(shown.op, r, keep, Candidate(shown.op)) /\ shown' = None
<1>1. shown.op \in Op /\ Decide(shown.op, r, keep, shown) /\ shown' = None
  BY DEF Resolve, StateInv
<1>2. Candidate(shown.op) = shown
  BY <1>1, Zenon DEF Decide
<1> QED
  BY <1>1, <1>2

\* The types of the tables are kept by every step, whether or not a published action can come
\* back from elsewhere: this is all a Desk that follows a site has.
LEMMA CoreStep ==
    ASSUME OpInv, StateInv, [DeskNext]_deskVars
    PROVE  OpInv' /\ StateInv'
<1>1. CASE \E o \in Op : Create(o)
  BY <1>1, CreateStep
<1>2. CASE \E o \in Op : Receive(o)
  BY <1>2, ReceiveCore
<1>3. ASSUME NEW r \in Op, NEW keep \in BOOLEAN, Resolve(r, keep) PROVE OpInv' /\ StateInv'
  BY <1>3, ResolveDecides, DecideStep
<1>4. CASE \E a \in Edit, i \in Id : DeskEdit(a, i)
  BY <1>4, EditStep
<1>5. CASE \/ \E x \in Timed : Pass(x)
           \/ \E o \in Op : Show(o)
           \/ \E n \in 1 .. Len(feed) : Compact(n)
           \/ UNCHANGED deskVars
  BY <1>5, OtherSteps
<1> QED
  BY <1>1, <1>2, <1>3, <1>4, <1>5 DEF DeskNext

\* The roster installed from the site (InstallPacketIssuanceRoster).
LEMMA InitHolds == ASSUME DeskInit PROVE IInv
<1>1. OpInv
  BY DEF DeskInit, OpInv
<1>2. \A i \in Id : InitRoster[i] = None \/ InitRoster[i] \in Registration
  BY DeskAssumption DEF Maybe
<1>3. ASSUME NEW i \in Id
      PROVE  /\ proj[i] \in Maybe(Row)
             /\ (IF Live(i) THEN proj[i].value ELSE None) = InitRoster[i]
  <2>1. CASE InitRoster[i] = None
    <3>1. proj[i] = None
      BY <2>1 DEF DeskInit
    <3> QED BY <2>1, <3>1 DEF Live, Found, Maybe
  <2>2. CASE InitRoster[i] # None
    <3>0. {} \in SUBSET Action /\ InitRoster[i] \in Registration
      BY <1>2, <2>2
    <3>1. PICK x : x = Stored(InitRoster[i], {})
      OBVIOUS
    <3>2. x \in Row /\ x # None /\ x.value = InitRoster[i] /\ x.deleted = FALSE
      BY <1>2, <2>2, <3>0, <3>1, StoredRow
    <3>3. proj[i] = x
      BY <2>2, <3>1 DEF DeskInit
    <3> QED BY <3>2, <3>3 DEF Live, Found, Maybe
  <2> QED BY <2>1, <2>2
<1>4. feed \in Seq(Entry) /\ Len(feed) = 0 /\ floor = 0
  BY DEF DeskInit
<1>5. FeedInv
  BY <1>4 DEF FeedInv
<1>6. StateInv
  <2>1. proj \in [Id -> Maybe(Row)]
    <3>1. proj = [i \in Id |-> proj[i]]
      BY DEF DeskInit
    <3> QED BY <1>3, <3>1
  <2> QED BY <1>4, <2>1 DEF DeskInit, StateInv, Final, Maybe
<1>7. FeedReplaysRoster
  <2>1. ASSUME NEW i \in Id PROVE Followed(i) = InitRoster[i]
    <3>1. LastChange(i) = {}
      BY <1>4 DEF LastChange
    <3> QED BY <3>1 DEF Followed
  <2> QED BY <1>3, <2>1 DEF FeedReplaysRoster
<1> QED
  BY <1>1, <1>5, <1>6, <1>7 DEF IInv

\* Every step of the Desk keeps the invariant.
LEMMA StepHolds == ASSUME IInv, [DeskNext]_deskVars PROVE IInv'
<1>1. OpInv /\ StateInv /\ FeedInv /\ FeedReplaysRoster
  BY DEF IInv
<1>2. OpInv' /\ StateInv'
  BY <1>1, CoreStep
<1>3. ASSUME FeedInv', (proj' = proj /\ feed' = feed) \/ \E e \in Entry : Announced(e)
      PROVE  IInv'
  BY <1>1, <1>2, <1>3, ReplayStep, ReplaySame DEF IInv
<1>4. CASE \E o \in Op : Create(o)
  <2>1. proj' = proj /\ feed' = feed /\ outcome' = outcome
    BY <1>4 DEF Create
  <2>2. FeedInv'
    BY <1>1, <2>1 DEF FeedInv
  <2> QED BY <1>3, <2>1, <2>2
<1>5. CASE \E o \in Op : Receive(o)
  BY <1>1, <1>3, <1>5, ReceiveStep
<1>6. ASSUME NEW r \in Op, NEW keep \in BOOLEAN, Resolve(r, keep) PROVE IInv'
  BY <1>1, <1>3, <1>6, ResolveDecides, DecideStep
<1>7. CASE \E a \in Edit, i \in Id : DeskEdit(a, i)
  BY <1>1, <1>3, <1>7, EditStep
<1>8. CASE \/ \E x \in Timed : Pass(x)
           \/ \E o \in Op : Show(o)
           \/ \E n \in 1 .. Len(feed) : Compact(n)
           \/ UNCHANGED deskVars
  BY <1>1, <1>3, <1>8, OtherSteps
<1> QED
  BY <1>4, <1>5, <1>6, <1>7, <1>8 DEF DeskNext

\* The invariant holds in every state of every run of the Desk.
THEOREM Invariance == DeskSpec => []IInv
<1>1. DeskInit => IInv
  BY InitHolds
<1>2. IInv /\ [DeskNext]_deskVars => IInv'
  BY StepHolds
<1> QED
  BY <1>1, <1>2, PTL DEF DeskSpec

\* The tables of packet issuance keep their types: every operation, every row and every published
\* image is a registration of the event (ParseOperation, ValidateRegistration).
THEOREM TypeCorrect == DeskSpec => []DeskTypeOK
<1>1. IInv => DeskTypeOK
  <2> SUFFICES ASSUME IInv PROVE DeskTypeOK
    OBVIOUS
  <2>1. ASSUME NEW n \in 1 .. Len(feed)
        PROVE  /\ feed[n].id \in Action /\ feed[n].outcome \in Accepted \cup {"conflict"}
               /\ \A i \in DOMAIN feed[n].changes : i \in Id /\ feed[n].changes[i] \in Change
    <3>1. feed[n] \in Entry
      BY DEF IInv, StateInv
    <3> QED BY <3>1, EntryImages
  <2>2. proj \in [Id -> Maybe([value : Registration, heads : SUBSET Action, deleted : BOOLEAN])]
    BY DEF IInv, StateInv, Row
  <2> QED BY <2>1, <2>2 DEF IInv, OpInv, StateInv, DeskTypeOK
<1> QED
  BY <1>1, Invariance, PTL

\* A tablet that follows the feed has the Desk's roster, for any roster, operations, edits and
\* order of receipts (receiveOne, ResolvePacketConflict, publishPacketMemberChange).
THEOREM FollowersHaveTheRoster == DeskSpec => []FeedReplaysRoster
<1>1. IInv => FeedReplaysRoster
  BY DEF IInv
<1> QED
  BY <1>1, Invariance, PTL

-----------------------------------------------------------------------------
(* What an action of the feed says of the registrations before it.         *)

\* A registration as a feed tells it: none while it is not there (packetFeedProjection).
AsTold(i) == IF Live(i) THEN Bare(proj[i].value) ELSE None

\* No registration is the empty image that stands for an absent one.
NeverEmptied == \A i \in Id : Live(i) => ~IsVirtual(i, Bare(proj[i].value))

\* A registration is created under an id that a tablet has minted, and from the empty image
\* (packetMergeDecision applies the command to it).
LEMMA CreatedRows ==
    ASSUME OpInv, StateInv, NEW o \in Op, Sendable(o), Decision(o) = "applied",
           NEW rows, rows = Merged(o), NEW i \in Rows(op[o].cmd), ~Live(i)
    PROVE  op[o].cmd.type \in Creating /\ IsVirtual(i, rows[i])
<1>1. PICK c : c = op[o].cmd
  OBVIOUS
<1>2. /\ c \in Command /\ Carries(c) /\ DOMAIN rows = Rows(c)
      /\ ~Found(i) /\ rows[i] = Empty(rows[i].race) /\ c.type \in Creating
      /\ Derivable(o, rows)
  BY <1>1, AppliedRows
<1>3. Allows(rows, c)
  BY <1>1, <1>2 DEF Derivable, Creating
<1>4. CASE c.type = "create_registration"
  <2>1. i = c.id /\ AllowsSingle(rows[c.id], c)
    BY <1>1, <1>3, <1>4 DEF Rows, Single, Allows
  <2> QED BY <1>1, <1>2, <1>4, <2>1 DEF AllowsSingle
<1>5. CASE c.type = "return_to_reserve"
  <2>1. i \in {c.id, c.target} /\ AllowsPair(rows[c.id], rows[c.target], c)
    BY <1>1, <1>3, <1>5 DEF Rows, Single, Allows
  <2>2. rows[c.id].person # None /\ IsVirtual(c.target, rows[c.target])
    BY <1>5, <2>1 DEF AllowsPair, Assigned, Moving
  <2>3. rows[i].person = None
    BY <1>2 DEF Empty
  <2> QED BY <1>1, <1>2, <2>1, <2>2, <2>3
<1> QED
  BY <1>2, <1>4, <1>5 DEF Creating

\* An operation is published with what the Desk had of its rows, and a conflict is published
\* unless it is over a race (PublishPacketOperation).
LEMMA ReceiptTells ==
    ASSUME OpInv, StateInv, FeedInv, NeverEmptied, NEW o \in Op, Receive(o)
    PROVE  \/ /\ feed' = feed
              /\ outcome'[o] = "conflict" => op[o].cmd.type = "change_race"
           \/ \E e : /\ feed' = Append(feed, e) /\ e.id = o /\ e.outcome = outcome'[o]
                     /\ \A i \in DOMAIN e.changes : e.changes[i].before = AsTold(i)
<1>1. /\ Sendable(o) /\ outcome[o] \in {"none", "waiting"} /\ outcome'[o] = Decision(o)
  BY DEF Receive, StateInv
<1>2. ~ \E n \in 1 .. Len(feed) : feed[n].id = o
  BY <1>1 DEF FeedInv
<1>3. CASE Decision(o) = "applied"
  <2>1. PICK rows, after : ReceivedAs(o, rows, after)
    BY <1>3, ReceiveApplied
  <2>2. PICK c, ch : c = op[o].cmd /\ ch = Changes(c, rows, after)
    OBVIOUS
  <2>3. rows = Merged(o) /\ DOMAIN rows = Rows(c) /\ DOMAIN rows \subseteq Id
    BY <2>1, <2>2 DEF ReceivedAs, ReceivedRows
  <2>4. DOMAIN ch = DOMAIN rows
    BY <2>2 DEF Changes
  <2>5. ASSUME NEW i \in DOMAIN rows PROVE ch[i].before = AsTold(i)
    <3>1. ch[i].before = IF c.type \in Creating /\ IsVirtual(i, rows[i]) THEN None ELSE Bare(rows[i])
      BY <2>2 DEF Changes
    <3>2. CASE Live(i)
      <4>1. rows[i] \in Registration /\ rows[i] = Current(i)
        BY <1>1, <1>3, <2>2, <2>3, <3>2, AppliedRows DEF Live
      <4>2. Bare(rows[i]) = Bare(proj[i].value)
        BY <2>3, <3>2, <4>1, CurrentType DEF Live
      <4>3. ~IsVirtual(i, rows[i])
        BY <2>3, <3>2, <4>1, <4>2, VirtualBare DEF NeverEmptied
      <4> QED BY <3>1, <3>2, <4>2, <4>3 DEF AsTold
    <3>3. CASE ~Live(i)
      <4>1. c.type \in Creating /\ IsVirtual(i, rows[i])
        BY <1>1, <1>3, <2>2, <2>3, <3>3, CreatedRows
      <4> QED BY <3>1, <3>3, <4>1 DEF AsTold
    <3> QED BY <3>2, <3>3
  <2>6. PICK e : e = [id |-> o, outcome |-> "applied", changes |-> ch]
    OBVIOUS
  <2>7. feed' = Append(feed, e) /\ e.id = o /\ e.outcome = "applied" /\ e.changes = ch
    BY <2>1, <2>2, <2>6 DEF ReceivedAs
  <2> QED BY <1>1, <1>3, <2>4, <2>5, <2>7
<1>4. CASE Decision(o) # "applied"
  <2>1. PICK e : e = [id |-> o, outcome |-> Decision(o), changes |-> NoChanges]
    OBVIOUS
  <2>2. feed' = Published(o, Decision(o), NoChanges)
    BY <1>4, Zenon DEF Receive
  <2>3. e.id = o /\ e.outcome = Decision(o) /\ DOMAIN e.changes = {}
    BY <2>1 DEF NoChanges
  <2>4. CASE \/ Decision(o) \in {"waiting", "rejected"}
             \/ op[o].cmd.type = "change_race"
    <3>1. feed' = feed \/ feed' = Append(feed, e)
      BY <2>1, <2>2 DEF Published
    <3> QED BY <1>1, <2>3, <2>4, <3>1
  <2>5. CASE ~(\/ Decision(o) \in {"waiting", "rejected"}
               \/ op[o].cmd.type = "change_race")
    <3>1. feed' = Append(feed, e)
      BY <1>2, <2>1, <2>2, <2>5 DEF Published
    <3> QED BY <1>1, <2>3, <3>1
  <2> QED BY <2>4, <2>5
<1> QED
  BY <1>3, <1>4

\* So is a change with the editor (publishPacketMemberChange).
LEMMA EditTells ==
    ASSUME StateInv, NEW a \in Edit, NEW i \in Id, DeskEdit(a, i)
    PROVE  /\ outcome' = outcome
           /\ \E e : /\ feed' = Append(feed, e) /\ e.id = a
                     /\ \A j \in DOMAIN e.changes : j \in Id /\ e.changes[j].before = AsTold(j)
<1>1. Live(i) /\ outcome' = outcome
  BY DEF DeskEdit
<1>2. PICK after : feed' = ServerChange(a, i, Current(i), after)
  BY DEF DeskEdit
<1>3. PICK ch : ch = [j \in {i} |-> [before |-> Bare(Current(i)), after |-> Bare(after)]]
  OBVIOUS
<1>4. PICK e : e = [id |-> a, outcome |-> "applied", changes |-> ch]
  OBVIOUS
<1>5. feed' = Append(feed, e)
  BY <1>2, <1>3, <1>4 DEF ServerChange
<1>6. DOMAIN e.changes = {i} /\ e.changes[i].before = Bare(Current(i)) /\ e.id = a
  BY <1>3, <1>4
<1>7. Bare(Current(i)) = AsTold(i)
  BY <1>1, CurrentType DEF AsTold, Live
<1> QED
  BY <1>1, <1>5, <1>6, <1>7

\* A decision names the conflict it decides (ResolvePacketConflict).
LEMMA DecisionTells ==
    ASSUME OpInv, StateInv, StateInv', NEW o \in Op, NEW r \in Op, NEW keep, NEW candidate,
           Decide(o, r, keep, candidate)
    PROVE  /\ op[r] = None /\ op[o] # None /\ outcome[o] = "conflict"
           /\ op'[r] # None /\ op'[r].cmd.type = "resolve_conflict" /\ op'[r].cmd.ref = o
           /\ \A q \in Op : q # r => op'[q] = op[q]
           /\ \A q \in Op : outcome'[q] = IF q = r THEN "applied" ELSE outcome[q]
           /\ \E e : feed' = Append(feed, e) /\ e.id = r
<1>1. PICK from : from = IF keep THEN candidate.before ELSE candidate.after
  OBVIOUS
<1>2. PICK to : to = IF keep THEN candidate.after ELSE candidate.before
  OBVIOUS
<1>3. PICK c : c = [Blank("resolve_conflict", None) EXCEPT !.ref = o, !.flag = keep]
  OBVIOUS
<1>4. PICK new : new = Operation(c, from, to, {o})
  OBVIOUS
<1>5. PICK e : e = [id |-> r, outcome |-> "applied", changes |-> DecidedChanges(from, to)]
  OBVIOUS
<1>6. /\ op[r] = None /\ outcome[o] = "conflict"
      /\ op' = [op EXCEPT ![r] = new]
      /\ outcome' = [outcome EXCEPT ![r] = "applied"]
      /\ feed' = Append(feed, e)
  BY <1>1, <1>2, <1>3, <1>4, <1>5, Zenon DEF Decide, Conflicts
<1>7. new.cmd = c /\ c.type = "resolve_conflict" /\ c.ref = o
  BY <1>3, <1>4 DEF Operation, Blank
<1>8. op'[r] = new /\ \A q \in Op : q # r => op'[q] = op[q]
  BY <1>6 DEF OpInv
<1>9. \A q \in Op : outcome'[q] = IF q = r THEN "applied" ELSE outcome[q]
  BY <1>6 DEF StateInv
<1>10. op[o] # None /\ op'[r] # None
  BY <1>6, <1>9 DEF StateInv
<1> QED
  BY <1>5, <1>6, <1>7, <1>8, <1>9, <1>10

-----------------------------------------------------------------------------
(* What a step may never do.                                               *)

\* A live row whose new value keeps the runner.
LEMMA KeptRow ==
    ASSUME StateInv, NEW i \in Id, Live(i), NEW new \in Registration, SameKept(new, Current(i)),
           NEW o \in Op, proj'[i] = Stored(new, {o})
    PROVE  Live(i)' /\ \A f \in Kept : proj'[i].value[f] = proj[i].value[f]
<1>1. {o} \in SUBSET Action
  BY DEF Action
<1>2. PICK x : x = Stored(new, {o})
  OBVIOUS
<1>3. x # None /\ x.value = new /\ x.deleted = FALSE /\ proj'[i] = x
  BY <1>1, <1>2, StoredRow
<1>4. Live(i)' /\ proj'[i].value = new
  BY <1>3 DEF Live, Found
<1>5. SameKept(Current(i), proj[i].value)
  BY CurrentType DEF Live
<1>6. SameKept(new, proj[i].value)
  BY <1>5 DEF SameKept
<1> QED
  BY <1>4, <1>6, KeptFields

\* What a decision in favour of a proposal applies (ResolvePacketConflict): the command, to rows
\* that are live and as the Desk has them now.
KeptAs(o, r, rows, after) ==
    /\ op[o].cmd \in Command /\ Carries(op[o].cmd) /\ op[o] # None
    /\ outcome[o] = "conflict" /\ resolved[o] = None /\ resolved' = [resolved EXCEPT ![o] = r]
    /\ Applicable(o) /\ Allows(rows, op[o].cmd) /\ after = Effect(rows, op[o].cmd)
    /\ DOMAIN rows = Rows(op[o].cmd) /\ DOMAIN rows \subseteq Id
    /\ \A i \in DOMAIN rows :
          /\ Live(i) /\ rows[i] = Current(i) /\ rows[i] \in Registration
          /\ after[i] \in Registration /\ proj'[i] = Stored(after[i], {r})
    /\ \A i \in Id \ DOMAIN rows : proj'[i] = proj[i]

\* A decision in favour of a proposal writes its rows (ResolvePacketConflict).
LEMMA KeptProposal ==
    ASSUME OpInv, StateInv, NEW r \in Op, Resolve(r, TRUE)
    PROVE  \E o, rows, after : o \in Op /\ KeptAs(o, r, rows, after)
<1>1. PICK cand : cand = shown
  OBVIOUS
<1>2. PICK o : o = shown.op
  OBVIOUS
<1>3. Decide(o, r, TRUE, cand) /\ o \in Op
  BY <1>1, <1>2 DEF Resolve, StateInv
<1>4. /\ outcome[o] = "conflict" /\ resolved[o] = None /\ Reviewable(o) /\ Candidate(o) = cand
      /\ cand.applicable /\ resolved' = [resolved EXCEPT ![o] = r]
  BY <1>3 DEF Decide, Conflicts
<1>5. op[o] # None /\ op[o].cmd.type # "resolve_conflict"
  BY <1>3, <1>4 DEF StateInv, Reviewable
<1>6. PICK rows : rows = cand.before
  OBVIOUS
<1>7. PICK after : after = cand.after
  OBVIOUS
<1>8. proj' = [i \in Id |-> IF i \in DOMAIN after THEN Stored(after[i], {r}) ELSE proj[i]]
  BY <1>3, <1>7, Zenon DEF Decide
<1>9. /\ DOMAIN rows = Rows(op[o].cmd) /\ DOMAIN after = Rows(op[o].cmd)
      /\ Rows(op[o].cmd) \subseteq Id /\ DOMAIN op[o].before = Rows(op[o].cmd)
      /\ \A i \in Rows(op[o].cmd) :
            /\ rows[i] \in Registration /\ after[i] \in Registration
            /\ rows[i] = IF Live(i) THEN Current(i) ELSE op[o].before[i]
  BY <1>3, <1>4, <1>5, <1>6, <1>7, CandidateType
<1>10. /\ Applicable(o) /\ op[o].cmd \in Command /\ Carries(op[o].cmd)
       /\ Allows(rows, op[o].cmd) /\ after = Effect(rows, op[o].cmd)
  BY <1>3, <1>4, <1>5, <1>6, <1>7, CandidateType
<1>11. \A i \in Rows(op[o].cmd) : Live(i)
  BY <1>4, <1>9, <1>10 DEF Reviewable, Applicable
<1> QED
  BY <1>3, <1>4, <1>5, <1>8, <1>9, <1>10, <1>11 DEF KeptAs

\* Only receipts and decisions change an outcome.
LEMMA OutcomeSteps ==
    ASSUME IInv, [DeskNext]_deskVars, outcome' # outcome
    PROVE  \/ \E o \in Op : Receive(o)
           \/ \E r \in Op : Resolve(r, TRUE)
           \/ proj' = proj
<1>1. ASSUME NEW o \in Op, Create(o) \/ Show(o) PROVE FALSE
  BY <1>1 DEF Create, Show
<1>2. ASSUME NEW r \in Op, Resolve(r, FALSE) PROVE proj' = proj
  <2>1. Decide(shown.op, r, FALSE, shown)
    BY <1>2 DEF Resolve
  <2> QED BY <2>1, Zenon DEF Decide
<1>3. ASSUME NEW a \in Edit, NEW i \in Id, DeskEdit(a, i) PROVE FALSE
  BY <1>3 DEF DeskEdit
<1>4. ASSUME \/ \E x \in Timed : Pass(x)
             \/ \E n \in 1 .. Len(feed) : Compact(n)
             \/ UNCHANGED deskVars
      PROVE  FALSE
  BY <1>4 DEF Pass, Compact, deskVars
<1>5. ASSUME NEW r \in Op, NEW keep \in BOOLEAN, Resolve(r, keep)
      PROVE  Resolve(r, TRUE) \/ Resolve(r, FALSE)
  BY <1>5
<1> QED
  BY <1>1, <1>2, <1>3, <1>4, <1>5 DEF DeskNext

\* A runner who has been timed keeps number, chip and race, whatever is received or decided on
\* then, for any roster and any operations (hasTimingEvidence).
THEOREM TimedRunnersKept == DeskSpec => TimedRowsKept
<1>1. ASSUME IInv, [DeskNext]_deskVars, outcome' # outcome, NEW i \in Id, Live(i), Evidence(proj[i].value)
      PROVE  Live(i)' /\ \A f \in Kept : proj'[i].value[f] = proj[i].value[f]
  <2>1. OpInv /\ StateInv /\ FeedInv
    BY <1>1 DEF IInv
  <2>2. Current(i).evidence
    BY <1>1, <2>1, CurrentType DEF Live
  <2>3. CASE proj'[i] = proj[i]
    BY <1>1, <2>3 DEF Live, Found
  <2>4. CASE \E o \in Op : Receive(o)
    <3>1. PICK o \in Op : Receive(o)
      BY <2>4
    <3>2. CASE Decision(o) # "applied"
      <4>1. proj' = proj
        BY <3>1, <3>2, Zenon DEF Receive
      <4> QED BY <2>3, <4>1
    <3>3. CASE Decision(o) = "applied"
      <4>1. Sendable(o)
        BY <3>1 DEF Receive
      <4>2. PICK rows, after : ReceivedAs(o, rows, after)
        BY <2>1, <3>1, <3>3, ReceiveApplied
      <4>3. CASE i \in DOMAIN rows
        <5>1. rows[i] = Current(i) /\ Derivable(o, rows)
          BY <1>1, <2>1, <3>3, <4>1, <4>2, <4>3, AppliedRows DEF Live, ReceivedAs, ReceivedRows
        <5>2. SameKept(after[i], rows[i])
          BY <2>1, <2>2, <4>1, <4>2, <4>3, <5>1, DerivedRows DEF ReceivedAs, ReceivedRows
        <5> QED BY <1>1, <2>1, <4>2, <4>3, <5>1, <5>2, KeptRow DEF ReceivedAs, ReceivedRows
      <4>4. CASE i \notin DOMAIN rows
        BY <2>3, <4>2, <4>4 DEF ReceivedAs, ReceivedRows
      <4> QED BY <4>3, <4>4
    <3> QED BY <3>2, <3>3
  <2>5. CASE \E r \in Op : Resolve(r, TRUE)
    <3>1. PICK r \in Op : Resolve(r, TRUE)
      BY <2>5
    <3>2. PICK o, rows, after : o \in Op /\ KeptAs(o, r, rows, after)
      BY <2>1, <3>1, KeptProposal
    <3>3. CASE i \in DOMAIN rows
      <4>1. SameKept(after[i], rows[i])
        BY <2>2, <3>2, <3>3, EffectRows DEF KeptAs
      <4> QED BY <1>1, <2>1, <3>2, <3>3, <4>1, KeptRow DEF KeptAs
    <3>4. CASE i \notin DOMAIN rows
      BY <2>3, <3>2, <3>4 DEF KeptAs
    <3> QED BY <3>3, <3>4
  <2> QED BY <1>1, <2>3, <2>4, <2>5, OutcomeSteps
<1>2. IInv /\ [DeskNext]_deskVars
      => [outcome' # outcome =>
             \A i \in Id : Live(i) /\ Evidence(proj[i].value) =>
                Live(i)' /\ \A f \in Kept : proj'[i].value[f] = proj[i].value[f]]_deskVars
  BY <1>1
<1> QED
  BY <1>2, Invariance, PTL DEF DeskSpec, TimedRowsKept

\* Archiving a part of the feed leaves every pending operation the decision it would have had,
\* for any feed and any floor (PacketDependenciesApplied searches both parts).
THEOREM ArchivingDecidesNothing == DeskSpec => ArchivingKeepsDecisions
<1>1. ASSUME IInv, [DeskNext]_deskVars, floor' # floor, NEW o \in Op
      PROVE  Decision(o)' = Decision(o)
  <2>1. PICK n \in 1 .. Len(feed) : Compact(n)
    BY <1>1 DEF DeskNext, Create, Receive, Show, Resolve, Decide, DeskEdit, Pass, deskVars
  <2>2. /\ op' = op /\ proj' = proj /\ outcome' = outcome /\ feed' = feed /\ passed' = passed
        /\ floor' = n /\ n \in floor + 1 .. Len(feed) - 1
    BY <2>1 DEF Compact
  <2>3. floor \in 0 .. Len(feed) /\ Len(feed) \in Nat
    BY <1>1 DEF IInv, StateInv, FeedInv
  <2>4. Admitted' = Admitted
    <3> DEFINE Acc(m) == feed[m].outcome \in Accepted
    <3>1. Archived \cup Listed = {feed[m].id : m \in {k \in 1 .. Len(feed) : Acc(k)}}
      BY <2>3 DEF Archived, Listed
    <3>2. Archived' \cup Listed' = {feed[m].id : m \in {k \in 1 .. Len(feed) : Acc(k)}}
      BY <2>2, <2>3 DEF Archived, Listed
    <3>3. {q \in Op : outcome'[q] \in Accepted} = {q \in Op : outcome[q] \in Accepted}
      BY <2>2
    <3> QED BY <3>1, <3>2, <3>3 DEF Admitted
  <2>5. /\ \A i : (Found(i)' <=> Found(i)) /\ (Live(i)' <=> Live(i)) /\ Current(i)' = Current(i)
        /\ \A r : Evidence(r)' <=> Evidence(r)
    BY <2>2 DEF Found, Live, Current, Evidence
  <2>6. Taken(op[o].cmd)' <=> Taken(op[o].cmd)
    BY <2>2, <2>5 DEF Taken, Occupied
  <2>7. (Unknown(o)' <=> Unknown(o)) /\ (Disputed(op[o].cmd)' <=> Disputed(op[o].cmd))
    BY <2>2, <2>5 DEF Unknown, Disputed
  <2>8. Merged(o)' = Merged(o)
    BY <2>2, <2>5 DEF Merged
  <2>9. MergeDecision(o, Merged(o))' = MergeDecision(o, Merged(o))
    <3> HIDE DEF Merged
    <3> QED BY <2>2, <2>8, Zenon DEF MergeDecision, Derivable, Derived
  <2> QED BY <2>2, <2>4, <2>6, <2>7, <2>9 DEF Decision
<1>2. IInv /\ [DeskNext]_deskVars
      => [floor' # floor =>
             \A o \in Op : op[o] # None /\ outcome[o] \in {"none", "waiting"} =>
                Decision(o)' = Decision(o)]_deskVars
  BY <1>1
<1> QED
  BY <1>2, Invariance, PTL DEF DeskSpec, ArchivingKeepsDecisions

\* A number is new in a row only where it has been found free.
LEMMA NumbersStep ==
    ASSUME NumbersUnique, NEW c,
           \A i \in Id : Found(i)' =>
              \/ proj'[i].value.bib = None
              \/ Found(i) /\ proj'[i].value.bib = proj[i].value.bib
              \/ /\ proj'[i].value.bib = c.bib /\ ~Occupied(c.id, c.bib)
                 /\ \/ i = c.id
                    \/ i = c.target /\ proj'[c.id].value.bib = None
    PROVE  NumbersUnique'
<1> SUFFICES ASSUME NEW i \in Id, NEW j \in Id, i # j, Found(i)', Found(j)',
                    proj'[i].value.bib # None, proj'[i].value.bib = proj'[j].value.bib
             PROVE  FALSE
  BY DEF NumbersUnique, Found
<1>1. CASE Found(i) /\ proj'[i].value.bib = proj[i].value.bib
  BY <1>1 DEF NumbersUnique, Occupied
<1>2. CASE ~(Found(i) /\ proj'[i].value.bib = proj[i].value.bib)
  BY <1>2 DEF NumbersUnique, Occupied
<1> QED
  BY <1>1, <1>2

\* Receiving or deciding gives no number to two registrations, for any roster and any
\* operations in any order (CheckPacketNumber).
THEOREM NumbersGivenOnce == DeskSpec => NumberedOnce
<1>1. ASSUME IInv, [DeskNext]_deskVars, outcome' # outcome, NumbersUnique
      PROVE  NumbersUnique'
  <2>1. OpInv /\ StateInv /\ FeedInv
    BY <1>1 DEF IInv
  <2>2. CASE proj' = proj
    BY <1>1, <2>2 DEF NumbersUnique, Found
  <2>3. ASSUME NEW q \in Op, NEW new \in Registration, NEW i \in Id, proj'[i] = Stored(new, {q})
        PROVE  proj'[i].value = new
    BY <2>3 DEF Stored
  <2>4. \A i \in Id : Found(i) => Current(i).bib = proj[i].value.bib
    BY <2>1, CurrentType DEF SameKept
  <2>5. CASE \E o \in Op : Receive(o)
    <3>1. PICK o \in Op : Receive(o)
      BY <2>5
    <3>2. CASE Decision(o) # "applied"
      <4>1. proj' = proj
        BY <3>1, <3>2, Zenon DEF Receive
      <4> QED BY <2>2, <4>1
    <3>3. CASE Decision(o) = "applied"
      <4>1. Sendable(o)
        BY <3>1 DEF Receive
      <4>2. PICK rows, after : ReceivedAs(o, rows, after)
        BY <2>1, <3>1, <3>3, ReceiveApplied
      <4>3. PICK c : c = op[o].cmd
        OBVIOUS
      <4>4. /\ DOMAIN rows = Rows(c) /\ Rows(c) \subseteq Id
            /\ \A i \in Rows(c) :
                 /\ rows[i] \in Registration
                 /\ \/ Live(i) /\ rows[i] = Current(i)
                    \/ ~Found(i) /\ rows[i] = Empty(rows[i].race) /\ c.type \in Creating
            /\ ~Taken(c) /\ Derivable(o, rows) /\ c \in Command /\ Carries(c)
        BY <2>1, <3>3, <4>1, <4>2, <4>3, AppliedRows DEF ReceivedAs, ReceivedRows
      <4>5. \A i \in Rows(c) :
               \/ after[i].bib \in {rows[i].bib, None}
               \/ c.type \in Numbering /\ after[i].bib = c.bib
               \/ /\ c.type = "return_to_reserve" /\ i = c.target /\ after[i].bib = c.bib
                  /\ c.id # c.target /\ after[c.id].bib = None
        BY <2>1, <4>1, <4>2, <4>3, <4>4, DerivedRows DEF ReceivedAs, ReceivedRows
      <4>6. /\ \A i \in Rows(c) : proj'[i].value = after[i]
            /\ \A i \in Id \ Rows(c) : proj'[i] = proj[i]
        BY <2>3, <4>2, <4>4 DEF ReceivedAs, ReceivedRows
      <4>7. ASSUME NEW i \in Id, Found(i)'
            PROVE  \/ proj'[i].value.bib = None
                   \/ Found(i) /\ proj'[i].value.bib = proj[i].value.bib
                   \/ /\ proj'[i].value.bib = c.bib /\ ~Occupied(c.id, c.bib)
                      /\ \/ i = c.id
                         \/ i = c.target /\ proj'[c.id].value.bib = None
        <5>1. CASE i \notin Rows(c)
          BY <4>6, <4>7, <5>1 DEF Found
        <5>2. CASE i \in Rows(c) /\ after[i].bib \in {rows[i].bib, None}
          BY <2>4, <4>4, <4>6, <5>2 DEF Live, Empty
        <5>3. CASE i \in Rows(c) /\ c.type \in Numbering /\ after[i].bib = c.bib
          <6>1. i = c.id
            BY <5>3 DEF Rows, Numbering, Single
          <6> QED BY <4>4, <4>6, <5>3, <6>1 DEF Taken
        <5>4. CASE /\ i \in Rows(c) /\ c.type = "return_to_reserve" /\ i = c.target
                   /\ after[i].bib = c.bib /\ after[c.id].bib = None
          <6>1. c.id \in Rows(c)
            BY DEF Rows
          <6> QED BY <4>4, <4>6, <5>4, <6>1 DEF Taken
        <5> QED BY <4>5, <5>1, <5>2, <5>3, <5>4
      <4> QED BY <1>1, <4>7, NumbersStep
    <3> QED BY <3>2, <3>3
  <2>6. CASE \E r \in Op : Resolve(r, TRUE)
    <3>1. PICK r \in Op : Resolve(r, TRUE)
      BY <2>6
    <3>2. PICK o, rows, after : o \in Op /\ KeptAs(o, r, rows, after)
      BY <2>1, <3>1, KeptProposal
    <3>3. PICK c : c = op[o].cmd
      OBVIOUS
    <3>4. /\ DOMAIN rows = Rows(c) /\ c \in Command /\ Carries(c) /\ Allows(rows, c) /\ after = Effect(rows, c)
          /\ \A i \in Rows(c) : rows[i] \in Registration /\ Live(i) /\ rows[i] = Current(i)
          /\ c.type \notin Creating /\ (c.type = "assign_number" => ~Taken(c))
      BY <3>2, <3>3 DEF KeptAs, Applicable
    <3>5. \A i \in Rows(c) :
             \/ after[i].bib \in {rows[i].bib, None}
             \/ c.type = "assign_number" /\ after[i].bib = c.bib
      BY <3>4, EffectRows DEF Numbering, Creating
    <3>6. /\ \A i \in Rows(c) : proj'[i].value = after[i]
          /\ \A i \in Id \ Rows(c) : proj'[i] = proj[i]
      BY <2>3, <3>1, <3>2, <3>4 DEF KeptAs
    <3>7. ASSUME NEW i \in Id, Found(i)'
          PROVE  \/ proj'[i].value.bib = None
                 \/ Found(i) /\ proj'[i].value.bib = proj[i].value.bib
                 \/ /\ proj'[i].value.bib = c.bib /\ ~Occupied(c.id, c.bib)
                    /\ \/ i = c.id
                       \/ i = c.target /\ proj'[c.id].value.bib = None
      <4>1. CASE i \notin Rows(c)
        BY <3>6, <3>7, <4>1 DEF Found
      <4>2. CASE i \in Rows(c) /\ after[i].bib \in {rows[i].bib, None}
        BY <2>4, <3>4, <3>6, <4>2 DEF Live
      <4>3. CASE i \in Rows(c) /\ c.type = "assign_number" /\ after[i].bib = c.bib
        <5>1. i = c.id
          BY <4>3 DEF Rows, Single
        <5> QED BY <3>4, <3>6, <4>3, <5>1 DEF Taken, Numbering
      <4> QED BY <3>5, <4>1, <4>2, <4>3
    <3> QED BY <1>1, <3>7, NumbersStep
  <2> QED BY <1>1, <2>2, <2>5, <2>6, OutcomeSteps
<1>2. IInv /\ [DeskNext]_deskVars => [outcome' # outcome /\ NumbersUnique => NumbersUnique']_deskVars
  BY <1>1
<1> QED
  BY <1>2, Invariance, PTL DEF DeskSpec, NumberedOnce

-----------------------------------------------------------------------------
(* Where persons are.                                                      *)

\* A reserve slot is nobody's.
Free(r) == r.reserve => r.person = None /\ ~r.issued /\ r.transferredTo = None

\* What a command does to the persons of its rows: a person stays, leaves, is brought in by the
\* command, or comes to row a from row b, which then has nobody or is a transfer's source.
PersonsMoved(rows, new, c, a, b) ==
    \A i \in DOMAIN rows :
        /\ Free(rows[i]) => Free(new[i])
        /\ \/ new[i].person = None
           \/ /\ rows[i].person # None /\ new[i].person.pid = rows[i].person.pid
              /\ \/ new[i].transferredTo = rows[i].transferredTo
                 \/ new[i].transferredTo # None
           \/ c.type \in Entering /\ i = c.id /\ new[i].person.pid = c.person.pid
           \/ /\ i = a /\ b \in DOMAIN rows /\ rows[b].transferredTo = None
              /\ rows[b].person # None /\ new[i].person.pid = rows[b].person.pid
              /\ new[b].person = None \/ new[b].transferredTo # None

\* A command of one registration.
LEMMA SinglePersons ==
    ASSUME NEW c \in Command, c.type \in Single, Carries(c), NEW r \in Registration, AllowsSingle(r, c)
    PROVE  LET s == AfterSingle(r, c)
           IN  /\ Free(r) => Free(s)
               /\ \/ s.person = None
                  \/ /\ r.person # None /\ s.person.pid = r.person.pid
                     /\ s.transferredTo = r.transferredTo
                  \/ c.type \in Entering /\ s.person.pid = c.person.pid
<1> DEFINE s == AfterSingle(r, c)
<1>1. CASE c.type = "create_registration"
  <2>1. s = [r EXCEPT !.person = c.person, !.bib = c.bib, !.issued = c.flag] /\ r.reserve = FALSE
    BY <1>1 DEF AfterSingle, AllowsSingle, IsVirtual, Empty
  <2> QED BY <1>1, <2>1 DEF Registration, Free, Entering
<1>2. CASE c.type = "assign_number"
  <2>1. s = [r EXCEPT !.bib = c.bib, !.issued = c.flag] /\ ~r.reserve
    BY <1>2 DEF AfterSingle, AllowsSingle, Assigned
  <2> QED BY <2>1 DEF Registration, Free
<1>3. CASE c.type = "clear_number"
  <2>1. s = [r EXCEPT !.bib = None, !.epc = None, !.issued = FALSE] /\ ~r.reserve
    BY <1>3 DEF AfterSingle, AllowsSingle, Assigned
  <2> QED BY <2>1 DEF Registration, Free
<1>4. CASE c.type = "unassign_number"
  <2>1. s = [r EXCEPT !.bib = None, !.issued = FALSE] /\ ~r.reserve
    BY <1>4 DEF AfterSingle, AllowsSingle, Assigned
  <2> QED BY <2>1 DEF Registration, Free
<1>5. CASE c.type = "issue"
  <2>1. s = [r EXCEPT !.issued = TRUE] /\ ~r.reserve
    BY <1>5 DEF AfterSingle, AllowsSingle, Assigned
  <2> QED BY <2>1 DEF Registration, Free
<1>6. CASE c.type = "undo_issue"
  <2>1. s = [r EXCEPT !.issued = FALSE]
    BY <1>6 DEF AfterSingle
  <2> QED BY <2>1 DEF Registration, Free
<1>7. CASE c.type = "set_dns"
  <2>1. s = [r EXCEPT !.status = IF c.flag THEN "dns" ELSE "registered"]
    BY <1>7 DEF AfterSingle
  <2> QED BY <2>1 DEF Registration, Free
<1>8. CASE c.type = "release_to_reserve"
  <2>1. s = [Vacated(r) EXCEPT !.reserve = TRUE]
    BY <1>8 DEF AfterSingle
  <2> QED BY <2>1 DEF Vacated, Registration, Free
<1>9. CASE c.type = "edit_person"
  <2>1. s = [r EXCEPT !.person = Edited(r.person, c)] /\ ~r.reserve /\ r.person # None
    BY <1>9 DEF AfterSingle, AllowsSingle, Assigned
  <2>2. r.person \in Person /\ c.person \in Person
    BY <1>9, <2>1 DEF Registration, Maybe, Carries
  <2>3. Edited(r.person, c).pid = r.person.pid
    BY <2>2, EditedType
  <2> QED BY <2>1, <2>3 DEF Registration, Free
<1>10. CASE c.type = "change_race"
  <2>1. s = [r EXCEPT !.race = c.race]
    BY <1>10 DEF AfterSingle
  <2> QED BY <2>1 DEF Registration, Free
<1>11. CASE c.type = "replace_person"
  <2>1. s = [r EXCEPT !.person = c.person, !.reserve = FALSE, !.issued = c.flag,
                      !.status = "registered"]
    BY <1>11 DEF AfterSingle
  <2> QED BY <1>11, <2>1 DEF Registration, Free, Entering
<1> QED
  BY <1>1, <1>2, <1>3, <1>4, <1>5, <1>6, <1>7, <1>8, <1>9, <1>10, <1>11 DEF Single

\* A move: the person goes from the source to a slot that was nobody's.
LEMMA MovePersons ==
    ASSUME NEW c \in Command, c.type \in Moving, Carries(c), NEW s \in Registration,
           NEW t \in Registration, AllowsPair(s, t, c), Valid(t)
    PROVE  /\ ~s.reserve /\ s.person # None /\ s.transferredTo = None
           /\ t.person = None /\ ~t.issued /\ t.transferredTo = None
           /\ AfterTarget(s, t, c).person = s.person /\ AfterTarget(s, t, c).transferredTo = None
           /\ AfterTarget(s, t, c).reserve = FALSE
           /\ Free(AfterSource(s, c))
           /\ \/ AfterSource(s, c).person = None
              \/ AfterSource(s, c).transferredTo # None /\ AfterSource(s, c).person = s.person
<1>1. /\ ~s.reserve /\ s.person # None /\ s.transferredTo = None /\ c.target \in Id
      /\ t.person = None /\ ~t.issued /\ t.transferredTo = None /\ c.type # "return_to_reserve"
  BY DEF AllowsPair, Editable, Assigned, Available, Valid, Moving, Carries, Single
<1>2. AfterTarget(s, t, c) = [t EXCEPT !.person = s.person, !.reserve = FALSE, !.issued = c.flag]
  BY <1>1 DEF AfterTarget
<1>3. c.target # None
  BY <1>1, TransitionsAssumption
<1>4. CASE c.type = "move_race"
  <2>1. AfterSource(s, c) = [s EXCEPT !.status = "dns", !.transferredTo = c.target]
    BY <1>4 DEF AfterSource
  <2> QED BY <1>1, <1>2, <1>3, <2>1 DEF Registration, Free
<1>5. CASE c.type = "move_to_reserve"
  <2>1. AfterSource(s, c) = [Vacated(s) EXCEPT !.reserve = TRUE]
    BY <1>5 DEF AfterSource
  <2> QED BY <1>1, <1>2, <2>1 DEF Vacated, Registration, Free
<1>6. CASE c.type = "assign_reserve"
  <2>1. AfterSource(s, c) = [Vacated(s) EXCEPT !.reserve = c.returnSource,
                                !.bib = IF c.returnSource THEN Vacated(s).bib ELSE None,
                                !.epc = IF c.returnSource THEN Vacated(s).epc ELSE None]
    BY <1>6 DEF AfterSource
  <2>2. /\ AfterSource(s, c).person = None /\ AfterSource(s, c).issued = FALSE
        /\ AfterSource(s, c).transferredTo = None
    BY <2>1 DEF Vacated, Registration
  <2> QED BY <1>1, <1>2, <2>2 DEF Registration, Free
<1> QED
  BY <1>4, <1>5, <1>6 DEF Moving

\* Any command (Apply).
LEMMA EffectPersons ==
    ASSUME NEW c \in Command, Carries(c), NEW rows, DOMAIN rows = Rows(c),
           \A i \in Rows(c) : rows[i] \in Registration, Allows(rows, c),
           c.type \in Single \cup Moving \cup {"return_to_reserve"}
    PROVE  PersonsMoved(rows, Effect(rows, c), c, c.target, c.id)
<1> DEFINE new == Effect(rows, c)
<1>1. CASE c.type \in Single
  <2>1. Rows(c) = {c.id} /\ AllowsSingle(rows[c.id], c) /\ rows[c.id] \in Registration
    BY <1>1 DEF Rows, Allows
  <2>2. new[c.id] = AfterSingle(rows[c.id], c)
    BY <1>1, <2>1 DEF Effect
  <2> HIDE DEF new
  <2>3. /\ Free(rows[c.id]) => Free(new[c.id])
        /\ \/ new[c.id].person = None
           \/ /\ rows[c.id].person # None /\ new[c.id].person.pid = rows[c.id].person.pid
              /\ new[c.id].transferredTo = rows[c.id].transferredTo
           \/ c.type \in Entering /\ new[c.id].person.pid = c.person.pid
    BY <1>1, <2>1, <2>2, SinglePersons
  <2>4. PersonsMoved(rows, new, c, c.target, c.id)
    BY <2>1, <2>3 DEF PersonsMoved
  <2> QED BY <2>4 DEF new
<1>2. CASE c.type \notin Single
  <2>1. /\ Rows(c) = {c.id, c.target} /\ c.id # c.target
        /\ AllowsPair(rows[c.id], rows[c.target], c) /\ Valid(rows[c.target])
        /\ rows[c.id] \in Registration /\ rows[c.target] \in Registration
    BY <1>2 DEF Rows, Allows, AllowsPair
  <2>2. /\ new[c.id] = AfterSource(rows[c.id], c)
        /\ new[c.target] = AfterTarget(rows[c.id], rows[c.target], c)
    BY <1>2, <2>1 DEF Effect
  <2> HIDE DEF new
  <2>3. CASE c.type \in Moving
    <3>1. /\ rows[c.id].person # None /\ rows[c.id].transferredTo = None
          /\ new[c.target].person = rows[c.id].person /\ new[c.target].reserve = FALSE
          /\ Free(new[c.id])
          /\ \/ new[c.id].person = None
             \/ new[c.id].transferredTo # None /\ new[c.id].person = rows[c.id].person
      <4>1. PICK s : s = rows[c.id]
        OBVIOUS
      <4>2. PICK t : t = rows[c.target]
        OBVIOUS
      <4>3. /\ s.person # None /\ s.transferredTo = None
            /\ AfterTarget(s, t, c).person = s.person /\ AfterTarget(s, t, c).reserve = FALSE
            /\ Free(AfterSource(s, c))
            /\ \/ AfterSource(s, c).person = None
               \/ AfterSource(s, c).transferredTo # None /\ AfterSource(s, c).person = s.person
        BY <2>1, <2>3, <4>1, <4>2, MovePersons
      <4> QED BY <2>2, <4>1, <4>2, <4>3
    <3>2. PersonsMoved(rows, new, c, c.target, c.id)
      BY <2>1, <3>1 DEF PersonsMoved, Free
    <3> QED BY <3>2 DEF new
  <2>4. CASE c.type = "return_to_reserve"
    <3>1. new[c.id] = [rows[c.id] EXCEPT !.bib = None, !.epc = None, !.issued = FALSE]
      BY <2>2, <2>4 DEF AfterSource
    <3>2. new[c.target] = [rows[c.target] EXCEPT !.bib = c.bib, !.epc = rows[c.id].epc, !.reserve = TRUE]
      BY <2>2, <2>4 DEF AfterTarget
    <3>3. /\ rows[c.target].person = None /\ rows[c.target].issued = FALSE
          /\ rows[c.target].transferredTo = None /\ ~rows[c.id].reserve
      BY <2>1, <2>4 DEF AllowsPair, Assigned, IsVirtual, Empty, Moving
    <3>4. /\ new[c.id].person = rows[c.id].person /\ new[c.id].reserve = rows[c.id].reserve
          /\ new[c.id].transferredTo = rows[c.id].transferredTo
          /\ new[c.target].person = None /\ new[c.target].issued = FALSE
          /\ new[c.target].transferredTo = None
      BY <2>1, <3>1, <3>2, <3>3 DEF Registration
    <3>5. PersonsMoved(rows, new, c, c.target, c.id)
      BY <2>1, <3>3, <3>4 DEF PersonsMoved, Free
    <3> QED BY <3>5 DEF new
  <2> QED BY <1>2, <2>3, <2>4
<1> QED
  BY <1>1, <1>2

\* A correction (ReverseMove): the person goes back, and the slot is nobody's again.
LEMMA ReversedPersons ==
    ASSUME OpInv, NEW o \in Op, op[o] # None, op[o].cmd.type \in Moving, NEW rows, NEW c,
           Reversible(rows, op[o]), DOMAIN rows = {op[o].cmd.id, op[o].cmd.target}
    PROVE  PersonsMoved(rows, op[o].before, c, op[o].cmd.id, op[o].cmd.target)
<1>1. PICK q : q = op[o]
  OBVIOUS
<1>2. PICK d : d = Replayed(q)
  OBVIOUS
<1>3. PICK x : x = q.cmd.id
  OBVIOUS
<1>4. PICK y : y = q.cmd.target
  OBVIOUS
<1>5. /\ q.cmd \in Command /\ Carries(q.cmd) /\ Rows(q.cmd) = {x, y} /\ DOMAIN q.before = {x, y}
      /\ DOMAIN q.after = {x, y} /\ x \in Id /\ y \in Id
      /\ \A i \in {x, y} : q.before[i] \in Registration /\ q.after[i] \in Registration
  BY <1>1, <1>3, <1>4 DEF OpInv, Carries, Rows, Moving, Single
<1>6. /\ MovedAs(q) # None /\ Allows(q.before, d) /\ Effect(q.before, d) = q.after
      /\ \A i \in DOMAIN q.after : rows[i] = q.after[i]
  BY <1>1, <1>2, Zenon DEF Reversible
<1>7. MovedAs(q) \in Moving
  BY <1>6 DEF MovedAs, Moving
<1>8. d \in Command /\ Carries(d) /\ d.type \in Moving /\ d.id = x /\ d.target = y
  <2>1. PICK f : f = q.after[y].issued
    OBVIOUS
  <2>2. d = [Blank(MovedAs(q), x) EXCEPT !.target = y, !.flag = f]
    BY <1>2, <1>3, <1>4, <2>1 DEF Replayed
  <2>3. f \in BOOLEAN
    BY <1>5, <2>1 DEF Registration
  <2>4. PICK m : m = MovedAs(q)
    OBVIOUS
  <2> QED BY <1>5, <1>7, <2>2, <2>3, <2>4 DEF Blank, Command, Carries, Types, Maybe, Moving, Single, Creating
<1>9. PICK s : s = q.before[x]
  OBVIOUS
<1>10. PICK t : t = q.before[y]
  OBVIOUS
<1>11. d.type \notin Single /\ AllowsPair(s, t, d) /\ Valid(t) /\ x # y
  BY <1>5, <1>6, <1>8, <1>9, <1>10 DEF Allows, AllowsPair, Moving, Single
<1>12. rows[x] = AfterSource(s, d) /\ rows[y] = AfterTarget(s, t, d)
  BY <1>5, <1>6, <1>8, <1>9, <1>10, <1>11 DEF Effect
<1>13. /\ ~s.reserve /\ s.person # None /\ s.transferredTo = None
       /\ t.person = None /\ ~t.issued /\ t.transferredTo = None
       /\ rows[y].person = s.person /\ rows[y].transferredTo = None
  <2>1. s \in Registration /\ t \in Registration /\ d \in Command /\ Carries(d) /\ d.type \in Moving
    BY <1>5, <1>8, <1>9, <1>10
  <2>2. /\ ~s.reserve /\ s.person # None /\ s.transferredTo = None
        /\ t.person = None /\ ~t.issued /\ t.transferredTo = None
        /\ AfterTarget(s, t, d).person = s.person /\ AfterTarget(s, t, d).transferredTo = None
    BY <1>11, <2>1, MovePersons
  <2> QED BY <1>12, <2>2
<1>14. PersonsMoved(rows, q.before, c, x, y)
  BY <1>1, <1>3, <1>4, <1>9, <1>10, <1>11, <1>13 DEF PersonsMoved, Free
<1> QED
  BY <1>1, <1>3, <1>4, <1>14

\* The rows `rows`, as the Desk has them or of registrations that do not exist, become `new`.
Rewritten(rows, new, q) ==
    /\ DOMAIN rows \subseteq Id
    /\ \A i \in DOMAIN rows :
          /\ new[i] \in Registration /\ proj'[i] = Stored(new[i], {q})
          /\ \/ Live(i) /\ rows[i] = Current(i)
             \/ ~Found(i) /\ rows[i] = Empty(rows[i].race)
    /\ \A i \in Id \ DOMAIN rows : proj'[i] = proj[i]

Somewhere(p) == \E j \in Id : Found(j) /\ proj[j].value.person # None /\ proj[j].value.person.pid = p

\* Then no person gets a second place, no slot a person, and a person who was nowhere is the one
\* the command brings.
LEMMA PlacesStep ==
    ASSUME StateInv, NEW rows, NEW new, NEW c, NEW a, NEW b, NEW q \in Op,
           Rewritten(rows, new, q), PersonsMoved(rows, new, c, a, b),
           c.type \in Entering => ~Somewhere(c.person.pid)
    PROVE  /\ OnePlace /\ SlotsFree => OnePlace' /\ SlotsFree'
           /\ \A i \in Id : Found(i)' /\ proj'[i].value.person # None =>
                 \/ Somewhere(proj'[i].value.person.pid)
                 \/ c.type \in Entering /\ proj'[i].value.person.pid = c.person.pid
<1>1. ASSUME NEW i \in DOMAIN rows PROVE i \in Id /\ Live(i)' /\ proj'[i].value = new[i]
  <2>1. new[i] \in Registration /\ proj'[i] = Stored(new[i], {q}) /\ {q} \in SUBSET Action
    BY DEF Rewritten, Action
  <2>2. PICK x : x = Stored(new[i], {q})
    OBVIOUS
  <2>3. x # None /\ x.value = new[i] /\ x.deleted = FALSE /\ proj'[i] = x
    BY <2>1, <2>2, StoredRow
  <2> QED BY <2>3 DEF Live, Found, Rewritten
<1>2. ASSUME NEW i \in DOMAIN rows, rows[i].person # None
      PROVE  /\ Live(i) /\ proj[i].value.person = rows[i].person
             /\ proj[i].value.transferredTo = rows[i].transferredTo
  <2>1. Live(i) /\ rows[i] = Current(i) /\ i \in Id
    BY <1>2 DEF Rewritten, Empty
  <2> QED BY <2>1, CurrentType DEF SameKept, Live
<1>3. ASSUME NEW i \in DOMAIN rows, SlotsFree PROVE Free(new[i])
  <2>1. Free(rows[i])
    <3>1. CASE Live(i) /\ rows[i] = Current(i) /\ i \in Id
      BY <1>3, <3>1, CurrentType DEF SlotsFree, Free, SameKept, Live
    <3>2. CASE rows[i] = Empty(rows[i].race)
      <4>1. PICK x : x = rows[i].race
        OBVIOUS
      <4> QED BY <3>2, <4>1 DEF Empty, Free
    <3> QED BY <3>1, <3>2 DEF Rewritten
  <2> QED BY <2>1 DEF PersonsMoved
<1>4. ASSUME NEW i \in Id \ DOMAIN rows PROVE proj'[i] = proj[i] /\ (Live(i)' <=> Live(i)) /\ (Found(i)' <=> Found(i))
  BY DEF Rewritten, Live, Found
<1>5. SlotsFree => SlotsFree'
  BY <1>1, <1>3, <1>4 DEF SlotsFree, Free
<1>6. ASSUME NEW i \in DOMAIN rows, NEW p, new[i].person # None, new[i].person.pid = p
      PROVE  \/ /\ Live(i) /\ proj[i].value.person # None /\ proj[i].value.person.pid = p
                /\ new[i].transferredTo = None => proj[i].value.transferredTo = None
             \/ c.type \in Entering /\ i = c.id /\ p = c.person.pid
             \/ /\ i = a /\ b \in DOMAIN rows /\ b \in Places(p)
                /\ new[b].person = None \/ new[b].transferredTo # None
  <2>1. \/ /\ rows[i].person # None /\ new[i].person.pid = rows[i].person.pid
           /\ new[i].transferredTo = rows[i].transferredTo \/ new[i].transferredTo # None
        \/ c.type \in Entering /\ i = c.id /\ new[i].person.pid = c.person.pid
        \/ /\ i = a /\ b \in DOMAIN rows /\ rows[b].transferredTo = None
           /\ rows[b].person # None /\ new[i].person.pid = rows[b].person.pid
           /\ new[b].person = None \/ new[b].transferredTo # None
    BY <1>6 DEF PersonsMoved
  <2> QED BY <1>1, <1>2, <1>6, <2>1 DEF Places
<1>7. ASSUME NEW i \in Id, Found(i)', proj'[i].value.person # None
      PROVE  \/ Somewhere(proj'[i].value.person.pid)
             \/ c.type \in Entering /\ proj'[i].value.person.pid = c.person.pid
  <2>1. CASE i \notin DOMAIN rows
    BY <1>4, <1>7, <2>1 DEF Somewhere
  <2>2. CASE i \in DOMAIN rows
    BY <1>1, <1>6, <1>7, <2>2 DEF Somewhere, Places, Live
  <2> QED BY <2>1, <2>2
<1>8. ASSUME OnePlace, NEW p \in PersonId, NEW i \in Places(p)', NEW j \in Places(p)' PROVE i = j
  <2>1. ASSUME NEW k \in Places(p)'
        PROVE  \/ k \in Places(p)
               \/ c.type \in Entering /\ k = c.id /\ ~\E x \in Places(p) : TRUE
               \/ k = a /\ b \in Places(p) /\ b \notin Places(p)'
    <3>1. /\ k \in Id /\ Live(k)' /\ proj'[k].value.person # None
          /\ proj'[k].value.person.pid = p /\ proj'[k].value.transferredTo = None
      BY DEF Places
    <3>2. CASE k \notin DOMAIN rows
      BY <1>4, <3>1, <3>2 DEF Places
    <3>3. CASE k \in DOMAIN rows
      <4>1. new[k].person # None /\ new[k].person.pid = p /\ new[k].transferredTo = None
        BY <1>1, <3>1, <3>3
      <4>2. CASE /\ Live(k) /\ proj[k].value.person # None /\ proj[k].value.person.pid = p
                 /\ proj[k].value.transferredTo = None
        BY <3>1, <4>2 DEF Places
      <4>3. CASE c.type \in Entering /\ k = c.id /\ p = c.person.pid
        BY <4>3 DEF Places, Somewhere, Live
      <4>4. CASE /\ k = a /\ b \in DOMAIN rows /\ b \in Places(p)
                 /\ new[b].person = None \/ new[b].transferredTo # None
        BY <1>1, <4>4 DEF Places
      <4> QED BY <1>6, <3>3, <4>1, <4>2, <4>3, <4>4
    <3> QED BY <3>2, <3>3
  <2>2. \A x, y \in Places(p) : x = y
    BY <1>8 DEF OnePlace
  <2> HIDE DEF Places
  <2> QED BY <2>1, <2>2
<1>9. OnePlace => OnePlace'
  BY <1>8 DEF OnePlace
<1> QED
  BY <1>5, <1>7, <1>9

\* An operation that may have entered its person: the Desk applied it, found it in place, or
\* decided on its conflict.
Spent(o) == outcome[o] \in Accepted \/ resolved[o] # None

\* A person that an operation brings is nowhere before that operation is applied or decided on.
OnlyConflicts == \A o \in Op : resolved[o] # None => outcome[o] = "conflict"
FreshInv == OnlyConflicts /\ \A o \in Op : Somewhere(o) => Spent(o)

\* What receiving does to the persons (packetMergeDecision, ReverseMove).
LEMMA ReceivedPersons ==
    ASSUME OpInv, StateInv, FeedInv, FreshInv, NEW o \in Op, Receive(o), Decision(o) = "applied"
    PROVE  \E rows, new, c, a, b :
              /\ Rewritten(rows, new, o) /\ PersonsMoved(rows, new, c, a, b)
              /\ c.type \in Entering => c.person.pid = o /\ ~Somewhere(o)
<1>1. Sendable(o) /\ outcome[o] \in {"none", "waiting"}
  BY DEF Receive
<1>2. PICK rows, after : ReceivedAs(o, rows, after)
  BY ReceiveApplied
<1>3. PICK c : c = op[o].cmd
  OBVIOUS
<1>4. /\ c \in Command /\ Carries(c) /\ Corrects(c) /\ Enters(c, o) /\ c.type # "resolve_conflict"
      /\ op[o] # None
  BY <1>1, <1>3 DEF OpInv, Sendable
<1>5. /\ DOMAIN rows = Rows(c) /\ Rows(c) \subseteq Id /\ Derivable(o, rows)
      /\ \A i \in Rows(c) :
            /\ rows[i] \in Registration
            /\ \/ Live(i) /\ rows[i] = Current(i)
               \/ ~Found(i) /\ rows[i] = Empty(rows[i].race)
  BY <1>1, <1>2, <1>3, AppliedRows DEF ReceivedAs, ReceivedRows
<1>6. Rewritten(rows, after, o)
  BY <1>2, <1>5 DEF ReceivedAs, ReceivedRows, Rewritten
<1>7. c.type \in Entering => c.person.pid = o /\ ~Somewhere(o)
  <2>1. ASSUME Spent(o) PROVE resolved[o] # None
    BY <1>1, <2>1 DEF Spent, Accepted
  <2>2. resolved[o] = None
    BY <1>1 DEF FreshInv, OnlyConflicts
  <2> QED BY <1>4, <2>1, <2>2 DEF FreshInv, Enters
<1>8. CASE c.type = "correct_move"
  <2>1. /\ c.ref \in Op /\ op[c.ref] # None /\ op[c.ref].cmd.type \in Moving
        /\ c.id = op[c.ref].cmd.id /\ c.target = op[c.ref].cmd.target
    BY <1>4, <1>8 DEF Corrects
  <2>2. Reversible(rows, op[c.ref]) /\ after = op[c.ref].before
    BY <1>2, <1>3, <1>5, <1>8 DEF Derivable, Derived, ReceivedAs, ReceivedRows
  <2>3. Rows(c) = {c.id, c.target}
    BY <1>8 DEF Rows, Single
  <2>4. PersonsMoved(rows, after, c, op[c.ref].cmd.id, op[c.ref].cmd.target)
    BY <1>5, <2>1, <2>2, <2>3, ReversedPersons
  <2> QED BY <1>6, <1>7, <2>4
<1>9. CASE c.type # "correct_move"
  <2>1. Allows(rows, c) /\ after = Effect(rows, c)
    BY <1>2, <1>3, <1>5, <1>9 DEF Derivable, Derived, ReceivedAs, ReceivedRows
  <2>2. c.type \in Single \cup Moving \cup {"return_to_reserve"}
    BY <1>4, <1>9 DEF Command, Types
  <2>3. PersonsMoved(rows, after, c, c.target, c.id)
    BY <1>4, <1>5, <2>1, <2>2, EffectPersons
  <2> QED BY <1>6, <1>7, <2>3
<1> QED
  BY <1>8, <1>9

\* What a decision in favour of a proposal does to them.
LEMMA DecidedPersons ==
    ASSUME OpInv, StateInv, FreshInv, NEW r \in Op, Resolve(r, TRUE)
    PROVE  \E o, rows, new, c, a, b :
              /\ o \in Op
              /\ outcome[o] = "conflict" /\ resolved[o] = None
              /\ resolved' = [resolved EXCEPT ![o] = r]
              /\ Rewritten(rows, new, r) /\ PersonsMoved(rows, new, c, a, b)
              /\ c.type \in Entering => c.person.pid = o /\ ~Somewhere(o)
<1>1. PICK o, rows, after : o \in Op /\ KeptAs(o, r, rows, after)
  BY KeptProposal
<1>2. PICK c : c = op[o].cmd
  OBVIOUS
<1>3. /\ c \in Command /\ Carries(c) /\ op[o] # None /\ Allows(rows, c) /\ after = Effect(rows, c)
      /\ outcome[o] = "conflict" /\ resolved[o] = None /\ resolved' = [resolved EXCEPT ![o] = r]
      /\ DOMAIN rows = Rows(c) /\ (\A i \in Rows(c) : rows[i] \in Registration) /\ Applicable(o)
  BY <1>1, <1>2 DEF KeptAs
<1>4. c.type \in Single \cup Moving /\ c.type # "resolve_conflict"
  BY <1>2, <1>3 DEF Applicable, Single, Moving
<1>5. Rewritten(rows, after, r)
  BY <1>1 DEF KeptAs, Rewritten
<1>6. PersonsMoved(rows, after, c, c.target, c.id)
  BY <1>3, <1>4, EffectPersons
<1>7. c.type \in Entering => c.person.pid = o /\ ~Somewhere(o)
  <2>1. Enters(c, o)
    BY <1>1, <1>2, <1>3, <1>4 DEF OpInv
  <2>2. ~Spent(o)
    BY <1>3 DEF Spent, Accepted
  <2> QED BY <1>1, <2>1, <2>2 DEF Enters, FreshInv
<1> QED
  BY <1>1, <1>3, <1>5, <1>6, <1>7

\* A person who is nowhere else after a step was nowhere else before it, or is the one a receipt or
\* a decision brings; an operation that has been applied or decided on stays so.
LEMMA FreshStep ==
    ASSUME IInv, FreshInv, [DeskNext]_deskVars
    PROVE  FreshInv' /\ (outcome' # outcome /\ OnePlace /\ SlotsFree => OnePlace' /\ SlotsFree')
<1>1. OpInv /\ StateInv /\ FeedInv /\ OnlyConflicts /\ \A o \in Op : Somewhere(o) => Spent(o)
  BY DEF IInv, FreshInv
<1>2. CASE \E o \in Op : Receive(o)
  <2>1. PICK o \in Op : Receive(o)
    BY <1>2
  <2>2. /\ outcome[o] \in {"none", "waiting"} /\ outcome' = [outcome EXCEPT ![o] = Decision(o)]
        /\ resolved' = resolved
    BY <2>1 DEF Receive
  <2>3. OnlyConflicts' /\ \A q \in Op : Spent(q) => Spent(q)'
    BY <1>1, <2>2 DEF OnlyConflicts, Spent, Accepted, StateInv
  <2>4. CASE Decision(o) # "applied"
    <3>1. proj' = proj
      BY <2>1, <2>4, Zenon DEF Receive
    <3>2. \A q : Somewhere(q)' <=> Somewhere(q)
      BY <3>1 DEF Somewhere, Found
    <3>3. OnePlace /\ SlotsFree => OnePlace' /\ SlotsFree'
      BY <3>1 DEF OnePlace, SlotsFree, Places, Live, Found
    <3> QED BY <1>1, <2>3, <3>2, <3>3 DEF FreshInv
  <2>5. CASE Decision(o) = "applied"
    <3>1. PICK rows, new, c, a, b :
              /\ Rewritten(rows, new, o) /\ PersonsMoved(rows, new, c, a, b)
              /\ c.type \in Entering => c.person.pid = o /\ ~Somewhere(o)
      BY <1>1, <2>1, <2>5, ReceivedPersons
    <3>2. /\ OnePlace /\ SlotsFree => OnePlace' /\ SlotsFree'
          /\ \A i \in Id : Found(i)' /\ proj'[i].value.person # None =>
                \/ Somewhere(proj'[i].value.person.pid)
                \/ c.type \in Entering /\ proj'[i].value.person.pid = c.person.pid
      BY <1>1, <3>1, PlacesStep
    <3>3. Spent(o)'
      BY <1>1, <2>2, <2>5 DEF Spent, Accepted, StateInv
    <3>4. ASSUME NEW q \in Op, Somewhere(q)' PROVE Spent(q)'
      <4>1. PICK i \in Id : Found(i)' /\ proj'[i].value.person # None /\ proj'[i].value.person.pid = q
        BY <3>4 DEF Somewhere
      <4>2. Somewhere(q) \/ q = o
        BY <3>1, <3>2, <4>1
      <4> QED BY <1>1, <2>3, <3>3, <4>2
    <3> QED BY <2>3, <3>2, <3>4 DEF FreshInv
  <2> QED BY <2>4, <2>5
<1>3. CASE \E r \in Op : Resolve(r, TRUE)
  <2>1. PICK r \in Op : Resolve(r, TRUE)
    BY <1>3
  <2>2. PICK o, rows, new, c, a, b :
              /\ o \in Op
              /\ outcome[o] = "conflict" /\ resolved[o] = None
              /\ resolved' = [resolved EXCEPT ![o] = r]
              /\ Rewritten(rows, new, r) /\ PersonsMoved(rows, new, c, a, b)
              /\ c.type \in Entering => c.person.pid = o /\ ~Somewhere(o)
    BY <1>1, <2>1, DecidedPersons
  <2>3. op[r] = None /\ outcome' = [outcome EXCEPT ![r] = "applied"]
    BY <2>1 DEF Resolve, Decide
  <2>4. OnlyConflicts' /\ \A q \in Op : Spent(q) => Spent(q)'
    BY <1>1, <2>2, <2>3, DeskAssumption DEF OnlyConflicts, Spent, Accepted, StateInv
  <2>5. /\ OnePlace /\ SlotsFree => OnePlace' /\ SlotsFree'
        /\ \A i \in Id : Found(i)' /\ proj'[i].value.person # None =>
              \/ Somewhere(proj'[i].value.person.pid)
              \/ c.type \in Entering /\ proj'[i].value.person.pid = c.person.pid
    BY <1>1, <2>2, PlacesStep
  <2>6. Spent(o)'
    BY <1>1, <2>2, DeskAssumption DEF Spent, StateInv
  <2>7. ASSUME NEW q \in Op, Somewhere(q)' PROVE Spent(q)'
    <3>1. PICK i \in Id : Found(i)' /\ proj'[i].value.person # None /\ proj'[i].value.person.pid = q
      BY <2>7 DEF Somewhere
    <3>2. Somewhere(q) \/ q = o
      BY <2>2, <2>5, <3>1
    <3> QED BY <1>1, <2>4, <2>6, <3>2
  <2> QED BY <2>4, <2>5, <2>7 DEF FreshInv
<1>4. CASE \E r \in Op : Resolve(r, FALSE)
  <2>1. PICK r \in Op : Resolve(r, FALSE)
    BY <1>4
  <2>2. Decide(shown.op, r, FALSE, shown)
    BY <2>1 DEF Resolve
  <2>3. proj' = proj
    BY <2>2, Zenon DEF Decide
  <2>4. /\ op[r] = None /\ outcome' = [outcome EXCEPT ![r] = "applied"]
        /\ outcome[shown.op] = "conflict" /\ resolved' = [resolved EXCEPT ![shown.op] = r]
    BY <2>2 DEF Decide, Conflicts
  <2>5. OnlyConflicts' /\ \A q \in Op : Spent(q) => Spent(q)'
    BY <1>1, <2>4, DeskAssumption DEF OnlyConflicts, Spent, Accepted, StateInv
  <2>6. \A q : Somewhere(q)' <=> Somewhere(q)
    BY <2>3 DEF Somewhere, Found
  <2>7. OnePlace /\ SlotsFree => OnePlace' /\ SlotsFree'
    BY <2>3 DEF OnePlace, SlotsFree, Places, Live, Found
  <2> QED BY <1>1, <2>5, <2>6, <2>7 DEF FreshInv
<1>5. CASE \E e \in Edit, i \in Id : DeskEdit(e, i)
  <2>1. PICK e \in Edit, i \in Id : DeskEdit(e, i)
    BY <1>5
  <2>2. PICK after \in EditedRows(i, Current(i)) : proj' = [proj EXCEPT ![i] = Stored(after, proj[i].heads \cup {e})]
    BY <2>1 DEF DeskEdit
  <2>3. outcome' = outcome /\ resolved' = resolved /\ Found(i)
    BY <2>1 DEF DeskEdit, Live
  <2>4. Current(i) \in Registration /\ Current(i).person = proj[i].value.person
    BY <1>1, <2>3, CurrentType DEF SameKept
  <2>5. \/ after.person = None \/ after.person.pid = i
        \/ Current(i).person # None /\ after.person.pid = Current(i).person.pid
    BY <2>4, EditedRowType
  <2>6. proj'[i].value = after /\ \A j \in Id : j # i => proj'[j] = proj[j]
    BY <1>1, <2>2 DEF StateInv, Stored
  <2>7. ASSUME NEW q \in Op, Somewhere(q)' PROVE Somewhere(q)
    <3>1. PICK j \in Id : Found(j)' /\ proj'[j].value.person # None /\ proj'[j].value.person.pid = q
      BY <2>7 DEF Somewhere
    <3>2. CASE j = i
      <4>1. i # q
        BY DeskAssumption
      <4> QED BY <2>3, <2>4, <2>5, <2>6, <3>1, <3>2, <4>1 DEF Somewhere
    <3>3. CASE j # i
      BY <2>6, <3>1, <3>3 DEF Somewhere, Found
    <3> QED BY <3>2, <3>3
  <2> QED BY <1>1, <2>3, <2>7 DEF FreshInv, OnlyConflicts, Spent
<1>6. CASE UNCHANGED <<proj, outcome, resolved>>
  BY <1>1, <1>6 DEF FreshInv, OnlyConflicts, Spent, Somewhere, Found
<1>7. ASSUME NEW r \in Op, NEW keep \in BOOLEAN, Resolve(r, keep)
      PROVE  Resolve(r, TRUE) \/ Resolve(r, FALSE)
  BY <1>7
<1>8. \/ \E o \in Op : Receive(o)
      \/ \E r \in Op : Resolve(r, TRUE)
      \/ \E r \in Op : Resolve(r, FALSE)
      \/ \E e \in Edit, i \in Id : DeskEdit(e, i)
      \/ UNCHANGED <<proj, outcome, resolved>>
  <2>1. ASSUME \E o \in Op : Create(o) \/ Show(o) PROVE UNCHANGED <<proj, outcome, resolved>>
    BY <2>1 DEF Create, Show
  <2>2. ASSUME \/ \E x \in Timed : Pass(x)
               \/ \E n \in 1 .. Len(feed) : Compact(n)
               \/ UNCHANGED deskVars
        PROVE  UNCHANGED <<proj, outcome, resolved>>
    BY <2>2 DEF Pass, Compact, deskVars
  <2> QED BY <1>7, <2>1, <2>2 DEF DeskNext
<1> QED
  BY <1>2, <1>3, <1>4, <1>5, <1>6, <1>8

\* Receiving or deciding enters no person twice and leaves nobody in a reserve slot, for any roster
\* and any operations in any order (packetMergeDecision applies the command to the rows as they are).
THEOREM PersonsPlacedOnce == DeskSpec => PlacedOnce
<1>1. DeskInit => IInv /\ FreshInv
  <2> SUFFICES ASSUME DeskInit PROVE FreshInv
    BY InitHolds
  <2>1. OnlyConflicts
    BY DEF DeskInit, OnlyConflicts
  <2>2. ASSUME NEW o \in Op, Somewhere(o) PROVE FALSE
    <3>1. PICK i \in Id : Found(i) /\ proj[i].value.person # None /\ proj[i].value.person.pid = o
      BY <2>2 DEF Somewhere
    <3>2. InitRoster[i] # None /\ proj[i].value = InitRoster[i]
      BY <3>1 DEF DeskInit, Found, Stored
    <3> QED BY <3>1, <3>2, DeskAssumption
  <2> QED BY <2>1, <2>2 DEF FreshInv
<1>2. IInv /\ FreshInv /\ [DeskNext]_deskVars
      => /\ IInv' /\ FreshInv'
         /\ [outcome' # outcome /\ OnePlace /\ SlotsFree => OnePlace' /\ SlotsFree']_deskVars
  BY StepHolds, FreshStep
<1> QED
  BY <1>1, <1>2, PTL DEF DeskSpec, PlacedOnce
=============================================================================
