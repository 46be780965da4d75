-------------------------- MODULE PacketTransitions --------------------------
(***************************************************************************)
(* What a packet issuance command does to one or two registrations         *)
(* (packetissuance/transitions.go), and how a change that was made against *)
(* one state of a registration is merged into another                      *)
(* (service/packet_issuance.go, packet_issuance_feed.go and                *)
(* packet_issuance_resolution.go).                                         *)
(*                                                                         *)
(* A registration is kept under its id, and every registration belongs to  *)
(* one event, so ids and the event are left out of the records.  Of a      *)
(* person the model keeps the identity, one text field and whether birth   *)
(* date and gender are given.                                              *)
(***************************************************************************)
EXTENDS Naturals, FiniteSets

CONSTANTS
    Id,        \* registrations
    Minted,    \* those with an id of the form a tablet gives to a new registration
    Race,      \* races of the event
    Bib,       \* start numbers
    Chip,      \* EPC codes
    PersonId,  \* identities of persons
    Text,      \* values of a person's text field
    None       \* the absent value: "", nil

ASSUME TransitionsAssumption ==
    /\ Minted \subseteq Id
    /\ \A S \in {Id, Race, Bib, Chip, PersonId} : None \notin S

Maybe(S) == S \cup {None}

Status == {"registered", "dns", "dnf", "dsq"}

Person == [pid : PersonId, text : Text, complete : BOOLEAN]

Registration ==
    [race : Race, bib : Maybe(Bib), epc : Maybe(Chip), person : Maybe(Person),
     reserve : BOOLEAN, issued : BOOLEAN, status : Status,
     transferredTo : Maybe(Id), evidence : BOOLEAN]

\* ValidateRegistration: what every receiver asks of a registration
Valid(r) == r.reserve => r.person = None

\* EmptyRegistration, EmptyReserve: the image of a registration that does not exist yet
Empty(race) ==
    [race |-> race, bib |-> None, epc |-> None, person |-> None, reserve |-> FALSE,
     issued |-> FALSE, status |-> "registered", transferredTo |-> None, evidence |-> FALSE]

IsVirtual(i, r) == i \in Minted /\ r = Empty(r.race)

(***************************************************************************)
(* Commands.  A field a command does not carry is None, FALSE or {}.       *)
(***************************************************************************)
Creating == {"create_registration", "return_to_reserve"}
Numbering == {"assign_number", "create_registration"}
Moving == {"move_race", "move_to_reserve", "assign_reserve"}
Single == {"assign_number", "create_registration", "clear_number", "unassign_number", "issue",
           "undo_issue", "set_dns", "release_to_reserve", "edit_person", "change_race",
           "replace_person"}

Blank(type, id) ==
    [type |-> type, id |-> id, target |-> None, bib |-> None, race |-> None, person |-> None,
     fields |-> {}, flag |-> FALSE, returnSource |-> FALSE, ref |-> None]

\* The registrations a command is about.
Rows(c) == IF c.type \in Single THEN {c.id} ELSE {c.id, c.target}

Editable(r) ==
    /\ ~r.evidence
    /\ r.status \in {"registered", "dns"}
    /\ r.transferredTo = None

Assigned(r) == ~r.reserve /\ r.person # None

Available(r) ==
    /\ r.reserve /\ ~r.issued /\ ~r.evidence
    /\ r.status = "registered" /\ r.transferredTo = None

\* Apply: the conditions under which a command of one registration is not refused
AllowsSingle(r, c) ==
    CASE c.type = "create_registration" ->
            /\ Editable(r) /\ IsVirtual(c.id, r) /\ r.race = c.race
            /\ c.person # None /\ (c.bib = None => ~c.flag)
      [] c.type = "assign_number" ->
            Editable(r) /\ Assigned(r) /\ r.bib = None /\ ~r.issued /\ c.bib # None
      [] c.type \in {"clear_number", "unassign_number", "set_dns", "edit_person"} ->
            Editable(r) /\ Assigned(r)
      [] c.type = "issue" -> Assigned(r)
      [] c.type = "undo_issue" -> TRUE
      [] c.type = "release_to_reserve" ->
            ~r.evidence /\ r.status \in {"registered", "dns"} /\ Assigned(r)
      [] c.type = "change_race" ->
            /\ Editable(r) /\ Assigned(r)
            /\ r.bib = None /\ r.epc = None /\ ~r.issued /\ c.race # r.race
      [] c.type = "replace_person" ->
            /\ Editable(r) /\ c.person # None
            /\ r.person # None => r.person.pid # c.person.pid

\* Mutant: the packet stays handed out.
Vacated_Issued(r) ==
    [r EXCEPT !.person = None, !.status = "registered", !.transferredTo = None]

\* A slot without a person, as a release or a move leaves it.
Vacated(r) ==
    [r EXCEPT !.person = None, !.issued = FALSE, !.status = "registered", !.transferredTo = None]

Edited(p, c) ==
    [p EXCEPT !.text = IF "text" \in c.fields THEN c.person.text ELSE @,
              !.complete = IF "complete" \in c.fields THEN c.person.complete ELSE @]

\* Apply: what a command of one registration does
AfterSingle(r, c) ==
    CASE c.type = "create_registration" ->
            [r EXCEPT !.person = c.person, !.bib = c.bib, !.issued = c.flag]
      [] c.type = "assign_number" -> [r EXCEPT !.bib = c.bib, !.issued = c.flag]
      [] c.type = "clear_number" -> [r EXCEPT !.bib = None, !.epc = None, !.issued = FALSE]
      [] c.type = "unassign_number" -> [r EXCEPT !.bib = None, !.issued = FALSE]
      [] c.type = "issue" -> [r EXCEPT !.issued = TRUE]
      [] c.type = "undo_issue" -> [r EXCEPT !.issued = FALSE]
      [] c.type = "set_dns" -> [r EXCEPT !.status = IF c.flag THEN "dns" ELSE "registered"]
      [] c.type = "release_to_reserve" -> [Vacated(r) EXCEPT !.reserve = TRUE]
      [] c.type = "edit_person" -> [r EXCEPT !.person = Edited(@, c)]
      [] c.type = "change_race" -> [r EXCEPT !.race = c.race]
      [] c.type = "replace_person" ->
            [r EXCEPT !.person = c.person, !.reserve = FALSE, !.issued = c.flag,
                      !.status = "registered"]

\* Apply: return_to_reserve and the three moves, from source s to target t
AllowsPair(s, t, c) ==
    /\ Editable(s) /\ Assigned(s) /\ c.id # c.target
    /\ \/ /\ c.type = "return_to_reserve"
          /\ c.bib # None
          /\ s.bib = c.bib \/ (s.bib = None /\ s.epc # None)
          /\ IsVirtual(c.target, t) /\ t.race = c.race
       \/ /\ c.type \in Moving
          /\ Available(t)
          /\ c.type = "move_race" => t.race # s.race
          /\ c.type = "assign_reserve" => t.bib # None /\ (c.returnSource => s.bib # None)

AfterSource(s, c) ==
    CASE c.type = "return_to_reserve" -> [s EXCEPT !.bib = None, !.epc = None, !.issued = FALSE]
      [] c.type = "move_race" -> [s EXCEPT !.status = "dns", !.transferredTo = c.target]
      [] c.type = "move_to_reserve" -> [Vacated(s) EXCEPT !.reserve = TRUE]
      [] c.type = "assign_reserve" ->
            [Vacated(s) EXCEPT !.reserve = c.returnSource,
                               !.bib = IF c.returnSource THEN @ ELSE None,
                               !.epc = IF c.returnSource THEN @ ELSE None]

AfterTarget(s, t, c) ==
    IF c.type = "return_to_reserve"
    THEN [t EXCEPT !.bib = c.bib, !.epc = s.epc, !.reserve = TRUE]
    ELSE [t EXCEPT !.person = s.person, !.reserve = FALSE, !.issued = c.flag]

\* Apply is given the rows of the command only: that a number is free in the event is
\* checked by the receiver.
Allows(rows, c) ==
    /\ \A i \in DOMAIN rows : Valid(rows[i])
    /\ IF c.type \in Single THEN AllowsSingle(rows[c.id], c)
       ELSE AllowsPair(rows[c.id], rows[c.target], c)

Effect(rows, c) ==
    [i \in DOMAIN rows |->
        IF c.type \in Single THEN AfterSingle(rows[i], c)
        ELSE IF i = c.id THEN AfterSource(rows[c.id], c)
        ELSE AfterTarget(rows[c.id], rows[c.target], c)]

(***************************************************************************)
(* ReverseMove: a correction undoes the move `o` only if the recorded      *)
(* change is one of the three moves and both rows are still as it left     *)
(* them.                                                                   *)
(***************************************************************************)
MovedAs(o) ==
    LET s == o.after[o.cmd.id] IN
    IF s.person = None /\ ~s.issued /\ s.status = "registered" /\ s.transferredTo = None
    THEN IF s.reserve THEN "move_to_reserve"
         ELSE IF s.bib = None /\ s.epc = None THEN "assign_reserve" ELSE None
    ELSE IF s.transferredTo = o.cmd.target /\ s.status = "dns" /\ ~s.reserve
    THEN "move_race" ELSE None

Replayed(o) ==
    [Blank(MovedAs(o), o.cmd.id) EXCEPT !.target = o.cmd.target,
                                        !.flag = o.after[o.cmd.target].issued]

Reversible(rows, o) ==
    /\ Cardinality(DOMAIN o.after) = 2 /\ o.cmd.type \notin {"correct_move", "resolve_conflict"}
    /\ MovedAs(o) # None /\ o.before[o.cmd.target].reserve
    /\ Allows(o.before, Replayed(o)) /\ Effect(o.before, Replayed(o)) = o.after
    /\ \A i \in DOMAIN o.after :
          /\ ~rows[i].evidence /\ Valid(rows[i]) /\ rows[i] = o.after[i]
          /\ \A f \in {"race", "bib", "epc"} : rows[i][f] = o.before[i][f]

(***************************************************************************)
(* Merging.  Values are compared field by field, and a person likewise     *)
(* where all the compared registrations have one.                          *)
(***************************************************************************)
PersonFields == {"pid", "text", "complete"}
Fields == {"race", "bib", "epc", "person", "reserve", "issued", "status", "transferredTo",
           "evidence"}

Paths(rs) ==
    IF \A r \in rs : r.person # None THEN (Fields \ {"person"}) \cup PersonFields ELSE Fields

At(r, p) == IF p \in PersonFields THEN r.person[p] ELSE r[p]

\* packetCompatible
Compatible(before, after, cur) ==
    \A p \in Paths({before, after, cur}) :
        At(before, p) # At(after, p) => At(cur, p) \in {At(before, p), At(after, p)}

\* packetChangedEqual(before, after, current, after)
Equivalent(before, after, cur) ==
    \A p \in Paths({before, after, cur}) :
        At(before, p) # At(after, p) => At(cur, p) = At(after, p)

\* packetEffectMatches
EffectMatches(before, after, cur, result) ==
    \A p \in Paths({before, after, cur, result}) :
        IF At(before, p) = At(after, p) THEN At(cur, p) = At(result, p)
        ELSE /\ At(result, p) = At(after, p)
             /\ At(cur, p) \in {At(before, p), At(after, p)}

\* mergePacketFeedValue of compatible values, and overlayPacketEffect of any: what changed
\* between before and after, put onto the current value
Overlay(before, after, cur) ==
    LET split == "pid" \in Paths({before, after, cur})
        V(p) == IF At(before, p) = At(after, p) THEN At(cur, p) ELSE At(after, p)
    IN [race |-> V("race"), bib |-> V("bib"), epc |-> V("epc"),
        person |-> IF split
                   THEN [pid |-> V("pid"), text |-> V("text"), complete |-> V("complete")]
                   ELSE V("person"),
        reserve |-> V("reserve"), issued |-> V("issued"), status |-> V("status"),
        transferredTo |-> V("transferredTo"), evidence |-> V("evidence")]

\* packetFeedProjection: feeds do not carry timing evidence
Bare(r) == [r EXCEPT !.evidence = FALSE]
=============================================================================
