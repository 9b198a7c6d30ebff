-------------------------- MODULE SupplierCatalog --------------------------
(***************************************************************************)
(* The catalogue of the supplier service: suppliers and the buildings they *)
(* are in, both deleted softly.  Admins work in the dialogs of the         *)
(* frontend; a request runs as separate statements, without a transaction, *)
(* so that the statements of several requests interleave.  Only the seed   *)
(* task takes a transaction, with both tables locked.                      *)
(*                                                                         *)
(* A building is identified by its name, which is unique for ever.  Of a   *)
(* supplier the model keeps its name, its building and its two times;      *)
(* the other columns behave as the name does, but are never looked up.     *)
(***************************************************************************)
EXTENDS Naturals, FiniteSets

CONSTANTS Admins,       \* open dialogs, each with at most one request
          Names,        \* names of suppliers
          Places,       \* buildings
          MaxSuppliers  \* bound: rows of the table of suppliers

ASSUME BoundAssumption == MaxSuppliers \in Nat

VARIABLES suppliers,  \* the table of suppliers, by id; rows are never removed
          places,     \* the table of buildings
          edited,     \* what was last asked for each field, by the admin who edited it
          dialog      \* the dialog of each admin and the request it sent

vars == <<suppliers, places, edited, dialog>>

Ids == 1..MaxSuppliers
Absent == [name |-> "absent"]
Closed == [pc |-> "closed"]

\* The row of a supplier, as far as a form shows it.  A time is set or it is not.
Listing == [name: Names, at: Places, opens: BOOLEAN, closes: BOOLEAN]
Fields == {"name", "at", "opens", "closes"}
Row(listing, live) == [name |-> listing.name, at |-> listing.at,
                       opens |-> listing.opens, closes |-> listing.closes, live |-> live]
Shown(row) == [f \in Fields |-> row[f]]

Stored == {i \in Ids : suppliers[i] # Absent}
Live == {i \in Stored : suppliers[i].live}

TypeOK ==
  /\ suppliers \in [Ids -> {Absent} \cup {Row(l, b) : l \in Listing, b \in BOOLEAN}]
  /\ places \in [Places -> {"absent", "live", "deleted"}]
  /\ edited \in [Ids -> {Absent} \cup Listing]
  /\ \A a \in Admins : dialog[a].pc \in
       {"closed", "form", "supplier", "place", "name", "write", "users", "building"}

Init ==
  /\ suppliers = [i \in Ids |-> Absent]
  /\ places = [p \in Places |-> "absent"]
  /\ edited = [i \in Ids |-> Absent]
  /\ dialog = [a \in Admins |-> Closed]

--------------------------------------------------------------------------
(* The tables and their constraints. *)

Paired(row) == row.opens = row.closes

\* The check on the pair of times is left to the controller.
AllowedUnpaired(i, row) == \A j \in Stored \ {i} : suppliers[j].name # row.name

\* Names are unique, those of deleted suppliers included, and times come in pairs.
Allowed(i, row) ==
  /\ Paired(row)
  /\ \A j \in Stored \ {i} : suppliers[j].name # row.name

\* UPDATE ... SET: the fields of the patch, whatever else the row holds by now.
Patched(row, patch) == [f \in DOMAIN row |-> IF f \in DOMAIN patch THEN patch[f] ELSE row[f]]

NameTaken(name, except) == \E i \in Stored \ except : suppliers[i].name = name

NextId == CHOOSE i \in Ids \ Stored : \A j \in Ids \ Stored : i <= j

Insert(listing) ==
  /\ suppliers' = [suppliers EXCEPT ![NextId] = Row(listing, TRUE)]
  /\ edited' = [edited EXCEPT ![NextId] = listing]

--------------------------------------------------------------------------
(* The dialogs. *)

Ask(a, request) == dialog' = [dialog EXCEPT ![a] = request]
Answered(a) == Ask(a, Closed)
Goes(a, pc) == Ask(a, [dialog[a] EXCEPT !.pc = pc])
Asks(a, pc, op) == dialog[a].pc = pc /\ dialog[a].op = op

\* The whole form is sent.
AllFields(input, original, moved) == input

\* Only the fields that differ from the supplier the form was opened with.  A closing
\* time that stays set may have been moved.
ChangedFields(input, original, moved) ==
  [f \in {g \in Fields : input[g] # original[g]} \cup moved |-> input[f]]

\* "Add supplier": the form asks for both times or neither.
StartCreate(a, input) ==
  /\ dialog[a] = Closed
  /\ Paired(input)
  /\ Stored # Ids
  /\ Ask(a, [pc |-> "place", op |-> "create", patch |-> input])
  /\ UNCHANGED <<suppliers, places, edited>>

\* "Edit": the form starts from the supplier as the page loaded it.
OpenForm(a, i) ==
  /\ dialog[a] = Closed
  /\ i \in Live
  /\ Ask(a, [pc |-> "form", op |-> "update", id |-> i, original |-> Shown(suppliers[i])])
  /\ UNCHANGED <<suppliers, places, edited>>

\* "Save" sends what was edited; when nothing was, the dialog just closes.
Save(a, input, moved) ==
  /\ Asks(a, "form", "update")
  /\ Paired(input)
  /\ moved # {} => input.opens /\ dialog[a].original.opens
  /\ IF input = dialog[a].original /\ moved = {}
     THEN Answered(a)
     ELSE Ask(a, [pc |-> "supplier", op |-> "update", id |-> dialog[a].id,
                  asked |-> {f \in Fields : input[f] # dialog[a].original[f]} \cup moved,
                  patch |-> ChangedFields(input, dialog[a].original, moved)])
  /\ UNCHANGED <<suppliers, places, edited>>

StartDelete(a, i) ==
  /\ dialog[a] = Closed
  /\ i \in Live
  /\ Ask(a, [pc |-> "supplier", op |-> "delete", id |-> i])
  /\ UNCHANGED <<suppliers, places, edited>>

StartDeletePlace(a, p) ==
  /\ dialog[a] = Closed
  /\ places[p] = "live"
  /\ Ask(a, [pc |-> "building", op |-> "deletePlace", place |-> p])
  /\ UNCHANGED <<suppliers, places, edited>>

--------------------------------------------------------------------------
(* The statements of a request. *)

\* The supplier is read; a deleted one is not found.  A patch must keep the times paired.
FindSupplier(a) ==
  /\ dialog[a].pc = "supplier"
  /\ LET row == suppliers[dialog[a].id] IN
     IF ~row.live
     THEN Answered(a)
     ELSE \/ /\ dialog[a].op = "delete"
             /\ Goes(a, "write")
          \/ /\ dialog[a].op = "update"
             /\ IF Paired(Patched(row, dialog[a].patch))
                THEN Goes(a, "place")
                ELSE Answered(a)
  /\ UNCHANGED <<suppliers, places, edited>>

\* locationExists: deleted buildings can no longer be given to suppliers.
FindPlace(a) ==
  /\ dialog[a].pc = "place"
  /\ IF "at" \in DOMAIN dialog[a].patch => places[dialog[a].patch.at] = "live"
     THEN Goes(a, "name")
     ELSE Answered(a)
  /\ UNCHANGED <<suppliers, places, edited>>

\* nameConflict, the supplier itself excepted.
FindName(a) ==
  /\ dialog[a].pc = "name"
  /\ LET self == IF dialog[a].op = "update" THEN {dialog[a].id} ELSE {} IN
     IF "name" \in DOMAIN dialog[a].patch /\ NameTaken(dialog[a].patch.name, self)
     THEN Answered(a)
     ELSE Goes(a, "write")
  /\ UNCHANGED <<suppliers, places, edited>>

\* The INSERT; a name taken since it was checked makes it fail.
CreateSupplier(a) ==
  /\ Asks(a, "write", "create")
  /\ IF Stored # Ids /\ Allowed(NextId, dialog[a].patch)
     THEN Insert(dialog[a].patch)
     ELSE UNCHANGED <<suppliers, edited>>
  /\ Answered(a)
  /\ UNCHANGED places

\* The UPDATE finds the row by its id alone, and fails when a constraint does.
UpdateSupplier(a) ==
  /\ Asks(a, "write", "update")
  /\ LET i == dialog[a].id
         row == Patched(suppliers[i], dialog[a].patch)
     IN IF Allowed(i, row)
        THEN /\ suppliers' = [suppliers EXCEPT ![i] = row]
             /\ edited' = [edited EXCEPT ![i] =
                  [f \in Fields |-> IF f \in dialog[a].asked THEN row[f] ELSE @[f]]]
        ELSE UNCHANGED <<suppliers, edited>>
  /\ Answered(a)
  /\ UNCHANGED places

DeleteSupplier(a) ==
  /\ Asks(a, "write", "delete")
  /\ suppliers' = [suppliers EXCEPT ![dialog[a].id].live = FALSE]
  /\ Answered(a)
  /\ UNCHANGED <<places, edited>>

\* One INSERT: a building's name is unique, deleted buildings included.
CreateLocation(a, p) ==
  /\ dialog[a] = Closed
  /\ places[p] = "absent"
  /\ places' = [places EXCEPT ![p] = "live"]
  /\ UNCHANGED <<suppliers, edited, dialog>>

FindLocation(a) ==
  /\ dialog[a].pc = "building"
  /\ IF places[dialog[a].place] = "live" THEN Goes(a, "users") ELSE Answered(a)
  /\ UNCHANGED <<suppliers, places, edited>>

\* A building that a supplier refers to stays, a deleted supplier included.
Referred(p) == \E i \in Stored : suppliers[i].at = p

FindUsers(a) ==
  /\ dialog[a].pc = "users"
  /\ IF Referred(dialog[a].place) THEN Answered(a) ELSE Goes(a, "write")
  /\ UNCHANGED <<suppliers, places, edited>>

DeleteLocation(a) ==
  /\ Asks(a, "write", "deletePlace")
  /\ places' = [places EXCEPT ![dialog[a].place] = "deleted"]
  /\ Answered(a)
  /\ UNCHANGED <<suppliers, edited>>

\* The seed task brings back a supplier that was deleted.
SeededAgain(input) ==
  IF NameTaken(input.name, {})
  THEN [i \in Ids |-> IF i \in Stored /\ suppliers[i].name = input.name
                      THEN [suppliers[i] EXCEPT !.live = TRUE] ELSE suppliers[i]]
  ELSE [suppliers EXCEPT ![NextId] = Row(input, TRUE)]

\* One record of the seed task's file, in its transaction that locks both tables.  The
\* building is looked up among all of them, and a supplier's name among all suppliers,
\* the deleted ones included.
Seeded(input) ==
  IF NameTaken(input.name, {})
  THEN suppliers
  ELSE [suppliers EXCEPT ![NextId] = Row(input, TRUE)]

Seed(input) ==
  /\ Paired(input)
  /\ Stored # Ids
  /\ places' = [places EXCEPT ![input.at] = IF @ = "absent" THEN "live" ELSE @]
  /\ suppliers' = Seeded(input)
  /\ edited' = IF NameTaken(input.name, {}) THEN edited ELSE [edited EXCEPT ![NextId] = input]
  /\ UNCHANGED dialog

Next ==
  \/ \E a \in Admins :
       \/ \E input \in Listing : StartCreate(a, input)
       \/ \E input \in Listing, moved \in SUBSET {"closes"} : Save(a, input, moved)
       \/ \E i \in Ids : OpenForm(a, i) \/ StartDelete(a, i)
       \/ \E p \in Places : StartDeletePlace(a, p) \/ CreateLocation(a, p)
       \/ FindSupplier(a)
       \/ FindPlace(a)
       \/ FindName(a)
       \/ CreateSupplier(a)
       \/ UpdateSupplier(a)
       \/ DeleteSupplier(a)
       \/ FindLocation(a)
       \/ FindUsers(a)
       \/ DeleteLocation(a)
  \/ \E input \in Listing : Seed(input)

Spec == Init /\ [][Next]_vars

--------------------------------------------------------------------------
(* Properties. *)

\* Two admins who edit different fields of one supplier both keep their edits: each
\* field holds what the last admin to edit it asked for (changedFields in the form,
\* the partial UPDATE in the service).
EditsKept == \A i \in Stored : edited[i] = Shown(suppliers[i])

\* Whatever requests overlap, names stay unique over live and deleted suppliers and
\* opening hours are never left half set: two patches that are each fine against the
\* row that was read may not be together, and only the tables' constraints notice.
CatalogConsistent ==
  \A i \in Stored :
    /\ suppliers[i].opens = suppliers[i].closes
    /\ \A j \in Stored : suppliers[i].name = suppliers[j].name => i = j

\* A deleted supplier or building never comes back: not by an update whose read came
\* before the deletion, not by a second creation of the name, not by the seed task.
DeletedForGood ==
  [][/\ \A i \in Stored : ~suppliers[i].live => ~suppliers[i]'.live
     /\ \A p \in Places : places[p] = "deleted" => places'[p] = "deleted"]_vars

\* supplier-service/README.md:114-117 promises: "Every write runs in one transaction that
\* locks the rows it depends on. [...] A store can therefore never be created at a landmark
\* that is being deleted at the same moment."  A supplier is created in a building that is
\* there (createSupplier in controller/supplier.ts looks for it two statements earlier).
StoresInLiveLandmarks ==
  [][\A a \in Admins :
       CreateSupplier(a) /\ suppliers' # suppliers => places[dialog[a].patch.at] = "live"]_vars
=============================================================================
