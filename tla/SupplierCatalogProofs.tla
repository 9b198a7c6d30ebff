------------------------ MODULE SupplierCatalogProofs ------------------------
(***************************************************************************)
(* The catalogue stays consistent, edits are kept and deletions are final  *)
(* for any admins, names, buildings and numbers of suppliers.  Nothing a    *)
(* request has checked is used: between a check and the write the tables   *)
(* may change.  What carries the proof is the shape of the requests (a     *)
(* patch holds the fields that were edited, and never the mark of a        *)
(* deletion), that rows are never removed, and the tables' constraints.    *)
(***************************************************************************)
EXTENDS SupplierCatalog, TLAPS, WellFoundedInduction

RowFields == Fields \cup {"live"}

Creation(d) ==
  /\ d.pc \in {"place", "name", "write"} /\ d.op = "create" /\ DOMAIN d = {"pc", "op", "patch"}
  /\ d.patch \in Listing

Form(d) ==
  /\ d.pc = "form" /\ d.op = "update" /\ DOMAIN d = {"pc", "op", "id", "original"}

Update(d) ==
  /\ d.pc \in {"supplier", "place", "name", "write"} /\ d.op = "update"
  /\ DOMAIN d = {"pc", "op", "id", "asked", "patch"}
  /\ DOMAIN d.patch = d.asked /\ d.asked \subseteq Fields

Deletion(d) ==
  /\ d.pc \in {"supplier", "write"} /\ d.op = "delete" /\ DOMAIN d = {"pc", "op", "id"}

PlaceDeletion(d) ==
  /\ d.pc \in {"building", "users", "write"} /\ d.op = "deletePlace"
  /\ DOMAIN d = {"pc", "op", "place"} /\ d.place \in Places

\* A dialog is closed or about one thing; the supplier it is about stays in the table.
Shape(d, stored) ==
  \/ d = Closed
  \/ Creation(d) \/ PlaceDeletion(d)
  \/ (Form(d) \/ Update(d) \/ Deletion(d)) /\ d.id \in stored

Tables ==
  /\ suppliers = [i \in Ids |-> suppliers[i]]
  /\ \A i \in Stored : DOMAIN suppliers[i] = RowFields
  /\ edited = [i \in Ids |-> edited[i]]
  /\ places = [p \in Places |-> places[p]]

Dialogs ==
  /\ dialog = [a \in Admins |-> dialog[a]]
  /\ \A a \in Admins : Shape(dialog[a], Stored)

Inv == Tables /\ Dialogs /\ EditsKept /\ CatalogConsistent

--------------------------------------------------------------------------
\* The identifier of a new row is free.
LEMMA NextIdFree ==
  ASSUME Stored # Ids
  PROVE  NextId \in Ids \ Stored
<1>1. Ids \ Stored \subseteq Nat /\ Ids \ Stored # {}
  BY BoundAssumption DEF Ids, Stored
<1>2. \A T \in SUBSET Nat : T # {} => \E x \in T : \A y \in T : ~(<<y, x>> \in OpToRel(<, Nat))
  BY WFMin, NatLessThanWellFounded
<1>3. \A x, y \in Nat : y < x => <<y, x>> \in OpToRel(<, Nat)
  BY DEF OpToRel
<1>4. PICK x \in Ids \ Stored : \A y \in Ids \ Stored : ~(<<y, x>> \in OpToRel(<, Nat))
  BY <1>1, <1>2
<1>5. \A y \in Ids \ Stored : x \in Nat /\ y \in Nat /\ ~(y < x)
  BY <1>1, <1>3, <1>4
<1>6. \A y \in Ids \ Stored : x <= y
  BY <1>5
<1> QED BY <1>6 DEF NextId

LEMMA RowShape ==
  ASSUME NEW listing \in Listing, NEW live
  PROVE  /\ DOMAIN Row(listing, live) = RowFields
         /\ Shown(Row(listing, live)) = listing
         /\ Row(listing, live).opens = listing.opens
         /\ Row(listing, live).closes = listing.closes
         /\ Row(listing, live).name = listing.name
  BY DEF Row, RowFields, Fields, Listing, Shown

LEMMA RowsAreThere == ASSUME NEW row, DOMAIN row = RowFields PROVE row # Absent
  BY DEF RowFields, Fields, Absent

LEMMA PatchShape ==
  ASSUME NEW row, DOMAIN row = RowFields, NEW patch, DOMAIN patch \subseteq Fields
  PROVE  /\ DOMAIN Patched(row, patch) = RowFields
         /\ Patched(row, patch).live = row.live
         /\ \A f \in Fields : Patched(row, patch)[f] = IF f \in DOMAIN patch THEN patch[f] ELSE row[f]
  BY DEF Patched, RowFields, Fields

LEMMA DeletedShape ==
  ASSUME NEW row, DOMAIN row = RowFields
  PROVE  LET gone == [row EXCEPT !.live = FALSE] IN
         /\ DOMAIN gone = RowFields /\ Shown(gone) = Shown(row) /\ gone.live = FALSE
         /\ gone.name = row.name /\ gone.opens = row.opens /\ gone.closes = row.closes
  BY DEF RowFields, Fields, Shown

\* A dialog that goes on keeps what it is about.
LEMMA DialogStep ==
  ASSUME Dialogs, NEW a \in Admins, NEW d, dialog' = [dialog EXCEPT ![a] = d],
         Stored \subseteq Stored', Shape(d, Stored')
  PROVE  Dialogs'
<1>1. \A b \in Admins : Shape(dialog[b], Stored')
  BY DEF Dialogs, Shape
<1> QED BY <1>1 DEF Dialogs

LEMMA InitInv == Init => Inv
<1> SUFFICES ASSUME Init PROVE Inv
  OBVIOUS
<1>1. Stored = {}
  BY DEF Init, Stored
<1>2. Tables /\ Dialogs
  BY <1>1 DEF Init, Tables, Dialogs, Shape
<1> QED BY <1>1, <1>2 DEF Inv, EditsKept, CatalogConsistent

\* What one step may do to the tables: a deleted supplier and a deleted building stay so.
Final ==
  /\ \A i \in Stored : ~suppliers[i].live => ~suppliers[i]'.live
  /\ \A p \in Places : places[p] = "deleted" => places'[p] = "deleted"

\* A step that leaves suppliers alone.
LEMMA TablesAlone ==
  ASSUME Inv, UNCHANGED <<suppliers, edited>>
  PROVE  /\ Stored' = Stored /\ EditsKept' /\ CatalogConsistent'
         /\ places' = [p \in Places |-> places'[p]] => Tables'
         /\ \A i \in Stored : ~suppliers[i].live => ~suppliers[i]'.live
<1>1. Stored' = Stored
  BY DEF Stored
<1> QED BY <1>1 DEF Inv, Tables, EditsKept, CatalogConsistent, Shown

\* A new row, with a free name and paired times.
LEMMA NewRow ==
  ASSUME Inv, Stored # Ids, NEW listing \in Listing, Paired(listing),
         \A j \in Stored : suppliers[j].name # listing.name,
         suppliers' = [suppliers EXCEPT ![NextId] = Row(listing, TRUE)],
         edited' = [edited EXCEPT ![NextId] = listing],
         places' = [p \in Places |-> places'[p]]
  PROVE  /\ Stored \subseteq Stored' /\ Tables' /\ EditsKept' /\ CatalogConsistent'
         /\ \A i \in Stored : ~suppliers[i].live => ~suppliers[i]'.live
<1>1. PICK n : n = NextId /\ n \in Ids /\ n \notin Stored
  BY NextIdFree
<1>2. PICK row : row = Row(listing, TRUE)
  OBVIOUS
<1>3. /\ DOMAIN row = RowFields /\ Shown(row) = listing
      /\ row.opens = row.closes /\ row.name = listing.name /\ row # Absent
  BY <1>2, RowShape, RowsAreThere DEF Paired
<1>4. /\ suppliers' = [i \in Ids |-> suppliers'[i]]
      /\ edited' = [i \in Ids |-> edited'[i]]
      /\ \A i \in Ids : suppliers'[i] = IF i = n THEN row ELSE suppliers[i]
      /\ \A i \in Ids : edited'[i] = IF i = n THEN listing ELSE edited[i]
  BY <1>1, <1>2 DEF Inv, Tables
<1>5. Stored' = Stored \cup {n}
  BY <1>1, <1>3, <1>4 DEF Stored
<1>6. Tables'
  BY <1>1, <1>3, <1>4, <1>5 DEF Inv, Tables, Stored
<1>7. EditsKept'
  BY <1>1, <1>3, <1>4, <1>5 DEF Inv, EditsKept, Stored
<1>8. CatalogConsistent'
  <2>1. \A i \in Stored : i \in Ids /\ i # n /\ suppliers'[i] = suppliers[i]
    BY <1>1, <1>4 DEF Stored
  <2>2. suppliers'[n] = row
    BY <1>1, <1>4
  <2>3. \A i \in Stored' : suppliers'[i].opens = suppliers'[i].closes
    BY <1>3, <1>5, <2>1, <2>2 DEF Inv, CatalogConsistent
  <2>4. \A i \in Stored : suppliers'[i].name # suppliers'[n].name
    BY <1>3, <2>1, <2>2
  <2>5. \A i, j \in Stored : suppliers'[i].name = suppliers'[j].name => i = j
    <3> SUFFICES ASSUME NEW i \in Stored, NEW j \in Stored, suppliers'[i].name = suppliers'[j].name
                 PROVE  i = j
      OBVIOUS
    <3>1. suppliers[i].name = suppliers[j].name
      BY <2>1
    <3> QED BY <3>1 DEF Inv, CatalogConsistent
  <2> QED BY <1>5, <2>3, <2>4, <2>5 DEF CatalogConsistent
<1>9. \A i \in Stored : suppliers'[i] = suppliers[i]
  BY <1>1, <1>4 DEF Stored
<1> QED BY <1>5, <1>6, <1>7, <1>8, <1>9

\* A row that is replaced by one the constraints allow.
LEMMA ChangedRow ==
  ASSUME Inv, NEW i \in Stored, NEW row, DOMAIN row = RowFields, row.opens = row.closes,
         \A j \in Stored \ {i} : suppliers[j].name # row.name,
         ~suppliers[i].live => ~row.live, NEW edit, edit = Shown(row),
         suppliers' = [suppliers EXCEPT ![i] = row], edited' = [edited EXCEPT ![i] = edit],
         places' = places
  PROVE  /\ Stored' = Stored /\ Tables' /\ EditsKept' /\ CatalogConsistent'
         /\ \A j \in Stored : ~suppliers[j].live => ~suppliers[j]'.live
<1>1. /\ suppliers' = [j \in Ids |-> suppliers'[j]]
      /\ edited' = [j \in Ids |-> edited'[j]]
      /\ \A j \in Ids : suppliers'[j] = IF j = i THEN row ELSE suppliers[j]
      /\ \A j \in Ids : edited'[j] = IF j = i THEN edit ELSE edited[j]
      /\ i \in Ids
  BY DEF Inv, Tables, Stored
<1>2. Stored' = Stored
  BY <1>1, RowsAreThere DEF Stored
<1>3. Tables'
  BY <1>1, <1>2 DEF Inv, Tables, Stored
<1>4. EditsKept'
  BY <1>1, <1>2 DEF Inv, EditsKept, Stored
<1>5. CatalogConsistent'
  BY <1>1, <1>2 DEF Inv, CatalogConsistent, Stored
<1>6. \A j \in Stored : ~suppliers[j].live => ~suppliers[j]'.live
  BY <1>1 DEF Stored
<1> QED BY <1>2, <1>3, <1>4, <1>5, <1>6

--------------------------------------------------------------------------
\* The steps of a request that write nothing keep what the request is about.
LEMMA ReadingShape ==
  ASSUME Inv, NEW a \in Admins, dialog[a] # Closed, NEW pc,
         \/ /\ dialog[a].pc = "supplier" /\ dialog[a].op = "delete" /\ pc = "write"
         \/ /\ dialog[a].pc = "supplier" /\ dialog[a].op = "update" /\ pc = "place"
         \/ /\ dialog[a].pc = "place" /\ pc = "name"
         \/ /\ dialog[a].pc = "name" /\ pc = "write"
         \/ /\ dialog[a].pc = "building" /\ pc = "users"
         \/ /\ dialog[a].pc = "users" /\ pc = "write"
  PROVE  Shape([dialog[a] EXCEPT !.pc = pc], Stored)
<1> DEFINE d == dialog[a]
           e == [d EXCEPT !.pc = pc]
<1>1. Shape(d, Stored)
  BY DEF Inv, Dialogs
<1>2. CASE Creation(d)
  <2>1. DOMAIN e = {"pc", "op", "patch"} /\ e.pc = pc /\ e.op = d.op /\ e.patch = d.patch
    BY <1>2 DEF Creation
  <2> QED BY <1>2, <2>1 DEF Shape, Creation
<1>3. CASE PlaceDeletion(d)
  <2>1. DOMAIN e = {"pc", "op", "place"} /\ e.pc = pc /\ e.op = d.op /\ e.place = d.place
    BY <1>3 DEF PlaceDeletion
  <2> QED BY <1>3, <2>1 DEF Shape, PlaceDeletion
<1>4. CASE Update(d) /\ d.id \in Stored
  <2>1. /\ DOMAIN e = {"pc", "op", "id", "asked", "patch"} /\ e.pc = pc /\ e.op = d.op
        /\ e.id = d.id /\ e.asked = d.asked /\ e.patch = d.patch
    BY <1>4 DEF Update
  <2> QED BY <1>4, <2>1 DEF Shape, Update
<1>5. CASE Deletion(d) /\ d.id \in Stored
  <2>1. DOMAIN e = {"pc", "op", "id"} /\ e.pc = pc /\ e.op = d.op /\ e.id = d.id
    BY <1>5 DEF Deletion
  <2> QED BY <1>5, <2>1 DEF Shape, Deletion
<1>6. CASE Form(d)
  BY <1>6 DEF Form
<1> QED BY <1>1, <1>2, <1>3, <1>4, <1>5, <1>6 DEF Shape

\* A step that only changes a dialog.
LEMMA DialogAlone ==
  ASSUME Inv, NEW a \in Admins, NEW d, dialog' = [dialog EXCEPT ![a] = d], Shape(d, Stored),
         UNCHANGED <<suppliers, places, edited>>
  PROVE  Inv' /\ Final
<1>1. Stored' = Stored /\ EditsKept' /\ CatalogConsistent' /\ Tables' /\ Final
  BY TablesAlone DEF Inv, Tables, Final
<1>2. Dialogs'
  BY <1>1, DialogStep DEF Inv
<1> QED BY <1>1, <1>2 DEF Inv

LEMMA DialogSteps ==
  ASSUME Inv, NEW a \in Admins,
         \/ \E input \in Listing : StartCreate(a, input)
         \/ \E input \in Listing, moved \in SUBSET {"closes"} : Save(a, input, moved)
         \/ \E i \in Ids : OpenForm(a, i) \/ StartDelete(a, i)
         \/ \E p \in Places : StartDeletePlace(a, p)
         \/ FindSupplier(a) \/ FindPlace(a) \/ FindName(a) \/ FindLocation(a) \/ FindUsers(a)
  PROVE  Inv' /\ Final
<1>0. Shape(Closed, Stored) /\ Shape(dialog[a], Stored)
  BY DEF Inv, Dialogs, Shape
<1>1. ASSUME NEW input \in Listing, StartCreate(a, input) PROVE Inv' /\ Final
  <2>1. Shape([pc |-> "place", op |-> "create", patch |-> input], Stored)
    BY DEF Shape, Creation
  <2> QED BY <1>1, <2>1, DialogAlone DEF StartCreate, Ask
<1>2. ASSUME NEW input \in Listing, NEW moved \in SUBSET {"closes"}, Save(a, input, moved)
      PROVE  Inv' /\ Final
  <2>1. Form(dialog[a]) /\ dialog[a].id \in Stored
    BY <1>0, <1>2 DEF Save, Asks, Shape, Form, Creation, Update, Deletion, PlaceDeletion, Closed
  <2> DEFINE asked == {f \in Fields : input[f] # dialog[a].original[f]} \cup moved
             patch == ChangedFields(input, dialog[a].original, moved)
             d == [pc |-> "supplier", op |-> "update", id |-> dialog[a].id,
                   asked |-> asked, patch |-> patch]
  <2>2. DOMAIN patch = asked /\ asked \subseteq Fields
    BY DEF ChangedFields, Fields
  <2>3. Shape(d, Stored)
    <3> HIDE DEF asked, patch
    <3> QED BY <2>1, <2>2 DEF Shape, Update
  <2>4. \/ dialog' = [dialog EXCEPT ![a] = d]
        \/ dialog' = [dialog EXCEPT ![a] = Closed]
    BY <1>2 DEF Save, Ask, Answered
  <2>5. UNCHANGED <<suppliers, places, edited>>
    BY <1>2 DEF Save
  <2> HIDE DEF d
  <2> QED BY <1>0, <2>3, <2>4, <2>5, DialogAlone
<1>3. ASSUME NEW i \in Ids, OpenForm(a, i) PROVE Inv' /\ Final
  <2>1. Shape([pc |-> "form", op |-> "update", id |-> i, original |-> Shown(suppliers[i])], Stored)
    BY <1>3 DEF OpenForm, Live, Shape, Form
  <2> QED BY <1>3, <2>1, DialogAlone DEF OpenForm, Ask
<1>4. ASSUME NEW i \in Ids, StartDelete(a, i) PROVE Inv' /\ Final
  <2>1. Shape([pc |-> "supplier", op |-> "delete", id |-> i], Stored)
    BY <1>4 DEF StartDelete, Live, Shape, Deletion
  <2> QED BY <1>4, <2>1, DialogAlone DEF StartDelete, Ask
<1>5. ASSUME NEW p \in Places, StartDeletePlace(a, p) PROVE Inv' /\ Final
  <2>1. Shape([pc |-> "building", op |-> "deletePlace", place |-> p], Stored)
    BY DEF Shape, PlaceDeletion
  <2> QED BY <1>5, <2>1, DialogAlone DEF StartDeletePlace, Ask
<1>6. ASSUME FindSupplier(a) \/ FindPlace(a) \/ FindName(a) \/ FindLocation(a) \/ FindUsers(a)
      PROVE  Inv' /\ Final
  <2>1. UNCHANGED <<suppliers, places, edited>>
    BY <1>6 DEF FindSupplier, FindPlace, FindName, FindLocation, FindUsers
  <2>2. CASE Answered(a)
    BY <1>0, <2>1, <2>2, DialogAlone DEF Answered, Ask
  <2>3. ASSUME NEW pc, Goes(a, pc), Shape([dialog[a] EXCEPT !.pc = pc], Stored)
        PROVE  Inv' /\ Final
    BY <2>1, <2>3, DialogAlone DEF Goes, Ask
  <2>4. dialog[a].pc \in {"supplier", "place", "name", "building", "users"} /\ dialog[a] # Closed
    BY <1>6 DEF FindSupplier, FindPlace, FindName, FindLocation, FindUsers, Closed
  <2>5. CASE FindSupplier(a)
    BY <2>2, <2>3, <2>4, <2>5, ReadingShape DEF FindSupplier
  <2>6. CASE FindPlace(a)
    BY <2>2, <2>3, <2>4, <2>6, ReadingShape DEF FindPlace
  <2>7. CASE FindName(a)
    BY <2>2, <2>3, <2>4, <2>7, ReadingShape DEF FindName
  <2>8. CASE FindLocation(a)
    BY <2>2, <2>3, <2>4, <2>8, ReadingShape DEF FindLocation
  <2>9. CASE FindUsers(a)
    BY <2>2, <2>3, <2>4, <2>9, ReadingShape DEF FindUsers
  <2> QED BY <1>6, <2>5, <2>6, <2>7, <2>8, <2>9
<1> QED BY <1>1, <1>2, <1>3, <1>4, <1>5, <1>6

\* The steps that write.
LEMMA WritingSteps ==
  ASSUME Inv, NEW a \in Admins,
         \/ CreateSupplier(a) \/ UpdateSupplier(a) \/ DeleteSupplier(a) \/ DeleteLocation(a)
         \/ \E p \in Places : CreateLocation(a, p)
  PROVE  Inv' /\ Final
<1>0. Shape(Closed, Stored) /\ Shape(Closed, Stored') /\ Shape(dialog[a], Stored)
  BY DEF Inv, Dialogs, Shape
<1>1. CASE CreateSupplier(a)
  <2>1. Creation(dialog[a])
    BY <1>0, <1>1
       DEF CreateSupplier, Asks, Shape, Form, Creation, Update, Deletion, PlaceDeletion, Closed
  <2>2. dialog' = [dialog EXCEPT ![a] = Closed] /\ places' = places
    BY <1>1 DEF CreateSupplier, Answered, Ask
  <2>3. CASE UNCHANGED <<suppliers, edited>>
    BY <1>0, <2>2, <2>3, DialogAlone
  <2>4. CASE /\ Stored # Ids /\ Allowed(NextId, dialog[a].patch) /\ Insert(dialog[a].patch)
    <3>1. PICK listing \in Listing : listing = dialog[a].patch
      BY <2>1 DEF Creation
    <3>2. Paired(listing) /\ \A j \in Stored : suppliers[j].name # listing.name
      BY <2>4, <3>1, NextIdFree DEF Allowed
    <3>3. /\ suppliers' = [suppliers EXCEPT ![NextId] = Row(listing, TRUE)]
          /\ edited' = [edited EXCEPT ![NextId] = listing]
      BY <2>4, <3>1 DEF Insert
    <3>4. places' = [p \in Places |-> places'[p]]
      BY <2>2 DEF Inv, Tables
    <3>5. /\ Stored \subseteq Stored' /\ Tables' /\ EditsKept' /\ CatalogConsistent'
          /\ \A i \in Stored : ~suppliers[i].live => ~suppliers[i]'.live
      BY <2>4, <3>2, <3>3, <3>4, NewRow
    <3>6. Dialogs'
      BY <1>0, <2>2, <3>5, DialogStep DEF Inv
    <3> QED BY <2>2, <3>5, <3>6 DEF Inv, Final
  <2> QED BY <1>1, <2>3, <2>4 DEF CreateSupplier
<1>2. CASE UpdateSupplier(a)
  <2>1. Update(dialog[a]) /\ dialog[a].id \in Stored
    BY <1>0, <1>2
       DEF UpdateSupplier, Asks, Shape, Form, Creation, Update, Deletion, PlaceDeletion, Closed
  <2>2. dialog' = [dialog EXCEPT ![a] = Closed] /\ places' = places
    BY <1>2 DEF UpdateSupplier, Answered, Ask
  <2>3. CASE UNCHANGED <<suppliers, edited>>
    BY <1>0, <2>2, <2>3, DialogAlone
  <2>4. CASE ~UNCHANGED <<suppliers, edited>>
    <3>0. PICK i \in Stored : i = dialog[a].id
      BY <2>1
    <3>1. PICK patch, row, edit :
            /\ i = dialog[a].id /\ patch = dialog[a].patch
            /\ row = Patched(suppliers[i], patch)
            /\ edit = [f \in Fields |-> IF f \in dialog[a].asked THEN row[f] ELSE edited[i][f]]
      BY <3>0
    <3>2. DOMAIN suppliers[i] = RowFields /\ DOMAIN patch = dialog[a].asked /\ DOMAIN patch \subseteq Fields
      BY <2>1, <3>1 DEF Inv, Tables, Update
    <3>3. /\ DOMAIN row = RowFields /\ row.live = suppliers[i].live
          /\ \A f \in Fields : row[f] = IF f \in DOMAIN patch THEN patch[f] ELSE suppliers[i][f]
      BY <3>1, <3>2, PatchShape
    <3>4. edit = Shown(row)
      <4>1. \A f \in Fields : edited[i][f] = suppliers[i][f]
        BY DEF Inv, EditsKept, Shown
      <4> QED BY <3>1, <3>2, <3>3, <4>1 DEF Shown
    <3>5. /\ Allowed(i, row) /\ suppliers' = [suppliers EXCEPT ![i] = row]
          /\ edited' = [edited EXCEPT ![i] = edit]
      BY <1>2, <2>4, <3>1 DEF UpdateSupplier
    <3>6. row.opens = row.closes /\ \A j \in Stored \ {i} : suppliers[j].name # row.name
      BY <3>5 DEF Allowed, Paired
    <3>7. /\ Stored' = Stored /\ Tables' /\ EditsKept' /\ CatalogConsistent'
          /\ \A j \in Stored : ~suppliers[j].live => ~suppliers[j]'.live
      BY <2>2, <3>3, <3>4, <3>5, <3>6, ChangedRow
    <3>8. Dialogs'
      BY <1>0, <2>2, <3>7, DialogStep DEF Inv
    <3> QED BY <2>2, <3>7, <3>8 DEF Inv, Final
  <2> QED BY <2>3, <2>4
<1>3. CASE DeleteSupplier(a)
  <2>1. dialog[a].id \in Stored
    BY <1>0, <1>3
       DEF DeleteSupplier, Asks, Shape, Form, Creation, Update, Deletion, PlaceDeletion, Closed
  <2>2. dialog' = [dialog EXCEPT ![a] = Closed] /\ UNCHANGED <<places, edited>>
    BY <1>3 DEF DeleteSupplier, Answered, Ask
  <2>0. PICK i \in Stored : i = dialog[a].id
    BY <2>1
  <2>3. PICK gone : i = dialog[a].id /\ gone = [suppliers[i] EXCEPT !.live = FALSE]
    BY <2>0
  <2>4. DOMAIN suppliers[i] = RowFields
    BY DEF Inv, Tables
  <2>5. /\ DOMAIN gone = RowFields /\ Shown(gone) = Shown(suppliers[i]) /\ gone.live = FALSE
        /\ gone.name = suppliers[i].name /\ gone.opens = suppliers[i].opens
        /\ gone.closes = suppliers[i].closes
    BY <2>3, <2>4, DeletedShape
  <2>6. suppliers' = [suppliers EXCEPT ![i] = gone]
    BY <1>3, <2>3 DEF DeleteSupplier
  <2>7. edited[i] = Shown(gone) /\ edited' = [edited EXCEPT ![i] = edited[i]]
    <3>1. edited = [j \in Ids |-> edited[j]] /\ i \in Ids
      BY DEF Inv, Tables, Stored
    <3> QED BY <2>2, <2>5, <3>1 DEF Inv, EditsKept
  <2>8. gone.opens = gone.closes /\ \A j \in Stored \ {i} : suppliers[j].name # gone.name
    BY <2>5 DEF Inv, CatalogConsistent
  <2>9. /\ Stored' = Stored /\ Tables' /\ EditsKept' /\ CatalogConsistent'
        /\ \A j \in Stored : ~suppliers[j].live => ~suppliers[j]'.live
    BY <2>2, <2>5, <2>6, <2>7, <2>8, ChangedRow
  <2>10. Dialogs'
    BY <1>0, <2>2, <2>9, DialogStep DEF Inv
  <2> QED BY <2>2, <2>9, <2>10 DEF Inv, Final
<1>4. CASE DeleteLocation(a)
  <2>1. /\ dialog' = [dialog EXCEPT ![a] = Closed] /\ UNCHANGED <<suppliers, edited>>
        /\ places' = [places EXCEPT ![dialog[a].place] = "deleted"]
    BY <1>4 DEF DeleteLocation, Answered, Ask
  <2>2. /\ places' = [p \in Places |-> places'[p]]
        /\ \A p \in Places : places[p] = "deleted" => places'[p] = "deleted"
    BY <2>1 DEF Inv, Tables
  <2>3. /\ Stored' = Stored /\ EditsKept' /\ CatalogConsistent' /\ Tables'
        /\ \A i \in Stored : ~suppliers[i].live => ~suppliers[i]'.live
    BY <2>1, <2>2, TablesAlone
  <2>4. Dialogs'
    BY <1>0, <2>1, <2>3, DialogStep DEF Inv
  <2> QED BY <2>2, <2>3, <2>4 DEF Inv, Final
<1>5. ASSUME NEW p \in Places, CreateLocation(a, p) PROVE Inv' /\ Final
  <2>1. /\ UNCHANGED <<suppliers, edited, dialog>> /\ places[p] = "absent"
        /\ places' = [places EXCEPT ![p] = "live"]
    BY <1>5 DEF CreateLocation
  <2>2. /\ places' = [q \in Places |-> places'[q]]
        /\ \A q \in Places : places[q] = "deleted" => places'[q] = "deleted"
    BY <2>1 DEF Inv, Tables
  <2>3. /\ Stored' = Stored /\ EditsKept' /\ CatalogConsistent' /\ Tables'
        /\ \A i \in Stored : ~suppliers[i].live => ~suppliers[i]'.live
    BY <2>1, <2>2, TablesAlone
  <2>4. Dialogs'
    BY <2>1, <2>3 DEF Inv, Dialogs
  <2> QED BY <2>2, <2>3, <2>4 DEF Inv, Final
<1> QED BY <1>1, <1>2, <1>3, <1>4, <1>5

\* The seed task, which adds what it does not find.
LEMMA SeedStep ==
  ASSUME Inv, NEW input \in Listing, Seed(input)
  PROVE  Inv' /\ Final
<1>1. /\ dialog' = dialog /\ Stored # Ids /\ Paired(input)
      /\ places' = [places EXCEPT ![input.at] = IF @ = "absent" THEN "live" ELSE @]
  BY DEF Seed
<1>2. /\ places' = [p \in Places |-> places'[p]]
      /\ \A p \in Places : places[p] = "deleted" => places'[p] = "deleted"
  BY <1>1 DEF Inv, Tables
<1>3. /\ Stored \subseteq Stored' /\ Tables' /\ EditsKept' /\ CatalogConsistent'
      /\ \A i \in Stored : ~suppliers[i].live => ~suppliers[i]'.live
  <2>1. CASE NameTaken(input.name, {})
    <3>1. UNCHANGED <<suppliers, edited>>
      BY <2>1 DEF Seed, Seeded
    <3> QED BY <1>2, <3>1, TablesAlone
  <2>2. CASE ~NameTaken(input.name, {})
    <3>1. /\ suppliers' = [suppliers EXCEPT ![NextId] = Row(input, TRUE)]
          /\ edited' = [edited EXCEPT ![NextId] = input]
      BY <2>2 DEF Seed, Seeded
    <3>2. \A j \in Stored : suppliers[j].name # input.name
      BY <2>2 DEF NameTaken
    <3> QED BY <1>1, <1>2, <3>1, <3>2, NewRow
  <2> QED BY <2>1, <2>2
<1>4. Dialogs'
  BY <1>1, <1>3 DEF Inv, Dialogs, Shape
<1> QED BY <1>2, <1>3, <1>4 DEF Inv, Final

LEMMA StepInv == Inv /\ [Next]_vars => Inv' /\ (vars' = vars \/ Final)
<1> SUFFICES ASSUME Inv, [Next]_vars PROVE Inv' /\ (vars' = vars \/ Final)
  OBVIOUS
<1>1. CASE UNCHANGED vars
  <2>1. UNCHANGED <<suppliers, places, edited, dialog>>
    BY <1>1 DEF vars
  <2>2. Stored' = Stored /\ EditsKept' /\ CatalogConsistent' /\ Tables'
    BY <2>1, TablesAlone DEF Inv, Tables
  <2>3. Dialogs'
    BY <2>1, <2>2 DEF Inv, Dialogs
  <2> QED BY <1>1, <2>2, <2>3 DEF Inv
<1>2. CASE Next
  BY <1>2, DialogSteps, WritingSteps, SeedStep DEF Next
<1> QED BY <1>1, <1>2

LEMMA InvHolds == Spec => []Inv
<1>1. Inv /\ [Next]_vars => Inv'
  BY StepInv
<1> QED BY InitInv, <1>1, PTL DEF Spec

\* Admins who edit different fields of one supplier keep each other's edits
\* (SupplierFormDialog.vue, updateSupplier).
THEOREM EditsAreKept == Spec => []EditsKept
<1>1. Inv => EditsKept
  BY DEF Inv
<1> QED BY <1>1, InvHolds, PTL

\* Names are unique and times come in pairs, whatever requests overlap
\* (controller/supplier.ts, contract.prisma).
THEOREM CatalogStaysConsistent == Spec => []CatalogConsistent
<1>1. Inv => CatalogConsistent
  BY DEF Inv
<1> QED BY <1>1, InvHolds, PTL

\* No update, creation or seed brings back what was deleted
\* (controller/supplier.ts, controller/location.ts, seedSuppliers.ts).
THEOREM DeletionsAreFinal == Spec => DeletedForGood
<1>1. Inv /\ [Next]_vars => [Final]_vars
  BY StepInv
<1>2. Inv /\ [Next]_vars => Inv'
  BY StepInv
<1> QED BY <1>1, InvHolds, PTL DEF Spec, DeletedForGood, Final
=============================================================================
