--------------------------- MODULE CatalogueProofs ---------------------------
(*****************************************************************************)
(* Theorems about data products, their datasets, the views that hide         *)
(* columns, and keywords, for any number of products, datasets, users,       *)
(* handlers and words.                                                       *)
(*****************************************************************************)
EXTENDS Catalogue, Keywords, SequenceTheorems, TLAPS

(* Who owns what *)

\* The variables that say who owns what
OwnersTyped ==
    /\ products \in [ProductIds -> Product \cup {Nothing, Gone}]
    /\ datasets \in [DatasetIds -> ProductIds \cup {Nothing, Gone}]
    /\ edit \in [Edits -> Edit \cup {Nothing}]

\* A dataset goes with its product.
DatasetsHaveProducts == \A d \in DatasetIds : DatasetExists(d) => ProductExists(datasets[d])

\* The steps at which a handler has read the product, and has compared groups
HasProduct == {"target", "view", "row", "source"}
HasTarget == {"view", "row", "source"}

\* What an update has read: the dataset, the product it was in, the group that
\* owns it, and a product of the same group to put it in.
ReadsRight(e) ==
    /\ e.step = "dataset" => e.dataset \in DatasetIds
    /\ e.step \in {"row", "source"} => e.op = "updateDataset"
    /\ e.op = "updateDataset" =>
        /\ e.dataset \in DatasetIds
        /\ e.step \in {"product"} \cup HasProduct => datasets[e.dataset] # Nothing
        /\ e.step = "product" =>
              /\ e.from \in ProductIds /\ products[e.from] # Nothing
              /\ (DatasetExists(e.dataset) /\ ProductExists(e.from)) =>
                    GroupOfDataset(e.dataset) = products[e.from].group
        /\ e.step \in HasProduct => (DatasetExists(e.dataset) => GroupOfDataset(e.dataset) = e.group)
        /\ e.step \in HasTarget =>
              /\ e.product \in ProductIds /\ products[e.product] # Nothing
              /\ ProductExists(e.product) => products[e.product].group = e.group

\* What is shown to stay true
OwnersInv ==
    /\ OwnersTyped
    /\ DatasetsHaveProducts
    /\ \A c \in Edits : edit[c] # Nothing => ReadsRight(edit[c])

\* How rows may change: products keep their group and are not born again; a
\* dataset stays with a group.
RowsKeepOwners ==
    /\ \A p \in ProductIds : products[p] # Nothing => products'[p] # Nothing
    /\ \A p \in ProductIds : ProductExists(p)' /\ products[p] # Nothing =>
          ProductExists(p) /\ products'[p].group = products[p].group
    /\ \A d \in DatasetIds : datasets[d] # Nothing => datasets'[d] # Nothing
    /\ \A d \in DatasetIds : DatasetExists(d)' /\ datasets[d] # Nothing =>
          DatasetExists(d) /\ GroupOfDataset(d)' = GroupOfDataset(d)

\* What a handler has read stays right when rows change so.
LEMMA ReadsStayRight ==
    ASSUME OwnersInv, OwnersTyped', DatasetsHaveProducts', RowsKeepOwners,
           NEW e \in Edit, ReadsRight(e)
    PROVE  ReadsRight(e)'
<1> SUFFICES ASSUME e.op = "updateDataset"
             PROVE  ReadsRight(e)'
    BY DEF ReadsRight
<1> DEFINE d == e.dataset
<1>1. d \in DatasetIds
    BY DEF ReadsRight
<1>2. e.step \in {"product"} \cup HasProduct =>
        /\ datasets'[d] # Nothing
        /\ DatasetExists(d)' => DatasetExists(d) /\ GroupOfDataset(d)' = GroupOfDataset(d)
    BY <1>1 DEF ReadsRight, RowsKeepOwners
<1>3. ASSUME e.step = "product"
      PROVE  /\ e.from \in ProductIds /\ products'[e.from] # Nothing
             /\ (DatasetExists(d)' /\ ProductExists(e.from)') =>
                   GroupOfDataset(d)' = products'[e.from].group
    BY <1>2, <1>3 DEF ReadsRight, RowsKeepOwners
<1>4. ASSUME e.step \in HasProduct, DatasetExists(d)'
      PROVE  GroupOfDataset(d)' = e.group
    BY <1>2, <1>4 DEF ReadsRight
<1>5. ASSUME e.step \in HasTarget
      PROVE  /\ e.product \in ProductIds /\ products'[e.product] # Nothing
             /\ ProductExists(e.product)' => products'[e.product].group = e.group
    BY <1>5 DEF ReadsRight, RowsKeepOwners
<1> QED BY <1>1, <1>2, <1>3, <1>4, <1>5 DEF ReadsRight

\* What a step makes of the record of a handler: it ends, or is right about the
\* rows before the step.
LEMMA StepsRead ==
    ASSUME OwnersInv, CatalogueNext, NEW c \in Edits, edit'[c] # Nothing
    PROVE  edit'[c] \in Edit /\ ReadsRight(edit'[c])
<1> USE DEF ensureUserInGroup
<1>t. OwnersTyped /\ DatasetsHaveProducts
    BY DEF OwnersInv
<1>0. edit[c] # Nothing => edit[c] \in Edit /\ ReadsRight(edit[c])
    BY <1>t DEF OwnersInv, OwnersTyped
<1>1. CASE edit'[c] = edit[c]
    BY <1>0, <1>1
<1>2. ASSUME NEW b \in Edits, StartEdit(b), edit'[c] # edit[c]
      PROVE  edit'[c] \in Edit /\ ReadsRight(edit'[c])
  <2>1. PICK op \in {"createDataset", "updateDataset", "deleteDataset",
                      "updateProduct", "deleteProduct"},
             u \in Editors, d \in DatasetIds \cup {Nothing}, p \in ProductIds \cup {Nothing},
             t \in Tables, columns \in SUBSET Columns, i \in TeamIds,
             step \in {"dataset", "product"} :
           /\ BeginEdit(b, op, u, d, p, t, columns, i, step)
           /\ step = "dataset" => d \in DatasetIds
           /\ op = "updateDataset" => d \in DatasetIds /\ step = "dataset"
    <3>1. {} \in SUBSET Columns /\ PiiChoices \subseteq SUBSET Columns
        BY CatalogueAssumption
    <3> QED BY <1>2, <3>1 DEF StartEdit, UpdateDataproduct, DeleteDataproduct,
               CreateDataset, UpdateDataset, DeleteDataset
  <2>2. edit'[c] = [op |-> op, user |-> u, dataset |-> d, product |-> p, table |-> t,
                    columns |-> columns, team |-> i, from |-> p, group |-> Nothing,
                    step |-> step]
      BY <1>t, <1>2, <2>1 DEF BeginEdit, OwnersTyped
  <2> QED BY <2>1, <2>2 DEF Edit, ReadsRight, HasProduct, HasTarget
<1>3. ASSUME NEW b \in Edits, EditStep(b), edit'[c] # edit[c]
      PROVE  edit'[c] \in Edit /\ ReadsRight(edit'[c])
  <2>1. b = c
      BY <1>t, <1>3 DEF EditStep, GetDataset, GetDataproduct, GetTarget, WriteView,
         CheckProject, StoreDataset, StoreUpdate, UpdateBigqueryDatasource, StoreProduct,
         DeleteRows, EditFails, EditGoto, EndEdit, OwnersTyped
  <2>2. edit[c] \in Edit /\ ReadsRight(edit[c])
    <3>1. edit[c] # Nothing
        BY <1>3, <2>1 DEF EditStep, EditAt, GetDataset, GetDataproduct, GetTarget, WriteView,
           CheckProject, StoreDataset, StoreUpdate, UpdateBigqueryDatasource, StoreProduct,
           DeleteRows, EditFails
    <3> QED BY <3>1, <1>0
  <2>3. ASSUME GetDataset(c)
        PROVE  edit'[c] \in Edit /\ ReadsRight(edit'[c])
    <3> DEFINE e == edit[c]
               p == datasets[e.dataset]
    <3>1. e.step = "dataset" /\ DatasetExists(e.dataset)
        BY <2>3 DEF GetDataset, EditAt
    <3>2. edit'[c] = [e EXCEPT !.from = p, !.step = "product",
                               !.product = IF @ = Nothing THEN p ELSE @]
        BY <1>t, <2>3 DEF GetDataset, OwnersTyped
    <3>3. CASE e.op = "updateDataset"
      <4>1. e.dataset \in DatasetIds
          BY <2>2, <3>3 DEF ReadsRight
      <4>2. p \in ProductIds /\ ProductExists(p) /\ p # Nothing
          BY <1>t, <3>1, <4>1 DEF OwnersTyped, DatasetsHaveProducts, DatasetExists, ProductExists
      <4> QED BY <2>2, <3>1, <3>2, <4>1, <4>2
              DEF Edit, ReadsRight, HasProduct, HasTarget, ProductExists, DatasetExists,
                  GroupOfDataset
    <3>4. CASE e.op # "updateDataset"
      <4>1. p \in ProductIds
          BY <1>t, <2>2, <3>1 DEF OwnersTyped, DatasetExists, ReadsRight
      <4> QED BY <2>2, <3>2, <3>4, <4>1 DEF Edit, ReadsRight
    <3> QED BY <3>3, <3>4
  <2>4. ASSUME GetDataproduct(c)
        PROVE  edit'[c] \in Edit /\ ReadsRight(edit'[c])
    <3> DEFINE e == edit[c]
               g == products[e.from].group
               next == IF e.op = "updateDataset" /\ e.product # e.from
                       THEN "target" ELSE AfterChecks(c)
    <3>1. e.step = "product" /\ ProductExists(e.from)
        BY <2>4 DEF GetDataproduct, EditAt
    <3>2. edit'[c] = [e EXCEPT !.group = g, !.step = next]
        BY <1>t, <2>4 DEF GetDataproduct, OwnersTyped
    <3>3. g \in OwnerGroups
        BY <1>t, <3>1 DEF OwnersTyped, ProductExists, Product
    <3>4. next \in {"target", "view", "project", "row", "write", "delete"}
        BY DEF AfterChecks
    <3>5. next \in {"view", "row"} /\ e.op = "updateDataset" => e.product = e.from
        BY DEF AfterChecks
    <3>6. edit'[c] \in Edit
        BY <2>2, <3>2, <3>3, <3>4 DEF Edit
    <3>7. /\ edit'[c].op = e.op /\ edit'[c].dataset = e.dataset /\ edit'[c].product = e.product
          /\ edit'[c].from = e.from /\ edit'[c].group = g /\ edit'[c].step = next
        BY <2>2, <3>2 DEF Edit
    <3>8. next = "row" => e.op = "updateDataset"
        BY DEF AfterChecks
    <3> HIDE DEF next
    <3>9. ReadsRight(edit'[c])
        BY <2>2, <3>1, <3>4, <3>5, <3>7, <3>8
           DEF ReadsRight, HasProduct, HasTarget, ProductExists, DatasetExists, GroupOfDataset
    <3> QED BY <3>6, <3>9
  <2>5. ASSUME GetTarget(c)
        PROVE  edit'[c] \in Edit /\ ReadsRight(edit'[c])
    <3> DEFINE e == edit[c]
               next == AfterChecks(c)
    <3>1. e.step = "target" /\ ProductExists(e.product) /\ e.group = products[e.product].group
        BY <2>5 DEF GetTarget, EditAt
    <3>2. edit'[c] = [e EXCEPT !.step = next]
        BY <1>t, <2>5 DEF GetTarget, EditGoto, OwnersTyped
    <3>3. /\ next \in {"view", "project", "row", "write", "delete"}
          /\ next = "row" => e.op = "updateDataset"
        BY DEF AfterChecks
    <3> HIDE DEF next
    <3> QED BY <2>2, <3>1, <3>2, <3>3
            DEF Edit, ReadsRight, HasProduct, HasTarget, ProductExists
  <2>6. ASSUME WriteView(c)
        PROVE  edit'[c] \in Edit /\ ReadsRight(edit'[c])
    <3> DEFINE e == edit[c]
               next == IF e.op = "updateDataset" THEN "row" ELSE "project"
    <3>1. e.step = "view" /\ edit'[c] = [e EXCEPT !.step = next]
        BY <1>t, <2>6 DEF WriteView, EditAt, EditGoto, OwnersTyped
    <3> QED BY <2>2, <3>1 DEF Edit, ReadsRight, HasProduct, HasTarget
  <2>7. ASSUME CheckProject(c)
        PROVE  edit'[c] \in Edit /\ ReadsRight(edit'[c])
    <3>1. edit'[c] = [edit[c] EXCEPT !.step = "insert"]
        BY <1>t, <2>7 DEF CheckProject, EditGoto, OwnersTyped
    <3> QED BY <2>2, <3>1 DEF Edit, ReadsRight, HasProduct, HasTarget
  <2>8. ASSUME StoreUpdate(c)
        PROVE  edit'[c] \in Edit /\ ReadsRight(edit'[c])
    <3>1. edit[c].step = "row" /\ edit'[c] = [edit[c] EXCEPT !.step = "source"]
        BY <1>t, <2>8 DEF StoreUpdate, EditAt, EditGoto, OwnersTyped
    <3> QED BY <2>2, <3>1 DEF Edit, ReadsRight, HasProduct, HasTarget
  <2>9. ~EndEdit(c)
      BY <1>t DEF EndEdit, OwnersTyped
  <2> QED BY <1>3, <2>1, <2>3, <2>4, <2>5, <2>6, <2>7, <2>8, <2>9
          DEF EditStep, StoreDataset, UpdateBigqueryDatasource, StoreProduct, DeleteRows,
              EditFails
<1>4. ASSUME NEW u \in Editors, NEW p \in ProductIds, NEW g \in OwnerGroups, NEW i \in TeamIds,
             CreateDataproduct(u, p, g, i)
      PROVE  edit'[c] = edit[c]
    BY <1>4 DEF CreateDataproduct
<1> QED BY <1>1, <1>2, <1>3, <1>4 DEF CatalogueNext

\* What a step makes of the rows: no product changes hands, and a dataset moves
\* only to a product of the group that owns it.
LEMMA StepsKeepOwners ==
    ASSUME OwnersInv, CatalogueNext \/ UNCHANGED catalogueVars
    PROVE  /\ products' \in [ProductIds -> Product \cup {Nothing, Gone}]
           /\ datasets' \in [DatasetIds -> ProductIds \cup {Nothing, Gone}]
           /\ DatasetsHaveProducts'
           /\ RowsKeepOwners
<1> DEFINE Goal == /\ products' \in [ProductIds -> Product \cup {Nothing, Gone}]
                   /\ datasets' \in [DatasetIds -> ProductIds \cup {Nothing, Gone}]
                   /\ DatasetsHaveProducts'
                   /\ RowsKeepOwners
<1>t. OwnersTyped /\ DatasetsHaveProducts
    BY DEF OwnersInv
<1>1. ASSUME UNCHANGED <<products, datasets>>
      PROVE  Goal
    BY <1>t, <1>1 DEF OwnersTyped, DatasetsHaveProducts, RowsKeepOwners, ProductExists,
       DatasetExists, GroupOfDataset
<1>2. ASSUME NEW p \in ProductIds, NEW g \in OwnerGroups, NEW i \in TeamIds,
             InsertProduct(p, g, i), datasets' = datasets
      PROVE  Goal
  <2>1. products[p] = Nothing /\ products' = [products EXCEPT ![p] = [group |-> g, team |-> i]]
      BY <1>2 DEF InsertProduct
  <2>2. [group |-> g, team |-> i] \in Product
      BY DEF Product
  <2>3. products' \in [ProductIds -> Product \cup {Nothing, Gone}]
      BY <1>t, <2>1, <2>2 DEF OwnersTyped
  <2>4. \A q \in ProductIds : q # p => products'[q] = products[q]
      BY <1>t, <2>1 DEF OwnersTyped
  <2>5. ProductExists(p)' /\ ~ProductExists(p)
      BY <1>t, <2>1, <2>2, RowsAssumption DEF OwnersTyped, ProductExists
  <2> QED BY <1>t, <1>2, <2>1, <2>3, <2>4, <2>5 DEF OwnersTyped, DatasetsHaveProducts,
             RowsKeepOwners, ProductExists, DatasetExists, GroupOfDataset
<1>3. ASSUME NEW p \in ProductIds, NEW i \in TeamIds, UpdateProductRow(p, i), datasets' = datasets
      PROVE  Goal
  <2> DEFINE new == [products[p] EXCEPT !.team = i]
  <2>1. products[p] \in Product /\ products' = [products EXCEPT ![p] = new]
      BY <1>t, <1>3 DEF UpdateProductRow, OwnersTyped, ProductExists
  <2>2. new \in Product /\ new.group = products[p].group
      BY <2>1 DEF Product
  <2>3. products' \in [ProductIds -> Product \cup {Nothing, Gone}]
      BY <1>t, <2>1, <2>2 DEF OwnersTyped
  <2>4. \A q \in ProductIds : q # p => products'[q] = products[q]
      BY <1>t, <2>1 DEF OwnersTyped
  <2>5. products'[p] = new
      BY <1>t, <2>1 DEF OwnersTyped
  <2> HIDE DEF new
  <2>6. \A q \in ProductIds : /\ ProductExists(q)' <=> ProductExists(q)
                              /\ ProductExists(q) => products'[q].group = products[q].group
                              /\ products'[q] = Nothing <=> products[q] = Nothing
      BY <2>1, <2>2, <2>4, <2>5, RowsAssumption DEF ProductExists
  <2>7. \A d \in DatasetIds : /\ DatasetExists(d)' <=> DatasetExists(d)
                              /\ DatasetExists(d) => /\ datasets[d] \in ProductIds
                                                    /\ ProductExists(datasets[d])
      BY <1>t, <1>3 DEF DatasetExists, DatasetsHaveProducts, OwnersTyped
  <2> QED BY <1>t, <1>3, <2>3, <2>6, <2>7 DEF OwnersTyped, DatasetsHaveProducts,
             RowsKeepOwners, GroupOfDataset
<1>4. ASSUME NEW p, DeleteProductRow(p)
      PROVE  Goal
  <2>1. /\ products' = [products EXCEPT ![p] = IF ProductExists(p) THEN Gone ELSE @]
        /\ datasets' = [d \in DatasetIds |-> IF datasets[d] = p THEN Gone ELSE datasets[d]]
      BY <1>4 DEF DeleteProductRow
  <2>2. \A q \in ProductIds : q # p => products'[q] = products[q]
      BY <1>t, <2>1 DEF OwnersTyped
  <2>3. \A q \in ProductIds : products'[q] \in {products[q], Gone}
      BY <1>t, <2>1 DEF OwnersTyped
  <2>4. products' \in [ProductIds -> Product \cup {Nothing, Gone}]
      BY <1>t, <2>1 DEF OwnersTyped
  <2>5. \A d \in DatasetIds : datasets'[d] # Gone => datasets'[d] = datasets[d] /\ datasets[d] # p
      BY <2>1
  <2>6. datasets' \in [DatasetIds -> ProductIds \cup {Nothing, Gone}]
      BY <1>t, <2>1 DEF OwnersTyped
  <2>7. \A d \in DatasetIds : datasets[d] # Nothing => datasets'[d] # Nothing
      BY <2>1, CatalogueAssumption
  <2>8. \A q \in ProductIds : products[q] # Nothing => products'[q] # Nothing
      BY <2>1, <2>3, CatalogueAssumption
  <2>9. \A q \in ProductIds : ProductExists(q)' => products'[q] = products[q]
      BY <2>3 DEF ProductExists
  <2>10. \A d \in DatasetIds : DatasetExists(d)' =>
            /\ datasets'[d] = datasets[d]
            /\ datasets[d] \in ProductIds
            /\ products'[datasets[d]] = products[datasets[d]]
      BY <1>t, <2>2, <2>5 DEF DatasetExists, OwnersTyped
  <2> QED BY <1>t, <2>4, <2>6, <2>7, <2>8, <2>9, <2>10 DEF DatasetsHaveProducts, RowsKeepOwners,
             ProductExists, DatasetExists, GroupOfDataset
<1>5. ASSUME NEW d \in DatasetIds, DeleteDatasetRow(d), products' = products
      PROVE  Goal
  <2>1. datasets' = [datasets EXCEPT ![d] = IF DatasetExists(d) THEN Gone ELSE @]
      BY <1>5 DEF DeleteDatasetRow
  <2>2. datasets' \in [DatasetIds -> ProductIds \cup {Nothing, Gone}]
      BY <1>t, <2>1 DEF OwnersTyped
  <2>3. \A b \in DatasetIds : datasets'[b] \in {datasets[b], Gone}
      BY <1>t, <2>1 DEF OwnersTyped
  <2>4. \A b \in DatasetIds : datasets[b] # Nothing => datasets'[b] # Nothing
      BY <2>3, CatalogueAssumption
  <2>5. \A b \in DatasetIds : DatasetExists(b)' => datasets'[b] = datasets[b]
      BY <2>3 DEF DatasetExists
  <2> QED BY <1>t, <1>5, <2>2, <2>4, <2>5 DEF OwnersTyped, DatasetsHaveProducts, RowsKeepOwners,
             ProductExists, DatasetExists, GroupOfDataset
<1>6. ASSUME NEW d \in DatasetIds, NEW p, InsertDataset(d, p), products' = products
      PROVE  Goal
  <2>1. /\ datasets[d] = Nothing /\ p \in ProductIds /\ ProductExists(p)
        /\ datasets' = [datasets EXCEPT ![d] = p]
      BY <1>6 DEF InsertDataset, ProductExists
  <2>2. datasets' \in [DatasetIds -> ProductIds \cup {Nothing, Gone}]
      BY <1>t, <2>1 DEF OwnersTyped
  <2>3. datasets'[d] = p /\ \A b \in DatasetIds : b # d => datasets'[b] = datasets[b]
      BY <1>t, <2>1 DEF OwnersTyped
  <2> QED BY <1>t, <1>6, <2>1, <2>2, <2>3 DEF OwnersTyped, DatasetsHaveProducts, RowsKeepOwners,
             ProductExists, DatasetExists, GroupOfDataset
<1>7. ASSUME NEW c \in Edits, StoreUpdate(c)
      PROVE  Goal
  <2> DEFINE e == edit[c]
  <2>1. e # Nothing /\ e.step = "row" /\ UpdateDatasetRow(e.dataset, e.product)
      BY <1>7 DEF StoreUpdate, EditAt
  <2>2. e \in Edit /\ ReadsRight(e)
      BY <2>1 DEF OwnersInv, OwnersTyped
  <2>3. CASE e.op = "updateDataset"
    <3>1. /\ e.dataset \in DatasetIds /\ e.product \in ProductIds
          /\ DatasetExists(e.dataset) /\ ProductExists(e.product)
          /\ GroupOfDataset(e.dataset) = e.group /\ products[e.product].group = e.group
        BY <2>1, <2>2, <2>3 DEF ReadsRight, HasProduct, HasTarget, UpdateDatasetRow
    <3>2. datasets' = [datasets EXCEPT ![e.dataset] = e.product] /\ products' = products
        BY <1>7, <2>1 DEF UpdateDatasetRow, StoreUpdate
    <3>3. datasets' \in [DatasetIds -> ProductIds \cup {Nothing, Gone}]
        BY <1>t, <3>1, <3>2 DEF OwnersTyped
    <3>4. /\ datasets'[e.dataset] = e.product
          /\ \A b \in DatasetIds : b # e.dataset => datasets'[b] = datasets[b]
        BY <1>t, <3>1, <3>2 DEF OwnersTyped
    <3>5. e.product \notin {Nothing, Gone}
        BY <3>1, CatalogueAssumption
    <3> QED BY <1>t, <3>1, <3>2, <3>3, <3>4, <3>5 DEF OwnersTyped, DatasetsHaveProducts,
               RowsKeepOwners, ProductExists, DatasetExists, GroupOfDataset
  <2> QED BY <2>2, <2>1, <2>3 DEF ReadsRight, HasProduct
<1> HIDE DEF Goal
<1>8. ASSUME NEW u \in Editors, NEW p \in ProductIds, NEW g \in OwnerGroups, NEW i \in TeamIds,
             CreateDataproduct(u, p, g, i)
      PROVE  Goal
    BY <1>2, <1>8 DEF CreateDataproduct
<1>9. ASSUME NEW c \in Edits, StartEdit(c)
      PROVE  Goal
    BY <1>1, <1>9 DEF StartEdit, UpdateDataproduct, DeleteDataproduct, CreateDataset,
       UpdateDataset, DeleteDataset, BeginEdit
<1>10. ASSUME NEW c \in Edits, EditStep(c)
       PROVE  Goal
  <2>1. ASSUME NEW d \in DatasetIds, StoreDataset(c, d)
        PROVE  Goal
      BY <1>6, <2>1 DEF StoreDataset
  <2>2. ASSUME StoreProduct(c)
        PROVE  Goal
    <3>1. /\ UpdateProductRow(edit[c].product, edit[c].team) /\ datasets' = datasets
          /\ edit[c] \in Edit
        BY <1>t, <2>2 DEF StoreProduct, EditAt, OwnersTyped
    <3>2. edit[c].product \in ProductIds /\ edit[c].team \in TeamIds
        BY <3>1 DEF UpdateProductRow, ProductExists, Edit
    <3> QED BY <1>3, <3>1, <3>2
  <2>3. ASSUME DeleteRows(c)
        PROVE  Goal
    <3>1. CASE edit[c].op = "deleteProduct"
        BY <1>4, <2>3, <3>1 DEF DeleteRows
    <3>2. CASE edit[c].op # "deleteProduct"
      <4>1. DeleteDatasetRow(edit[c].dataset) /\ products' = products
          BY <2>3, <3>2 DEF DeleteRows
      <4>2. CASE edit[c].dataset \in DatasetIds
          BY <1>5, <4>1, <4>2
      <4>3. CASE edit[c].dataset \notin DatasetIds
        <5>1. datasets' = datasets
            BY <1>t, <4>1, <4>3 DEF DeleteDatasetRow, OwnersTyped
        <5> QED BY <1>1, <4>1, <5>1
      <4> QED BY <4>2, <4>3
    <3> QED BY <3>1, <3>2
  <2>4. ASSUME UNCHANGED <<products, datasets>>
        PROVE  Goal
      BY <1>1, <2>4
  <2> QED BY <1>7, <1>10, <2>1, <2>2, <2>3, <2>4 DEF EditStep, GetDataset, GetDataproduct,
             GetTarget, WriteView, CheckProject, UpdateBigqueryDatasource, EditFails
<1>11. ASSUME UNCHANGED catalogueVars
       PROVE  Goal
    BY <1>1, <1>11 DEF catalogueVars
<1>12. Goal
    BY <1>8, <1>9, <1>10, <1>11 DEF CatalogueNext
<1> QED BY <1>12 DEF Goal

\* What handlers hold about the owners of datasets is and stays right.
LEMMA OwnersInvariant == CatalogueSpec => []OwnersInv
<1>1. CatalogueInit => OwnersInv
    BY DEF CatalogueInit, OwnersInv, OwnersTyped, DatasetsHaveProducts, DatasetExists
<1>2. ASSUME OwnersInv, [CatalogueNext]_catalogueVars
      PROVE  OwnersInv'
  <2>1. /\ products' \in [ProductIds -> Product \cup {Nothing, Gone}]
        /\ datasets' \in [DatasetIds -> ProductIds \cup {Nothing, Gone}]
        /\ DatasetsHaveProducts'
        /\ RowsKeepOwners
      BY <1>2, StepsKeepOwners
  <2>2. \A c \in Edits : edit'[c] # Nothing => edit'[c] \in Edit /\ ReadsRight(edit'[c])
    <3>1. CASE CatalogueNext
        BY <1>2, <3>1, StepsRead
    <3>2. CASE UNCHANGED catalogueVars
        BY <1>2, <3>2 DEF catalogueVars, OwnersInv, OwnersTyped
    <3> QED BY <1>2, <3>1, <3>2
  <2>3. edit' \in [Edits -> Edit \cup {Nothing}]
    <3>1. \E S : edit' \in [Edits -> S]
        <4>1. edit \in [Edits -> Edit \cup {Nothing}]
            BY <1>2 DEF OwnersInv, OwnersTyped
        <4>2. edit' = edit \/ \E c \in Edits : \E e : edit' = [edit EXCEPT ![c] = e]
          <5>1. ASSUME NEW c \in Edits, StartEdit(c)
                PROVE  \E e : edit' = [edit EXCEPT ![c] = e]
              BY <5>1 DEF StartEdit, UpdateDataproduct, DeleteDataproduct, CreateDataset,
                 UpdateDataset, DeleteDataset, BeginEdit
          <5>2. ASSUME NEW c \in Edits, EditStep(c)
                PROVE  \E e : edit' = [edit EXCEPT ![c] = e]
            <6>1. \/ EndEdit(c) \/ GetDataset(c) \/ GetDataproduct(c)
                  \/ \E step : EditGoto(c, step)
                BY <5>2 DEF EditStep, GetTarget, WriteView, CheckProject, StoreDataset,
                   StoreUpdate, UpdateBigqueryDatasource, StoreProduct, DeleteRows, EditFails
            <6>2. CASE EndEdit(c)
                BY <6>2 DEF EndEdit
            <6>3. CASE GetDataset(c)
                BY <6>3 DEF GetDataset
            <6>4. CASE GetDataproduct(c)
                BY <6>4 DEF GetDataproduct
            <6>5. CASE \E step : EditGoto(c, step)
                BY <6>5 DEF EditGoto
            <6> QED BY <6>1, <6>2, <6>3, <6>4, <6>5
          <5>3. CASE UNCHANGED catalogueVars
              BY <5>3 DEF catalogueVars
          <5> QED BY <1>2, <5>1, <5>2, <5>3 DEF CatalogueNext, CreateDataproduct
        <4>3. ASSUME NEW c \in Edits, NEW e, edit' = [edit EXCEPT ![c] = e]
              PROVE  edit' \in [Edits -> Edit \cup {Nothing} \cup {e}]
            BY <4>1, <4>3
        <4> QED BY <4>1, <4>2, <4>3
    <3> QED BY <2>2, <3>1
  <2>4. OwnersTyped'
      BY <2>1, <2>3 DEF OwnersTyped
  <2>5. \A e \in Edit : ReadsRight(e) => ReadsRight(e)'
      BY <1>2, <2>1, <2>4, ReadsStayRight
  <2>6. ASSUME NEW c \in Edits, edit'[c] # Nothing
        PROVE  ReadsRight(edit[c])'
    <3>1. PICK e \in Edit : e = edit'[c] /\ ReadsRight(e)
        BY <2>2, <2>6
    <3>2. ReadsRight(e)'
        BY <2>5, <3>1
    <3> QED BY <3>1, <3>2 DEF ReadsRight
  <2> QED BY <2>1, <2>4, <2>6 DEF OwnersInv
<1> QED BY <1>1, <1>2, PTL DEF CatalogueSpec

\* A dataset stays with the group that registered it, whatever moves and edits
\* overlap (UpdateDataset, service_dataproducts.go).
THEOREM OwnersStay == CatalogueSpec => OwnerNeverChanges
<1>1. ASSUME OwnersInv, [CatalogueNext]_catalogueVars
      PROVE  [\A d \in DatasetIds : (DatasetExists(d) /\ DatasetExists(d)') =>
                 GroupOfDataset(d)' = GroupOfDataset(d)]_catalogueVars
    BY <1>1, StepsKeepOwners DEF RowsKeepOwners, DatasetExists
<1> QED BY <1>1, OwnersInvariant, PTL DEF CatalogueSpec, OwnerNeverChanges

-----------------------------------------------------------------------------
(* Who changes datasets, and what their views hide *)

\* The variables that say what a view hides
ViewsTyped ==
    /\ sources \in [DatasetIds -> Datasource \cup {Nothing}]
    /\ pseudoViews \in [Tables -> (SUBSET Columns) \cup {Nothing}]
    /\ author \in [Tables -> Edits \cup DatasetIds \cup {Nothing}]

\* A dataset has had a row of its table since it was stored.
DatasetsHaveSources == \A d \in DatasetIds : (datasets[d] # Nothing) <=> (sources[d] # Nothing)

\* What a handler has done and checked at each step
StepRight(e) ==
    /\ e.step \notin {"dataset", "product"} => e.group \in MemberOfGroups[e.user]
    /\ e.step = "dataset" => e.op \in {"updateDataset", "deleteDataset"}
    /\ e.step = "target" => e.op = "updateDataset"
    /\ e.step = "view" => e.op \in {"createDataset", "updateDataset"} /\ e.columns # {}
    /\ e.step \in {"project", "insert"} => e.op = "createDataset"
    /\ e.step = "delete" => e.op \in {"deleteDataset", "deleteProduct"}

\* What a deletion has read: the owner of what it is to delete.
DeletesOwned(e) ==
    /\ e.op = "deleteDataset" =>
        /\ e.dataset \in DatasetIds
        /\ e.step # "dataset" => datasets[e.dataset] # Nothing
        /\ e.step = "product" =>
              /\ e.from \in ProductIds /\ products[e.from] # Nothing
              /\ (DatasetExists(e.dataset) /\ ProductExists(e.from)) =>
                    GroupOfDataset(e.dataset) = products[e.from].group
        /\ e.step = "delete" => (DatasetExists(e.dataset) => GroupOfDataset(e.dataset) = e.group)
    /\ e.op = "deleteProduct" =>
        /\ e.product = e.from /\ e.product \in ProductIds
        /\ e.step = "delete" =>
              /\ products[e.product] # Nothing
              /\ ProductExists(e.product) => products[e.product].group = e.group

\* The table that a handler rewrites the view of
TableOf(e) == IF e.op = "updateDataset" THEN sources[e.dataset].table ELSE e.table

\* The steps of a handler that has rewritten a view and is to store the rows
AtWork == {"project", "insert", "row", "source"}

\* The handler that rewrote a view last has still to store what it hides ...
AuthorAtWork(t) == author[t] \in Edits =>
    LET e == edit[author[t]]
    IN /\ e # Nothing
       /\ e.step \in AtWork
       /\ e.columns # {}
       /\ t = TableOf(e)
       /\ pseudoViews[t] = e.columns

\* ... and the dataset it did so for lists nothing that the view shows.
AuthorDone(t) == author[t] \in DatasetIds =>
    LET s == sources[author[t]]
    IN s # Nothing /\ s.table = t /\ s.columns \subseteq pseudoViews[t]

\* What is shown to stay true, beside OwnersInv
ViewsInv ==
    /\ ViewsTyped
    /\ DatasetsHaveSources
    /\ \A c \in Edits : edit[c] # Nothing => StepRight(edit[c]) /\ DeletesOwned(edit[c])
    /\ \A t \in Tables : AuthorAtWork(t) /\ AuthorDone(t)

\* A dataset changes only for a user of the group that owns it.
OwnersChange == \A d \in DatasetIds :
    (DatasetExists(d) /\ (datasets'[d] # datasets[d] \/ sources'[d].columns # sources[d].columns)) =>
        \E c \in Edits : /\ edit[c] # Nothing
                         /\ edit'[c] # edit[c]
                         /\ GroupOfDataset(d) \in MemberOfGroups[edit[c].user]

\* The arguments of a handler stay, whatever it reads.
LEMMA RequestsStay ==
    ASSUME OwnersInv, CatalogueNext, NEW c \in Edits, edit[c] # Nothing, edit'[c] # Nothing
    PROVE  LET e == edit[c] f == edit'[c]
           IN /\ f.op = e.op /\ f.user = e.user /\ f.dataset = e.dataset
              /\ f.table = e.table /\ f.columns = e.columns
<1>t. edit \in [Edits -> Edit \cup {Nothing}] /\ edit[c] \in Edit
    BY DEF OwnersInv, OwnersTyped
<1>1. CASE edit'[c] = edit[c]
    BY <1>1
<1>2. ASSUME NEW b \in Edits, StartEdit(b)
      PROVE  edit'[c] = edit[c]
    BY <1>t, <1>2 DEF StartEdit, UpdateDataproduct, DeleteDataproduct, CreateDataset,
       UpdateDataset, DeleteDataset, BeginEdit
<1>3. ASSUME NEW b \in Edits, EditStep(b), b # c
      PROVE  edit'[c] = edit[c]
    BY <1>t, <1>3 DEF EditStep, GetDataset, GetDataproduct, GetTarget, WriteView,
       CheckProject, StoreDataset, StoreUpdate, UpdateBigqueryDatasource, StoreProduct,
       DeleteRows, EditFails, EditGoto, EndEdit
<1>4. ASSUME EditStep(c)
      PROVE  LET e == edit[c] f == edit'[c]
             IN /\ f.op = e.op /\ f.user = e.user /\ f.dataset = e.dataset
                /\ f.table = e.table /\ f.columns = e.columns
  <2>1. ~EndEdit(c)
      BY <1>t DEF EndEdit
  <2>2. CASE GetDataset(c)
    <3>1. PICK p, q : edit'[c] = [edit[c] EXCEPT !.from = p, !.step = "product", !.product = q]
        BY <1>t, <2>2 DEF GetDataset
    <3> QED BY <1>t, <3>1 DEF Edit
  <2>3. CASE GetDataproduct(c)
    <3>1. PICK g, s : edit'[c] = [edit[c] EXCEPT !.group = g, !.step = s]
        BY <1>t, <2>3 DEF GetDataproduct
    <3> QED BY <1>t, <3>1 DEF Edit
  <2>4. CASE \E s : EditGoto(c, s)
    <3>1. PICK s : edit'[c] = [edit[c] EXCEPT !.step = s]
        BY <1>t, <2>4 DEF EditGoto
    <3> QED BY <1>t, <3>1 DEF Edit
  <2> QED BY <1>4, <2>1, <2>2, <2>3, <2>4 DEF EditStep, GetTarget, WriteView, CheckProject,
          StoreDataset, StoreUpdate, UpdateBigqueryDatasource, StoreProduct, DeleteRows, EditFails
<1>5. ASSUME NEW u \in Editors, NEW p \in ProductIds, NEW g \in OwnerGroups, NEW i \in TeamIds,
             CreateDataproduct(u, p, g, i)
      PROVE  edit'[c] = edit[c]
    BY <1>5 DEF CreateDataproduct
<1> QED BY <1>1, <1>2, <1>3, <1>4, <1>5 DEF CatalogueNext

\* What a deletion has read stays right when rows change as they do.
LEMMA DeletesStayOwned ==
    ASSUME OwnersInv, RowsKeepOwners, NEW e \in Edit, DeletesOwned(e)
    PROVE  DeletesOwned(e)'
<1> DEFINE d == e.dataset
<1>1. ASSUME e.op = "deleteDataset"
      PROVE  /\ d \in DatasetIds
             /\ e.step # "dataset" =>
                  /\ datasets'[d] # Nothing
                  /\ DatasetExists(d)' => DatasetExists(d) /\ GroupOfDataset(d)' = GroupOfDataset(d)
    BY <1>1 DEF DeletesOwned, RowsKeepOwners
<1>2. ASSUME e.op = "deleteDataset", e.step = "product"
      PROVE  /\ e.from \in ProductIds /\ products'[e.from] # Nothing
             /\ (DatasetExists(d)' /\ ProductExists(e.from)') =>
                   GroupOfDataset(d)' = products'[e.from].group
    BY <1>1, <1>2 DEF DeletesOwned, RowsKeepOwners
<1>3. ASSUME e.op = "deleteDataset", e.step = "delete", DatasetExists(d)'
      PROVE  GroupOfDataset(d)' = e.group
    BY <1>1, <1>3 DEF DeletesOwned
<1>4. ASSUME e.op = "deleteProduct"
      PROVE  /\ e.product = e.from /\ e.product \in ProductIds
             /\ e.step = "delete" =>
                   /\ products'[e.product] # Nothing
                   /\ ProductExists(e.product)' => products'[e.product].group = e.group
    BY <1>4 DEF DeletesOwned, RowsKeepOwners
<1> QED BY <1>1, <1>2, <1>3, <1>4 DEF DeletesOwned

\* What a step makes of a handler that goes on
LEMMA StepsCheck ==
    ASSUME OwnersInv, ViewsInv, CatalogueNext, NEW c \in Edits, edit'[c] # Nothing
    PROVE  StepRight(edit'[c]) /\ DeletesOwned(edit'[c])
<1> USE DEF ensureUserInGroup
<1>t. OwnersTyped /\ DatasetsHaveProducts
    BY DEF OwnersInv
<1>0. edit[c] # Nothing => edit[c] \in Edit /\ StepRight(edit[c]) /\ DeletesOwned(edit[c])
    BY <1>t DEF ViewsInv, OwnersTyped
<1>1. CASE edit'[c] = edit[c]
    BY <1>0, <1>1
<1>2. ASSUME NEW b \in Edits, StartEdit(b), edit'[c] # edit[c]
      PROVE  StepRight(edit'[c]) /\ DeletesOwned(edit'[c])
  <2>1. PICK op \in {"createDataset", "updateDataset", "deleteDataset",
                      "updateProduct", "deleteProduct"},
             u \in Editors, d \in DatasetIds \cup {Nothing}, p \in ProductIds \cup {Nothing},
             t \in Tables, columns \in SUBSET Columns, i \in TeamIds,
             step \in {"dataset", "product"} :
           /\ BeginEdit(b, op, u, d, p, t, columns, i, step)
           /\ step = "dataset" => op \in {"updateDataset", "deleteDataset"}
           /\ op = "deleteDataset" => d \in DatasetIds /\ step = "dataset"
           /\ op = "deleteProduct" => p \in ProductIds /\ step = "product"
    <3>1. {} \in SUBSET Columns /\ PiiChoices \subseteq SUBSET Columns
        BY CatalogueAssumption
    <3> QED BY <1>2, <3>1 DEF StartEdit, UpdateDataproduct, DeleteDataproduct,
               CreateDataset, UpdateDataset, DeleteDataset
  <2>2. edit'[c] = [op |-> op, user |-> u, dataset |-> d, product |-> p, table |-> t,
                    columns |-> columns, team |-> i, from |-> p, group |-> Nothing,
                    step |-> step]
      BY <1>t, <1>2, <2>1 DEF BeginEdit, OwnersTyped
  <2> QED BY <2>1, <2>2 DEF StepRight, DeletesOwned
<1>3. ASSUME NEW b \in Edits, EditStep(b), edit'[c] # edit[c]
      PROVE  StepRight(edit'[c]) /\ DeletesOwned(edit'[c])
  <2>1. b = c
      BY <1>t, <1>3 DEF EditStep, GetDataset, GetDataproduct, GetTarget, WriteView,
         CheckProject, StoreDataset, StoreUpdate, UpdateBigqueryDatasource, StoreProduct,
         DeleteRows, EditFails, EditGoto, EndEdit, OwnersTyped
  <2>2. edit[c] \in Edit /\ StepRight(edit[c]) /\ DeletesOwned(edit[c])
    <3>1. edit[c] # Nothing
        BY <1>3, <2>1 DEF EditStep, EditAt, GetDataset, GetDataproduct, GetTarget, WriteView,
           CheckProject, StoreDataset, StoreUpdate, UpdateBigqueryDatasource, StoreProduct,
           DeleteRows, EditFails
    <3> QED BY <3>1, <1>0
  <2>3. ASSUME GetDataset(c)
        PROVE  StepRight(edit'[c]) /\ DeletesOwned(edit'[c])
    <3> DEFINE e == edit[c]
               p == datasets[e.dataset]
    <3>1. e.step = "dataset" /\ DatasetExists(e.dataset)
        BY <2>3 DEF GetDataset, EditAt
    <3>2. edit'[c] = [e EXCEPT !.from = p, !.step = "product",
                               !.product = IF @ = Nothing THEN p ELSE @]
        BY <1>t, <2>3 DEF GetDataset, OwnersTyped
    <3>3. /\ edit'[c].op = e.op /\ edit'[c].dataset = e.dataset
          /\ edit'[c].from = p /\ edit'[c].step = "product"
          /\ edit'[c].product = IF e.product = Nothing THEN p ELSE e.product
        BY <2>2, <3>2 DEF Edit
    <3>4. e.op # "deleteProduct"
        BY <2>2, <3>1 DEF StepRight
    <3>5. ASSUME e.op = "deleteDataset"
          PROVE  e.dataset \in DatasetIds /\ p \in ProductIds /\ products[p] # Nothing
        BY <1>t, <2>2, <3>1, <3>5 DEF DeletesOwned, OwnersTyped, DatasetsHaveProducts,
           DatasetExists, ProductExists
    <3> QED BY <3>1, <3>3, <3>4, <3>5 DEF StepRight, DeletesOwned, DatasetExists,
            GroupOfDataset
  <2>4. ASSUME GetDataproduct(c)
        PROVE  StepRight(edit'[c]) /\ DeletesOwned(edit'[c])
    <3> DEFINE e == edit[c]
               g == products[e.from].group
               next == IF e.op = "updateDataset" /\ e.product # e.from
                       THEN "target" ELSE AfterChecks(c)
    <3>1. e.step = "product" /\ ProductExists(e.from) /\ g \in MemberOfGroups[e.user]
        BY <2>4 DEF GetDataproduct, EditAt
    <3>2. edit'[c] = [e EXCEPT !.group = g, !.step = next]
        BY <1>t, <2>4 DEF GetDataproduct, OwnersTyped
    <3>3. /\ edit'[c].op = e.op /\ edit'[c].user = e.user /\ edit'[c].dataset = e.dataset
          /\ edit'[c].product = e.product /\ edit'[c].columns = e.columns
          /\ edit'[c].from = e.from /\ edit'[c].group = g /\ edit'[c].step = next
        BY <2>2, <3>2 DEF Edit
    <3>4. /\ next \in {"target", "view", "project", "row", "write", "delete"}
          /\ next = "target" => e.op = "updateDataset"
          /\ next = "view" => e.op \in {"createDataset", "updateDataset"} /\ e.columns # {}
          /\ next = "project" => e.op = "createDataset"
          /\ next = "delete" => e.op \in {"deleteDataset", "deleteProduct"}
        BY <2>2 DEF AfterChecks, Edit
    <3> HIDE DEF next
    <3>5. StepRight(edit'[c])
        BY <3>1, <3>3, <3>4 DEF StepRight
    <3>6. DeletesOwned(edit'[c])
        BY <2>2, <3>1, <3>3, <3>4 DEF DeletesOwned, ProductExists
    <3> QED BY <3>5, <3>6
  <2>5. ASSUME GetTarget(c)
        PROVE  StepRight(edit'[c]) /\ DeletesOwned(edit'[c])
    <3> DEFINE e == edit[c]
               next == AfterChecks(c)
    <3>1. e.step = "target"
        BY <2>5 DEF GetTarget, EditAt
    <3>2. edit'[c] = [e EXCEPT !.step = next]
        BY <1>t, <2>5 DEF GetTarget, EditGoto, OwnersTyped
    <3>3. e.op = "updateDataset"
        BY <2>2, <3>1 DEF StepRight
    <3>4. next \in {"view", "row"} /\ (next = "view" => e.columns # {})
        BY <3>3 DEF AfterChecks
    <3> HIDE DEF next
    <3> QED BY <2>2, <3>1, <3>2, <3>3, <3>4 DEF Edit, StepRight, DeletesOwned
  <2>6. ASSUME WriteView(c)
        PROVE  StepRight(edit'[c]) /\ DeletesOwned(edit'[c])
    <3> DEFINE e == edit[c]
               next == IF e.op = "updateDataset" THEN "row" ELSE "project"
    <3>1. e.step = "view" /\ edit'[c] = [e EXCEPT !.step = next]
        BY <1>t, <2>6 DEF WriteView, EditAt, EditGoto, OwnersTyped
    <3>2. e.op \in {"createDataset", "updateDataset"}
        BY <2>2, <3>1 DEF StepRight
    <3> QED BY <2>2, <3>1, <3>2 DEF Edit, StepRight, DeletesOwned
  <2>7. ASSUME CheckProject(c)
        PROVE  StepRight(edit'[c]) /\ DeletesOwned(edit'[c])
    <3>1. edit[c].step = "project" /\ edit'[c] = [edit[c] EXCEPT !.step = "insert"]
        BY <1>t, <2>7 DEF CheckProject, EditAt, EditGoto, OwnersTyped
    <3> QED BY <2>2, <3>1 DEF Edit, StepRight, DeletesOwned
  <2>8. ASSUME StoreUpdate(c)
        PROVE  StepRight(edit'[c]) /\ DeletesOwned(edit'[c])
    <3>1. edit[c].step = "row" /\ edit'[c] = [edit[c] EXCEPT !.step = "source"]
        BY <1>t, <2>8 DEF StoreUpdate, EditAt, EditGoto, OwnersTyped
    <3> QED BY <2>2, <3>1 DEF Edit, StepRight, DeletesOwned
  <2>9. ~EndEdit(c)
      BY <1>t DEF EndEdit, OwnersTyped
  <2> QED BY <1>3, <2>1, <2>3, <2>4, <2>5, <2>6, <2>7, <2>8, <2>9
          DEF EditStep, StoreDataset, UpdateBigqueryDatasource, StoreProduct, DeleteRows,
              EditFails
<1>4. ASSUME NEW u \in Editors, NEW p \in ProductIds, NEW g \in OwnerGroups, NEW i \in TeamIds,
             CreateDataproduct(u, p, g, i)
      PROVE  edit'[c] = edit[c]
    BY <1>4 DEF CreateDataproduct
<1> QED BY <1>1, <1>2, <1>3, <1>4 DEF CatalogueNext

\* A handler that has rewritten a view goes on until it stores the rows.
LEMMA WorkGoesOn ==
    ASSUME OwnersInv, CatalogueNext, NEW c \in Edits, edit[c] # Nothing, edit[c].step \in AtWork,
           ~EditFails(c), \A d \in DatasetIds : ~StoreDataset(c, d),
           ~UpdateBigqueryDatasource(c)
    PROVE  edit'[c] # Nothing /\ edit'[c].step \in AtWork
<1>t. edit \in [Edits -> Edit \cup {Nothing}] /\ edit[c] \in Edit
    BY DEF OwnersInv, OwnersTyped
<1>1. CASE edit'[c] = edit[c]
    BY <1>1
<1>2. ASSUME NEW b \in Edits, StartEdit(b)
      PROVE  edit'[c] = edit[c]
    BY <1>t, <1>2 DEF StartEdit, UpdateDataproduct, DeleteDataproduct, CreateDataset,
       UpdateDataset, DeleteDataset, BeginEdit
<1>3. ASSUME NEW b \in Edits, EditStep(b), b # c
      PROVE  edit'[c] = edit[c]
    BY <1>t, <1>3 DEF EditStep, GetDataset, GetDataproduct, GetTarget, WriteView,
       CheckProject, StoreDataset, StoreUpdate, UpdateBigqueryDatasource, StoreProduct,
       DeleteRows, EditFails, EditGoto, EndEdit
<1>4. ASSUME EditStep(c)
      PROVE  EditGoto(c, "insert") \/ EditGoto(c, "source")
    BY <1>4 DEF EditStep, AtWork, EditAt, GetDataset, GetDataproduct, GetTarget, WriteView,
       CheckProject, StoreUpdate, StoreProduct, DeleteRows
<1>5. ASSUME NEW s, EditGoto(c, s), s \in AtWork
      PROVE  edit'[c] # Nothing /\ edit'[c].step \in AtWork
  <2>1. edit'[c] = [edit[c] EXCEPT !.step = s]
      BY <1>t, <1>5 DEF EditGoto
  <2>2. edit'[c] \in Edit /\ edit'[c].step = s
      BY <1>t, <1>5, <2>1 DEF Edit, AtWork
  <2> QED BY <1>5, <2>2, RowsAssumption
<1>6. ASSUME NEW u \in Editors, NEW p \in ProductIds, NEW g \in OwnerGroups, NEW i \in TeamIds,
             CreateDataproduct(u, p, g, i)
      PROVE  edit'[c] = edit[c]
    BY <1>6 DEF CreateDataproduct
<1>7. "insert" \in AtWork /\ "source" \in AtWork
    BY DEF AtWork
<1> QED BY <1>1, <1>2, <1>3, <1>4, <1>5, <1>6, <1>7 DEF CatalogueNext

\* Only a creation makes a dataset.
LEMMA CreationsOnly ==
    ASSUME OwnersInv, ViewsInv, CatalogueNext,
           NEW d \in DatasetIds, datasets[d] = Nothing, datasets'[d] # Nothing
    PROVE  \E c \in Edits : StoreDataset(c, d)
<1>t. datasets \in [DatasetIds -> ProductIds \cup {Nothing, Gone}]
    BY DEF OwnersInv, OwnersTyped
<1>1. ASSUME NEW c \in Edits, StoreUpdate(c)
      PROVE  datasets'[d] = Nothing
    BY <1>t, <1>1 DEF StoreUpdate, UpdateDatasetRow, DatasetExists
<1>2. ASSUME NEW c \in Edits, DeleteRows(c)
      PROVE  datasets'[d] = Nothing
  <2>1. CASE edit[c].op = "deleteProduct"
    <3>1. edit[c].product # Nothing
        BY <1>2, <2>1, CatalogueAssumption DEF ViewsInv, DeletesOwned, DeleteRows, EditAt
    <3> QED BY <1>t, <1>2, <2>1, <3>1 DEF DeleteRows, DeleteProductRow
  <2>2. CASE edit[c].op # "deleteProduct"
      BY <1>t, <1>2, <2>2 DEF DeleteRows, DeleteDatasetRow, DatasetExists
  <2> QED BY <2>1, <2>2
<1>3. ASSUME NEW c \in Edits, NEW b \in DatasetIds, StoreDataset(c, b), b # d
      PROVE  datasets'[d] = Nothing
    BY <1>t, <1>3 DEF StoreDataset, InsertDataset
<1>4. datasets' # datasets
    OBVIOUS
<1>5. PICK c \in Edits : StartEdit(c) \/ EditStep(c)
    BY <1>4 DEF CatalogueNext, CreateDataproduct
<1>6. StoreUpdate(c) \/ DeleteRows(c) \/ \E b \in DatasetIds : StoreDataset(c, b)
    BY <1>4, <1>5 DEF StartEdit, EditStep,
        UpdateDataproduct, DeleteDataproduct, CreateDataset, UpdateDataset, DeleteDataset,
        BeginEdit, GetDataset, GetDataproduct, GetTarget, WriteView, CheckProject,
        UpdateBigqueryDatasource, StoreProduct, EditFails
<1> QED BY <1>1, <1>2, <1>3, <1>6

\* Datasets change for users of the group that owns them.
LEMMA OwnersMakeChanges ==
    ASSUME OwnersInv, ViewsInv, CatalogueNext
    PROVE  OwnersChange
<1> SUFFICES ASSUME NEW d \in DatasetIds, DatasetExists(d),
                    datasets'[d] # datasets[d] \/ sources'[d].columns # sources[d].columns
             PROVE  \E c \in Edits : /\ edit[c] # Nothing
                                     /\ edit'[c] # edit[c]
                                     /\ GroupOfDataset(d) \in MemberOfGroups[edit[c].user]
    BY DEF OwnersChange
<1>t. /\ OwnersTyped /\ ViewsTyped
      /\ \A c \in Edits : edit[c] # Nothing =>
            edit[c] \in Edit /\ ReadsRight(edit[c]) /\ StepRight(edit[c]) /\ DeletesOwned(edit[c])
    BY DEF OwnersInv, ViewsInv, OwnersTyped
<1>1. ASSUME NEW c \in Edits, StoreUpdate(c)
      PROVE  /\ edit[c] # Nothing
             /\ edit'[c] # edit[c]
             /\ GroupOfDataset(d) \in MemberOfGroups[edit[c].user]
  <2>1. /\ edit[c] \in Edit /\ edit[c].step = "row" /\ edit'[c] = [edit[c] EXCEPT !.step = "source"]
        /\ datasets' = [datasets EXCEPT ![edit[c].dataset] = edit[c].product] /\ sources' = sources
      BY <1>t, <1>1 DEF StoreUpdate, EditAt, EditGoto, UpdateDatasetRow, OwnersTyped
  <2>2. edit'[c].step = "source"
      BY <2>1 DEF Edit
  <2>3. d = edit[c].dataset
      BY <1>t, <2>1 DEF OwnersTyped
  <2>4. ReadsRight(edit[c]) /\ StepRight(edit[c]) /\ edit[c] # Nothing
      BY <1>t, <1>1 DEF StoreUpdate, EditAt
  <2>5. GroupOfDataset(d) = edit[c].group
      BY <2>1, <2>3, <2>4 DEF ReadsRight, HasProduct
  <2> QED BY <2>1, <2>2, <2>4, <2>5 DEF StepRight
<1>2. ASSUME NEW c \in Edits, UpdateBigqueryDatasource(c)
      PROVE  /\ edit[c] # Nothing
             /\ edit'[c] # edit[c]
             /\ GroupOfDataset(d) \in MemberOfGroups[edit[c].user]
  <2>1. /\ edit[c] # Nothing /\ edit[c].step = "source" /\ edit'[c] = Nothing
        /\ datasets' = datasets
        /\ sources' = [sources EXCEPT ![edit[c].dataset].columns = edit[c].columns]
      BY <1>t, <1>2 DEF UpdateBigqueryDatasource, EditAt, EndEdit, UpdateSourceRow, OwnersTyped
  <2>2. d = edit[c].dataset
      BY <1>t, <2>1 DEF ViewsTyped
  <2>3. GroupOfDataset(d) = edit[c].group
      BY <1>t, <2>1, <2>2 DEF ReadsRight, HasProduct
  <2> QED BY <1>t, <2>1, <2>3 DEF StepRight
<1>3. ASSUME NEW c \in Edits, DeleteRows(c)
      PROVE  /\ edit[c] # Nothing
             /\ edit'[c] # edit[c]
             /\ GroupOfDataset(d) \in MemberOfGroups[edit[c].user]
  <2>1. /\ edit[c] # Nothing /\ edit[c].step = "delete" /\ edit'[c] = Nothing /\ sources' = sources
      BY <1>t, <1>3 DEF DeleteRows, EditAt, EndEdit, OwnersTyped
  <2>2. DeletesOwned(edit[c]) /\ StepRight(edit[c]) /\ datasets'[d] # datasets[d]
      BY <1>t, <2>1
  <2>3. CASE edit[c].op = "deleteProduct"
    <3>1. datasets[d] = edit[c].product
        BY <1>3, <2>2, <2>3 DEF DeleteRows, DeleteProductRow
    <3>2. ProductExists(edit[c].product)
        BY <3>1 DEF OwnersInv, DatasetsHaveProducts
    <3>3. GroupOfDataset(d) = edit[c].group
        BY <2>1, <2>2, <2>3, <3>1, <3>2 DEF DeletesOwned, GroupOfDataset
    <3> QED BY <2>1, <2>2, <3>3 DEF StepRight
  <2>4. CASE edit[c].op # "deleteProduct"
    <3>1. edit[c].op = "deleteDataset"
        BY <2>1, <2>2, <2>4 DEF StepRight
    <3>2. d = edit[c].dataset
        BY <1>t, <1>3, <2>2, <2>4 DEF DeleteRows, DeleteDatasetRow, OwnersTyped
    <3>3. GroupOfDataset(d) = edit[c].group
        BY <2>1, <2>2, <3>1, <3>2 DEF DeletesOwned
    <3> QED BY <2>1, <2>2, <3>3 DEF StepRight
  <2> QED BY <2>3, <2>4
<1>4. ASSUME NEW c \in Edits, NEW b \in DatasetIds, StoreDataset(c, b)
      PROVE  FALSE
  <2>1. datasets[b] = Nothing /\ b # d
      BY <1>4 DEF StoreDataset, InsertDataset, DatasetExists
  <2>2. datasets'[d] = datasets[d]
      BY <1>t, <1>4, <2>1 DEF StoreDataset, InsertDataset, OwnersTyped
  <2>3. sources'[d] = sources[d]
      BY <1>t, <1>4, <2>1 DEF StoreDataset, InsertSource, ViewsTyped
  <2> QED BY <2>2, <2>3
<1>5. ~(datasets' = datasets /\ sources' = sources)
    OBVIOUS
<1>6. PICK c \in Edits : StartEdit(c) \/ EditStep(c)
    BY <1>5 DEF CatalogueNext, CreateDataproduct
<1>7. StoreUpdate(c) \/ UpdateBigqueryDatasource(c) \/ DeleteRows(c)
    BY <1>4, <1>5, <1>6 DEF StartEdit, EditStep,
        UpdateDataproduct, DeleteDataproduct, CreateDataset, UpdateDataset, DeleteDataset,
        BeginEdit, GetDataset, GetDataproduct, GetTarget, WriteView, CheckProject,
        StoreProduct, EditFails
<1> QED BY <1>1, <1>2, <1>3, <1>7

\* A handler at work has rewritten the view of one table, its own, if any.
LEMMA AuthorsTable ==
    ASSUME OwnersInv, ViewsInv, NEW t \in Tables, author[t] \in Edits
    PROVE  LET e == edit[author[t]]
           IN /\ e \in Edit /\ e.step \in AtWork /\ e.columns # {} /\ t = TableOf(e)
              /\ pseudoViews[t] = e.columns
              /\ e.op = "updateDataset" =>
                    e.dataset \in DatasetIds /\ datasets[e.dataset] # Nothing
<1>1. /\ edit[author[t]] \in Edit /\ ReadsRight(edit[author[t]]) /\ StepRight(edit[author[t]])
      /\ AuthorAtWork(t) /\ edit[author[t]] # Nothing
    BY DEF OwnersInv, OwnersTyped, ViewsInv, AuthorAtWork
<1> QED BY <1>1 DEF AuthorAtWork, ReadsRight, StepRight, AtWork, HasProduct

\* The author of a view stays at work when its record and its table do.
LEMMA AuthorStaysAtWork ==
    ASSUME OwnersInv, ViewsInv, NEW t \in Tables, author[t] \in Edits,
           author'[t] = author[t], pseudoViews'[t] = pseudoViews[t],
           edit'[author[t]] # Nothing, edit'[author[t]].step \in AtWork,
           LET e == edit[author[t]] f == edit'[author[t]]
           IN f.op = e.op /\ f.dataset = e.dataset /\ f.table = e.table /\ f.columns = e.columns,
           edit[author[t]].op = "updateDataset" =>
              sources'[edit[author[t]].dataset].table = sources[edit[author[t]].dataset].table
    PROVE  AuthorAtWork(t)' /\ AuthorDone(t)'
<1>1. author[t] \notin DatasetIds
    BY CatalogueAssumption
<1> QED BY <1>1, AuthorsTable DEF AuthorAtWork, AuthorDone, TableOf

\* The dataset that a view was rewritten for stays right with the two.
LEMMA AuthorStaysDone ==
    ASSUME ViewsInv, NEW t \in Tables, author[t] \in DatasetIds,
           author'[t] = author[t], pseudoViews'[t] = pseudoViews[t],
           sources'[author[t]] = sources[author[t]]
    PROVE  AuthorAtWork(t)' /\ AuthorDone(t)'
<1>1. author[t] \notin Edits
    BY CatalogueAssumption
<1> QED BY <1>1 DEF ViewsInv, AuthorAtWork, AuthorDone

\* What is true of a view with no author
LEMMA NoAuthor ==
    ASSUME NEW t \in Tables, author'[t] = Nothing
    PROVE  AuthorAtWork(t)' /\ AuthorDone(t)'
BY CatalogueAssumption DEF AuthorAtWork, AuthorDone

\* What the steps of handlers make of views and of what rows say of them
ViewsMoveSo ==
    /\ ViewsTyped'
    /\ DatasetsHaveSources'
    /\ \A t \in Tables : AuthorAtWork(t)' /\ AuthorDone(t)'

\* WriteView: the view is the handler's, whoever's it was.
LEMMA WriteViewMoves ==
    ASSUME OwnersInv, ViewsInv, NEW b \in Edits, WriteView(b)
    PROVE  ViewsMoveSo
<1> DEFINE e == edit[b]
           t0 == TableOf(e)
           next == IF e.op = "updateDataset" THEN "row" ELSE "project"
<1>1. /\ e \in Edit /\ e # Nothing /\ e.step = "view" /\ ReadsRight(e) /\ StepRight(e)
      /\ edit \in [Edits -> Edit \cup {Nothing}]
    BY DEF WriteView, EditAt, OwnersInv, OwnersTyped, ViewsInv
<1>2. t0 \in Tables
  <2>1. CASE e.op = "updateDataset"
    <3>1. e.dataset \in DatasetIds /\ sources[e.dataset] # Nothing
        BY <1>1, <2>1 DEF WriteView, ReferenceExists, ReadsRight
    <3>2. sources[e.dataset] \in Datasource
        BY <3>1 DEF ViewsInv, ViewsTyped
    <3> QED BY <2>1, <3>2 DEF TableOf, Datasource
  <2>2. CASE e.op # "updateDataset"
      BY <1>1, <2>2 DEF TableOf, Edit
  <2> QED BY <2>1, <2>2
<1>3. /\ pseudoViews' = [pseudoViews EXCEPT ![t0] = e.columns]
      /\ author' = [author EXCEPT ![t0] = b]
      /\ edit' = [edit EXCEPT ![b] = [e EXCEPT !.step = next]]
      /\ UNCHANGED <<datasets, sources>>
    BY <1>1 DEF WriteView, CreatePseudonymisedView, EditGoto, TableOf
<1> DEFINE f == [e EXCEPT !.step = next]
<1>4. /\ f \in Edit /\ f # Nothing /\ f.step \in AtWork /\ f.op = e.op /\ f.dataset = e.dataset
      /\ f.table = e.table /\ f.columns = e.columns
  <2>1. next \in {"row", "project"}
      OBVIOUS
  <2> HIDE DEF next
  <2>2. /\ f \in Edit /\ f.step = next /\ f.op = e.op /\ f.dataset = e.dataset
        /\ f.table = e.table /\ f.columns = e.columns
      BY <1>1, <2>1 DEF Edit
  <2> QED BY <2>1, <2>2, RowsAssumption DEF AtWork
<1>5. edit'[b] = f /\ \A c \in Edits : c # b => edit'[c] = edit[c]
    BY <1>1, <1>3
<1> HIDE DEF f
<1>6. ViewsTyped'
    BY <1>1, <1>2, <1>3 DEF ViewsInv, ViewsTyped, Edit
<1>7. ASSUME NEW t \in Tables, t = t0
      PROVE  AuthorAtWork(t)' /\ AuthorDone(t)'
  <2>1. author'[t] = b /\ pseudoViews'[t] = e.columns
      BY <1>2, <1>3, <1>7 DEF ViewsInv, ViewsTyped
  <2>2. e.columns # {} /\ TableOf(edit[b])' = t
      BY <1>1, <1>3, <1>4, <1>5, <1>7 DEF StepRight, TableOf
  <2>3. b \notin DatasetIds
      BY CatalogueAssumption
  <2> QED BY <1>4, <1>5, <2>1, <2>2, <2>3 DEF AuthorAtWork, AuthorDone
<1>8. ASSUME NEW t \in Tables, t # t0
      PROVE  AuthorAtWork(t)' /\ AuthorDone(t)'
  <2>1. author'[t] = author[t] /\ pseudoViews'[t] = pseudoViews[t]
      BY <1>3, <1>8 DEF ViewsInv, ViewsTyped
  <2>2. author[t] \in Edits \cup DatasetIds \cup {Nothing}
      BY DEF ViewsInv, ViewsTyped
  <2>3. CASE author[t] \in Edits
    <3>1. author[t] # b /\ edit[author[t]] # Nothing /\ edit[author[t]].step \in AtWork
        BY <1>1, <2>3, AuthorsTable, RowsAssumption DEF AtWork
    <3>2. edit'[author[t]] = edit[author[t]]
        BY <1>5, <2>3, <3>1
    <3> QED BY <1>3, <2>1, <2>3, <3>1, <3>2, AuthorStaysAtWork
  <2>4. CASE author[t] \in DatasetIds
      BY <1>3, <2>1, <2>4, AuthorStaysDone
  <2>5. CASE author[t] = Nothing
      BY <2>1, <2>5, NoAuthor
  <2> QED BY <2>2, <2>3, <2>4, <2>5
<1>9. DatasetsHaveSources'
    BY <1>3 DEF ViewsInv, DatasetsHaveSources
<1>10. \A t \in Tables : AuthorAtWork(t)' /\ AuthorDone(t)'
    BY <1>7, <1>8
<1> QED BY <1>6, <1>9, <1>10 DEF ViewsMoveSo

\* StoreDataset: the view is the new dataset's, if the handler's it was.
LEMMA StoreDatasetMoves ==
    ASSUME OwnersInv, ViewsInv, NEW b \in Edits, NEW d \in DatasetIds, StoreDataset(b, d)
    PROVE  ViewsMoveSo
<1> DEFINE e == edit[b]
           s == [table |-> e.table, columns |-> e.columns, reference |-> e.columns # {}]
<1>1. /\ e \in Edit /\ e # Nothing /\ e.step = "insert" /\ StepRight(e)
      /\ edit \in [Edits -> Edit \cup {Nothing}]
      /\ datasets \in [DatasetIds -> ProductIds \cup {Nothing, Gone}]
    BY DEF StoreDataset, EditAt, OwnersInv, OwnersTyped, ViewsInv
<1>2. /\ datasets[d] = Nothing /\ sources[d] = Nothing
      /\ e.product \in ProductIds
      /\ datasets' = [datasets EXCEPT ![d] = e.product]
      /\ sources' = [sources EXCEPT ![d] = s]
      /\ pseudoViews' = pseudoViews
      /\ edit' = [edit EXCEPT ![b] = Nothing]
    BY DEF StoreDataset, InsertDataset, InsertSource, EndEdit, ViewsInv, DatasetsHaveSources,
       ProductExists
<1>3. s \in Datasource /\ s # Nothing /\ s.table = e.table /\ s.columns = e.columns
  <2>1. s \in Datasource
      BY <1>1 DEF Datasource, Edit
  <2> QED BY <2>1, RowsAssumption
<1> HIDE DEF s
<1>4. ASSUME NEW t \in Tables
      PROVE  \/ author[t] # b /\ author'[t] = author[t]
             \/ author[t] # b /\ author'[t] = Nothing
             \/ author[t] = b /\ author'[t] = d /\ t = e.table /\ pseudoViews[t] = e.columns
  <2>1. author[t] = b => t = e.table /\ e.columns # {} /\ pseudoViews[t] = e.columns
      BY <1>1, AuthorsTable DEF StepRight, TableOf
  <2>2. (author' = author /\ e.columns = {}) \/ Credit(b, d, e.table)
      BY DEF StoreDataset
  <2>3. CASE Credit(b, d, e.table)
      BY <2>1, <2>3 DEF Credit, ViewsInv, ViewsTyped
  <2> QED BY <2>1, <2>2, <2>3
<1>5. ViewsTyped'
  <2>1. sources' \in [DatasetIds -> Datasource \cup {Nothing}]
      BY <1>2, <1>3 DEF ViewsInv, ViewsTyped
  <2>2. author' \in [Tables -> Edits \cup DatasetIds \cup {Nothing}]
    <3>1. author' = author \/ Credit(b, d, e.table)
        BY DEF StoreDataset
    <3>2. author' = [x \in Tables |-> author'[x]]
        BY <3>1 DEF Credit, ViewsInv, ViewsTyped
    <3> QED BY <1>4, <3>2 DEF ViewsInv, ViewsTyped
  <2> QED BY <1>2, <2>1, <2>2 DEF ViewsInv, ViewsTyped
<1>6. DatasetsHaveSources'
  <2>1. /\ datasets'[d] # Nothing /\ sources'[d] # Nothing
        /\ \A x \in DatasetIds \ {d} : datasets'[x] = datasets[x] /\ sources'[x] = sources[x]
      BY <1>1, <1>2, <1>3, CatalogueAssumption DEF ViewsInv, ViewsTyped
  <2> QED BY <2>1 DEF ViewsInv, DatasetsHaveSources
<1>7. ASSUME NEW t \in Tables
      PROVE  AuthorAtWork(t)' /\ AuthorDone(t)'
  <2>1. sources'[d] = s /\ \A x \in DatasetIds \ {d} : sources'[x] = sources[x]
      BY <1>2 DEF ViewsInv, ViewsTyped
  <2>2. CASE author[t] # b /\ author'[t] = author[t]
    <3>1. author[t] \in Edits \cup DatasetIds \cup {Nothing}
        BY DEF ViewsInv, ViewsTyped
    <3>2. CASE author[t] \in Edits
      <4>1. edit'[author[t]] = edit[author[t]]
          BY <1>1, <1>2, <2>2, <3>2
      <4>2. edit[author[t]] # Nothing /\ edit[author[t]].step \in AtWork
          BY <3>2, AuthorsTable, RowsAssumption
      <4>3. edit[author[t]].op = "updateDataset" =>
              sources'[edit[author[t]].dataset].table = sources[edit[author[t]].dataset].table
          BY <1>2, <2>1, <3>2, AuthorsTable
      <4> QED BY <1>2, <2>2, <3>2, <4>1, <4>2, <4>3, AuthorStaysAtWork
    <3>3. CASE author[t] \in DatasetIds
      <4>1. sources[author[t]] # Nothing
          BY <3>3 DEF ViewsInv, AuthorDone
      <4>2. sources'[author[t]] = sources[author[t]]
          BY <1>2, <2>1, <3>3, <4>1
      <4> QED BY <1>2, <2>2, <3>3, <4>2, AuthorStaysDone
    <3>4. CASE author[t] = Nothing
        BY <2>2, <3>4, NoAuthor
    <3> QED BY <3>1, <3>2, <3>3, <3>4
  <2>3. CASE author'[t] = Nothing
      BY <2>3, NoAuthor
  <2>4. CASE author'[t] = d /\ t = e.table /\ pseudoViews[t] = e.columns
      BY <1>2, <1>3, <2>1, <2>4, CatalogueAssumption DEF AuthorAtWork, AuthorDone
  <2> QED BY <1>4, <2>2, <2>3, <2>4
<1> QED BY <1>5, <1>6, <1>7 DEF ViewsMoveSo

\* UpdateBigqueryDatasource: the view is the dataset's, if the handler's it was.
LEMMA UpdateSourceMoves ==
    ASSUME OwnersInv, ViewsInv, NEW b \in Edits, UpdateBigqueryDatasource(b)
    PROVE  ViewsMoveSo
<1> DEFINE e == edit[b]
           d == e.dataset
           s == [sources[d] EXCEPT !.columns = e.columns]
<1>1. /\ e \in Edit /\ e # Nothing /\ e.step = "source" /\ ReadsRight(e)
      /\ edit \in [Edits -> Edit \cup {Nothing}]
    BY DEF UpdateBigqueryDatasource, EditAt, OwnersInv, OwnersTyped
<1>2. e.op = "updateDataset" /\ d \in DatasetIds /\ datasets[d] # Nothing
    BY <1>1 DEF ReadsRight, HasProduct
<1>3. sources[d] \in Datasource
    BY <1>2 DEF ViewsInv, ViewsTyped, DatasetsHaveSources
<1>4. /\ UNCHANGED <<datasets, pseudoViews>>
      /\ sources' = [sources EXCEPT ![d] = s]
      /\ edit' = [edit EXCEPT ![b] = Nothing]
      /\ Credit(b, d, sources[d].table)
    BY DEF UpdateBigqueryDatasource, UpdateSourceRow, EndEdit
<1>5. s \in Datasource /\ s # Nothing /\ s.table = sources[d].table /\ s.columns = e.columns
  <2>1. s \in Datasource /\ s.table = sources[d].table /\ s.columns = e.columns
      BY <1>1, <1>3 DEF Datasource, Edit
  <2> QED BY <2>1, RowsAssumption
<1> HIDE DEF s
<1>6. ASSUME NEW t \in Tables
      PROVE  \/ author[t] # b /\ author'[t] = author[t] /\ (t = sources[d].table => author[t] \in Edits)
             \/ author[t] # b /\ author'[t] = Nothing
             \/ author[t] = b /\ author'[t] = d /\ t = sources[d].table /\ pseudoViews[t] = e.columns
  <2>1. author[t] = b => t = sources[d].table /\ pseudoViews[t] = e.columns
      BY <1>2, AuthorsTable DEF TableOf
  <2> QED BY <1>4, <2>1 DEF Credit, ViewsInv, ViewsTyped
<1>7. sources'[d] = s /\ \A x \in DatasetIds \ {d} : sources'[x] = sources[x]
    BY <1>2, <1>4 DEF ViewsInv, ViewsTyped
<1>8. ViewsTyped'
  <2>1. sources' \in [DatasetIds -> Datasource \cup {Nothing}]
      BY <1>4, <1>5 DEF ViewsInv, ViewsTyped
  <2>2. author' = [x \in Tables |-> author'[x]]
      BY <1>4 DEF Credit, ViewsInv, ViewsTyped
  <2>3. author' \in [Tables -> Edits \cup DatasetIds \cup {Nothing}]
      BY <1>2, <1>6, <2>2 DEF ViewsInv, ViewsTyped
  <2> QED BY <1>4, <2>1, <2>3 DEF ViewsInv, ViewsTyped
<1>9. DatasetsHaveSources'
    BY <1>2, <1>4, <1>5, <1>7 DEF ViewsInv, DatasetsHaveSources
<1>10. ASSUME NEW t \in Tables
       PROVE  AuthorAtWork(t)' /\ AuthorDone(t)'
  <2>1. CASE author[t] # b /\ author'[t] = author[t] /\ (t = sources[d].table => author[t] \in Edits)
    <3>1. author[t] \in Edits \cup DatasetIds \cup {Nothing}
        BY DEF ViewsInv, ViewsTyped
    <3>2. CASE author[t] \in Edits
      <4>1. edit'[author[t]] = edit[author[t]]
          BY <1>1, <1>4, <2>1, <3>2
      <4>2. edit[author[t]] # Nothing /\ edit[author[t]].step \in AtWork
          BY <3>2, AuthorsTable, RowsAssumption
      <4>3. edit[author[t]].op = "updateDataset" =>
              sources'[edit[author[t]].dataset].table = sources[edit[author[t]].dataset].table
          BY <1>5, <1>7, <3>2, AuthorsTable
      <4> QED BY <1>4, <2>1, <3>2, <4>1, <4>2, <4>3, AuthorStaysAtWork
    <3>3. CASE author[t] \in DatasetIds
      <4>1. sources[author[t]].table = t
          BY <3>3 DEF ViewsInv, AuthorDone
      <4>2. author[t] # d
          BY <2>1, <3>3, <4>1, CatalogueAssumption
      <4>3. sources'[author[t]] = sources[author[t]]
          BY <1>7, <3>3, <4>2
      <4> QED BY <1>4, <2>1, <3>3, <4>3, AuthorStaysDone
    <3>4. CASE author[t] = Nothing
        BY <2>1, <3>4, NoAuthor
    <3> QED BY <3>1, <3>2, <3>3, <3>4
  <2>2. CASE author'[t] = Nothing
      BY <2>2, NoAuthor
  <2>3. ASSUME author'[t] = d, t = sources[d].table, pseudoViews[t] = e.columns
        PROVE  AuthorAtWork(t)' /\ AuthorDone(t)'
    <3>1. author'[t] \notin Edits /\ sources'[author'[t]] = s /\ pseudoViews'[t] = e.columns
        BY <1>2, <1>4, <1>7, <2>3, CatalogueAssumption
    <3> QED BY <1>5, <2>3, <3>1 DEF AuthorAtWork, AuthorDone
  <2> QED BY <1>6, <2>1, <2>2, <2>3
<1> QED BY <1>8, <1>9, <1>10 DEF ViewsMoveSo

\* EditFails: a view that the handler rewrote is nobody's.
LEMMA EditFailsMoves ==
    ASSUME OwnersInv, ViewsInv, NEW b \in Edits, EditFails(b)
    PROVE  ViewsMoveSo
<1>1. /\ edit \in [Edits -> Edit \cup {Nothing}]
      /\ edit' = [edit EXCEPT ![b] = Nothing]
      /\ UNCHANGED <<datasets, sources, pseudoViews>>
      /\ author' = [t \in Tables |-> IF author[t] = b THEN Nothing ELSE author[t]]
    BY DEF EditFails, EndEdit, OwnersInv, OwnersTyped
<1>2. ViewsTyped' /\ DatasetsHaveSources'
    BY <1>1 DEF ViewsInv, ViewsTyped, DatasetsHaveSources
<1>3. ASSUME NEW t \in Tables
      PROVE  AuthorAtWork(t)' /\ AuthorDone(t)'
  <2>1. author[t] \in Edits \cup DatasetIds \cup {Nothing}
      BY DEF ViewsInv, ViewsTyped
  <2>2. CASE author[t] = b
      BY <1>1, <2>2, NoAuthor
  <2>3. CASE author[t] \in Edits \ {b}
    <3>1. author'[t] = author[t] /\ edit'[author[t]] = edit[author[t]]
        BY <1>1, <2>3
    <3>2. edit[author[t]] # Nothing /\ edit[author[t]].step \in AtWork
        BY <2>3, AuthorsTable, RowsAssumption
    <3> QED BY <1>1, <2>3, <3>1, <3>2, AuthorStaysAtWork
  <2>4. CASE author[t] \in DatasetIds
    <3>1. author'[t] = author[t]
        BY <1>1, <2>4, CatalogueAssumption
    <3> QED BY <1>1, <2>4, <3>1, AuthorStaysDone
  <2>5. CASE author[t] = Nothing
    <3>1. author'[t] = Nothing
        BY <1>1, <2>5
    <3> QED BY <3>1, NoAuthor
  <2> QED BY <2>1, <2>2, <2>3, <2>4, <2>5
<1> QED BY <1>2, <1>3 DEF ViewsMoveSo

\* The other steps leave views and what rows say of them.
LEMMA OthersLeaveViews ==
    ASSUME OwnersInv, ViewsInv, CatalogueNext,
           \A c \in Edits : /\ ~WriteView(c) /\ ~UpdateBigqueryDatasource(c) /\ ~EditFails(c)
                            /\ \A d \in DatasetIds : ~StoreDataset(c, d)
    PROVE  ViewsMoveSo
<1>1. UNCHANGED <<sources, pseudoViews, author>>
  <2>1. ASSUME NEW c \in Edits, StartEdit(c)
        PROVE  UNCHANGED <<sources, pseudoViews, author>>
      BY <2>1 DEF StartEdit, UpdateDataproduct, DeleteDataproduct, CreateDataset,
         UpdateDataset, DeleteDataset, BeginEdit
  <2>2. ASSUME NEW c \in Edits, EditStep(c)
        PROVE  UNCHANGED <<sources, pseudoViews, author>>
      BY <2>2 DEF EditStep, GetDataset, GetDataproduct, GetTarget, CheckProject, StoreUpdate,
         StoreProduct, DeleteRows
  <2> QED BY <2>1, <2>2 DEF CatalogueNext, CreateDataproduct
<1>2. \A d \in DatasetIds : (datasets[d] # Nothing) <=> (datasets'[d] # Nothing)
    BY CreationsOnly, StepsKeepOwners DEF RowsKeepOwners
<1>3. ViewsTyped' /\ DatasetsHaveSources'
    BY <1>1, <1>2 DEF ViewsInv, ViewsTyped, DatasetsHaveSources
<1>4. ASSUME NEW t \in Tables
      PROVE  AuthorAtWork(t)' /\ AuthorDone(t)'
  <2>1. author[t] \in Edits \cup DatasetIds \cup {Nothing}
      BY DEF ViewsInv, ViewsTyped
  <2>2. CASE author[t] \in Edits
    <3> DEFINE c == author[t]
    <3>1. c \in Edits /\ edit[c] # Nothing /\ edit[c].step \in AtWork
        BY <2>2, AuthorsTable, RowsAssumption
    <3> HIDE DEF c
    <3>2. edit'[c] # Nothing /\ edit'[c].step \in AtWork
        BY <3>1, WorkGoesOn
    <3>3. LET e == edit[c] f == edit'[c]
          IN f.op = e.op /\ f.dataset = e.dataset /\ f.table = e.table /\ f.columns = e.columns
        BY <3>1, <3>2, RequestsStay
    <3> USE DEF c
    <3> QED BY <1>1, <2>2, <3>2, <3>3, AuthorStaysAtWork
  <2>3. CASE author[t] \in DatasetIds
      BY <1>1, <2>3, AuthorStaysDone
  <2>4. CASE author[t] = Nothing
      BY <1>1, <2>4, NoAuthor
  <2> QED BY <2>1, <2>2, <2>3, <2>4
<1> QED BY <1>3, <1>4 DEF ViewsMoveSo

\* Who works on a dataset has read who owns it, and whose each view is is known.
LEMMA ViewsInvariant == CatalogueSpec => []ViewsInv
<1>1. CatalogueInit => ViewsInv
  <2> SUFFICES ASSUME CatalogueInit PROVE ViewsInv
      OBVIOUS
  <2>1. \A t \in Tables : author[t] = Nothing
      BY DEF CatalogueInit
  <2>2. \A t \in Tables : AuthorAtWork(t) /\ AuthorDone(t)
      BY <2>1, CatalogueAssumption DEF AuthorAtWork, AuthorDone
  <2> QED BY <2>2 DEF CatalogueInit, ViewsInv, ViewsTyped, DatasetsHaveSources
<1>2. ASSUME OwnersInv, OwnersInv', ViewsInv, [CatalogueNext]_catalogueVars
      PROVE  ViewsInv'
  <2>1. CASE CatalogueNext
    <3>1. ViewsMoveSo
        BY <1>2, <2>1, WriteViewMoves, StoreDatasetMoves, UpdateSourceMoves, EditFailsMoves,
           OthersLeaveViews
    <3>2. \A c \in Edits : edit'[c] # Nothing => StepRight(edit'[c]) /\ DeletesOwned(edit'[c])
        BY <1>2, <2>1, StepsCheck
    <3>3. RowsKeepOwners
        BY <1>2, <2>1, StepsKeepOwners
    <3>4. ASSUME NEW c \in Edits, edit'[c] # Nothing
          PROVE  StepRight(edit[c])' /\ DeletesOwned(edit[c])'
      <4>1. PICK e \in Edit : e = edit'[c] /\ StepRight(e) /\ DeletesOwned(e)
          BY <1>2, <3>2, <3>4 DEF OwnersInv, OwnersTyped
      <4>2. DeletesOwned(e)'
          BY <1>2, <3>3, <4>1, DeletesStayOwned
      <4> QED BY <4>1, <4>2 DEF StepRight, DeletesOwned
    <3> QED BY <3>1, <3>4 DEF ViewsInv, ViewsMoveSo
  <2>2. CASE UNCHANGED catalogueVars
      BY <1>2, <2>2 DEF catalogueVars, ViewsInv, ViewsTyped, DatasetsHaveSources, StepRight,
         DeletesOwned, AuthorAtWork, AuthorDone, TableOf, DatasetExists, ProductExists,
         GroupOfDataset
  <2> QED BY <1>2, <2>1, <2>2
<1> QED BY <1>1, <1>2, OwnersInvariant, PTL DEF CatalogueSpec

\* Every variable has its type, and no dataset is without its product.
THEOREM CatalogueTypeCorrect == CatalogueSpec => []CatalogueTypeOK
<1>1. OwnersInv /\ ViewsInv => CatalogueTypeOK
    BY DEF OwnersInv, OwnersTyped, DatasetsHaveProducts, ViewsInv, ViewsTyped, CatalogueTypeOK
<1> QED BY <1>1, OwnersInvariant, ViewsInvariant, PTL

\* A dataset is changed, moved or deleted only for a user in the group that owns
\* it at that moment, however old the product is that the handler checked.
THEOREM OwnersAlone == CatalogueSpec => OnlyOwnersChangeDatasets
<1>1. ASSUME OwnersInv, ViewsInv, [CatalogueNext]_catalogueVars
      PROVE  [OwnersChange]_catalogueVars
    BY <1>1, OwnersMakeChanges
<1>2. ASSUME OwnersInv, ViewsInv, [CatalogueNext]_catalogueVars
      PROVE  [\A d \in DatasetIds :
                 (DatasetExists(d) /\ (datasets'[d] # datasets[d] \/ sources'[d].columns # sources[d].columns)) =>
                    \E c \in Edits : /\ edit[c] # Nothing
                                     /\ edit'[c] # edit[c]
                                     /\ GroupOfDataset(d) \in MemberOfGroups[edit[c].user]]_catalogueVars
    BY <1>1, <1>2 DEF OwnersChange
<1> QED BY <1>2, OwnersInvariant, ViewsInvariant, PTL DEF CatalogueSpec, OnlyOwnersChangeDatasets

\* What a dataset lists as pseudonymised is hidden in the view of its table, if
\* it was the last to have the view rewritten and its handler came to the end.
THEOREM ColumnsStayHidden == CatalogueSpec => []HiddenColumnsAreHidden
<1>1. ASSUME ViewsInv, NEW d \in DatasetIds, ReferenceExists(d), author[sources[d].table] = d
      PROVE  sources[d].columns \subseteq pseudoViews[sources[d].table]
  <2>1. sources[d].table \in Tables
      BY <1>1 DEF ReferenceExists, ViewsInv, ViewsTyped, Datasource
  <2> QED BY <1>1, <2>1 DEF ViewsInv, AuthorDone
<1>2. ViewsInv => HiddenColumnsAreHidden
    BY <1>1 DEF HiddenColumnsAreHidden
<1> QED BY <1>2, ViewsInvariant, PTL

-----------------------------------------------------------------------------
(* Retired keywords *)

Job == [busy : BOOLEAN, work : Seq(Statement), gone : SUBSET Words,
        given : SUBSET Words, held : [Items -> {Absent} \cup (SUBSET Words)],
        seen : SUBSET Items]

\* A statement that is to take a keyword from an item is still to run.
ToTake(work, i, g) == \E n \in 1..Len(work) : i \in work[n].table /\ work[n].from = g

\* What a transaction knows of its rows: those it holds are there, and get no
\* keyword but those given; those it saw at its start are there, and lose each
\* keyword that goes by a statement to come if not by one that ran.
JobRight(r) ==
    /\ r.gone \cap r.given = {}
    /\ \A n \in 1..Len(r.work) : r.work[n].to \in r.given \cup {Absent}
    /\ \A i \in r.seen : words[i] # Absent
    /\ \A i \in Items : r.held[i] # Absent =>
          words[i] # Absent /\ r.held[i] \subseteq words[i] \cup r.given
    /\ \A i \in r.seen, g \in r.gone :
          (r.held[i] # Absent /\ g \notin r.held[i]) \/ ToTake(r.work, i, g)

\* No two transactions hold a row.
HeldOnce == \A j, k \in KeywordJobs : j # k => HeldBy(j) \cap HeldBy(k) = {}

\* What is shown to stay true
KeywordsInv ==
    /\ KeywordsTypeOK
    /\ HeldOnce
    /\ \A j \in KeywordJobs : JobRight(job[j])
    /\ \A r \in retired : words[r[1]] # Absent /\ r[2] \notin words[r[1]]

LEMMA JobsTyped ==
    KeywordsTypeOK => job \in [KeywordJobs -> Job]
BY DEF KeywordsTypeOK, Job

LEMMA IdleJobRight == IdleJob \in Job /\ JobRight(IdleJob)
<1>1. IdleJob \in Job
    BY DEF IdleJob, Job
<1>2. /\ IdleJob.gone = {} /\ IdleJob.seen = {} /\ Len(IdleJob.work) = 0
      /\ \A i \in Items : IdleJob.held[i] = Absent
    BY DEF IdleJob
<1> QED BY <1>1, <1>2 DEF JobRight

\* A transaction stays right when rows that it does not hold are written.
LEMMA JobStaysRight ==
    ASSUME KeywordsTypeOK, NEW r \in Job, JobRight(r),
           \A i \in Items : words[i] # Absent => words'[i] # Absent,
           \A i \in Items : r.held[i] # Absent => words'[i] = words[i]
    PROVE  JobRight(r)'
<1>1. r.seen \subseteq Items
    BY DEF Job
<1> QED BY <1>1 DEF JobRight, ToTake

\* The statements of an edit take what goes from every item, and give no more
\* than it names.
LEMMA RemovalTakes ==
    ASSUME NEW w \in Words
    PROVE  /\ RemoveKeyword(w) \in Seq(Statement)
           /\ \A i \in Items : ToTake(RemoveKeyword(w), i, w)
           /\ \A n \in 1..Len(RemoveKeyword(w)) : RemoveKeyword(w)[n].to = Absent
<1> DEFINE s == [table |-> DatasetItems, from |-> w, to |-> Absent]
           t == [table |-> StoryItems, from |-> w, to |-> Absent]
<1>1. s \in Statement /\ t \in Statement
    BY DEF Statement
<1>2. /\ s.table = DatasetItems /\ s.from = w /\ s.to = Absent
      /\ t.table = StoryItems /\ t.from = w /\ t.to = Absent
    OBVIOUS
<1>3. RemoveKeyword(w) = <<s, t>>
    BY DEF RemoveKeyword
<1> HIDE DEF s, t
<1>4. /\ <<s, t>> \in Seq(Statement) /\ Len(<<s, t>>) = 2 /\ <<s, t>>[1] = s /\ <<s, t>>[2] = t
    BY <1>1
<1> QED BY <1>2, <1>3, <1>4 DEF ToTake, Items

LEMMA ReplacementTakes ==
    ASSUME NEW w \in Words, NEW v \in Words
    PROVE  /\ ReplaceKeyword(w, v) \in Seq(Statement)
           /\ \A i \in Items : ToTake(ReplaceKeyword(w, v), i, w)
           /\ \A n \in 1..Len(ReplaceKeyword(w, v)) : ReplaceKeyword(w, v)[n].to = v
<1> DEFINE s == [table |-> DatasetItems, from |-> w, to |-> v]
           t == [table |-> StoryItems, from |-> w, to |-> v]
<1>1. s \in Statement /\ t \in Statement
    BY DEF Statement
<1>2. /\ s.table = DatasetItems /\ s.from = w /\ s.to = v
      /\ t.table = StoryItems /\ t.from = w /\ t.to = v
    OBVIOUS
<1>3. ReplaceKeyword(w, v) = <<s, t>>
    BY DEF ReplaceKeyword
<1> HIDE DEF s, t
<1>4. /\ <<s, t>> \in Seq(Statement) /\ Len(<<s, t>>) = 2 /\ <<s, t>>[1] = s /\ <<s, t>>[2] = t
    BY <1>1
<1> QED BY <1>2, <1>3, <1>4 DEF ToTake, Items

\* One edit after another takes what either takes.
LEMMA BothTake ==
    ASSUME NEW x \in Seq(Statement), NEW y \in Seq(Statement), NEW i, NEW g,
           ToTake(x, i, g) \/ ToTake(y, i, g)
    PROVE  ToTake(x \o y, i, g)
<1>0. Len(x \o y) = Len(x) + Len(y) /\ Len(x) \in Nat /\ Len(y) \in Nat
    OBVIOUS
<1>1. ASSUME ToTake(x, i, g)
      PROVE  ToTake(x \o y, i, g)
  <2>1. PICK n \in 1..Len(x) : i \in x[n].table /\ x[n].from = g
      BY <1>1 DEF ToTake
  <2>2. n \in 1..Len(x \o y) /\ (x \o y)[n] = x[n]
      BY <1>0
  <2> QED BY <2>1, <2>2 DEF ToTake
<1>2. ASSUME ToTake(y, i, g)
      PROVE  ToTake(x \o y, i, g)
  <2>1. PICK n \in 1..Len(y) : i \in y[n].table /\ y[n].from = g
      BY <1>2 DEF ToTake
  <2>2. Len(x) + n \in 1..Len(x \o y) /\ (x \o y)[Len(x) + n] = y[n]
      BY <1>0
  <2> QED BY <2>1, <2>2 DEF ToTake
<1> QED BY <1>1, <1>2

\* A new transaction has all its statements to run.
LEMMA BeginsRight ==
    ASSUME KeywordsTypeOK, NEW j \in KeywordJobs, UpdateKeywords(j)
    PROVE  /\ UNCHANGED <<words, retired>>
           /\ \E r \in Job : /\ JobRight(r)
                             /\ \A i \in Items : r.held[i] = Absent
                             /\ job' = [job EXCEPT ![j] = r]
<1> DEFINE Begun == \E r \in Job :
               /\ JobRight(r)
               /\ \A i \in Items : r.held[i] = Absent
               /\ job' = [job EXCEPT ![j] = r]
<1>1. ASSUME NEW work \in Seq(Statement), NEW gone \in SUBSET Words, NEW given \in SUBSET Words,
             BeginJob(j, work, gone, given),
             \A i \in Items, g \in gone : ToTake(work, i, g),
             \A n \in 1..Len(work) : work[n].to \in given \cup {Absent}
      PROVE  Begun
  <2> DEFINE seen == {i \in Items : words[i] # Absent}
             r == [IdleJob EXCEPT !.busy = TRUE, !.work = work, !.gone = gone \ given,
                                  !.given = given, !.seen = seen]
  <2>1. job' = [job EXCEPT ![j] = r]
      BY <1>1 DEF BeginJob
  <2>2. /\ r \in Job /\ r.work = work /\ r.gone = gone \ given /\ r.given = given /\ r.seen = seen
        /\ r.held = [i \in Items |-> Absent]
      BY DEF IdleJob, Job
  <2> HIDE DEF r
  <2>3. JobRight(r)
      BY <1>1, <2>2 DEF JobRight
  <2> QED BY <2>1, <2>2, <2>3
<1> HIDE DEF Begun
<1>2. ASSUME \E w \in Words : BeginJob(j, RemoveKeyword(w), {w}, {})
      PROVE  Begun
  <2>1. PICK w \in Words : BeginJob(j, RemoveKeyword(w), {w}, {})
      BY <1>2
  <2> DEFINE x == RemoveKeyword(w)
  <2>2. /\ x \in Seq(Statement) /\ \A i \in Items, g \in {w} : ToTake(x, i, g)
        /\ \A n \in 1..Len(x) : x[n].to \in {} \cup {Absent}
      BY RemovalTakes
  <2>3. BeginJob(j, x, {w}, {})
      BY <2>1
  <2> HIDE DEF x
  <2> QED BY <1>1, <2>2, <2>3
<1>3. ASSUME \E w, v \in Words : BeginJob(j, ReplaceKeyword(w, v), {w}, {v})
      PROVE  Begun
  <2>1. PICK w \in Words, v \in Words : BeginJob(j, ReplaceKeyword(w, v), {w}, {v})
      BY <1>3
  <2> DEFINE x == ReplaceKeyword(w, v)
  <2>2. /\ x \in Seq(Statement) /\ \A i \in Items, g \in {w} : ToTake(x, i, g)
        /\ \A n \in 1..Len(x) : x[n].to \in {v} \cup {Absent}
      BY ReplacementTakes
  <2>3. BeginJob(j, x, {w}, {v})
      BY <2>1
  <2> HIDE DEF x
  <2> QED BY <1>1, <2>2, <2>3
<1>4. ASSUME \E o, w, v \in Words :
                BeginJob(j, RemoveKeyword(o) \o ReplaceKeyword(w, v), {o, w}, {v})
      PROVE  Begun
  <2>1. PICK o \in Words, w \in Words, v \in Words :
             BeginJob(j, RemoveKeyword(o) \o ReplaceKeyword(w, v), {o, w}, {v})
      BY <1>4
  <2> DEFINE x == RemoveKeyword(o)
             y == ReplaceKeyword(w, v)
  <2>2. /\ x \in Seq(Statement) /\ y \in Seq(Statement)
        /\ \A i \in Items : ToTake(x, i, o) /\ ToTake(y, i, w)
        /\ \A n \in 1..Len(x) : x[n].to = Absent
        /\ \A n \in 1..Len(y) : y[n].to = v
      BY RemovalTakes, ReplacementTakes
  <2>3. BeginJob(j, x \o y, {o, w}, {v})
      BY <2>1
  <2> HIDE DEF x, y
  <2>4. x \o y \in Seq(Statement)
      BY <2>2
  <2>5. \A i \in Items, g \in {o, w} : ToTake(x \o y, i, g)
      BY <2>2, BothTake
  <2>6. \A n \in 1..Len(x \o y) : (x \o y)[n].to \in {v} \cup {Absent}
    <3> SUFFICES ASSUME NEW n \in 1..Len(x \o y)
                 PROVE  (x \o y)[n].to \in {v} \cup {Absent}
        OBVIOUS
    <3>1. Len(x) \in Nat /\ Len(y) \in Nat /\ Len(x \o y) = Len(x) + Len(y)
        BY <2>2
    <3>2. CASE n <= Len(x)
        BY <2>2, <3>1, <3>2
    <3>3. CASE n > Len(x)
      <4>1. n - Len(x) \in 1..Len(y) /\ (x \o y)[n] = y[n - Len(x)]
          BY <2>2, <3>1, <3>3
      <4> QED BY <2>2, <4>1
    <3> QED BY <3>1, <3>2, <3>3
  <2> DEFINE work == x \o y
             gone == {o, w}
             given == {v}
  <2>7. /\ work \in Seq(Statement) /\ gone \in SUBSET Words /\ given \in SUBSET Words
        /\ BeginJob(j, work, gone, given)
        /\ \A i \in Items, g \in gone : ToTake(work, i, g)
        /\ \A n \in 1..Len(work) : work[n].to \in given \cup {Absent}
      BY <2>3, <2>4, <2>5, <2>6
  <2> HIDE DEF work, gone, given
  <2> QED BY <1>1, <2>7
<1>5. Begun
    BY <1>2, <1>3, <1>4 DEF UpdateKeywords
<1>6. UNCHANGED <<words, retired>>
    BY DEF UpdateKeywords, BeginJob
<1> QED BY <1>5, <1>6 DEF Begun

\* What is to be shown of a step
KeywordsMoveSo ==
    /\ KeywordsTypeOK'
    /\ HeldOnce'
    /\ \A j \in KeywordJobs : JobRight(job[j])'
    /\ \A r \in retired' : words'[r[1]] # Absent /\ r[2] \notin words'[r[1]]

\* A keyword does not come back to a row but by a statement that gives it.
LEMMA EditedRight ==
    ASSUME NEW s \in Statement, NEW ws \in SUBSET Words
    PROVE  /\ Edited(ws, s) \in SUBSET Words
           /\ s.to # s.from => s.from \notin Edited(ws, s)
           /\ Edited(ws, s) \subseteq ws \cup ({s.to} \ {Absent})
BY DEF Edited, Statement

\* A transaction that ends leaves no row held.
LEMMA EndsRight ==
    ASSUME KeywordsInv, NEW j \in KeywordJobs, job' = [job EXCEPT ![j] = IdleJob]
    PROVE  /\ job' \in [KeywordJobs -> Job]
           /\ HeldOnce'
           /\ job'[j] = IdleJob
           /\ \A k \in KeywordJobs : k # j => job'[k] = job[k]
<1>1. job \in [KeywordJobs -> Job]
    BY JobsTyped DEF KeywordsInv
<1>2. /\ job' \in [KeywordJobs -> Job]
      /\ job'[j] = IdleJob
      /\ \A k \in KeywordJobs : k # j => job'[k] = job[k]
    BY <1>1, IdleJobRight
<1>3. HeldBy(j)' = {} /\ \A k \in KeywordJobs : k # j => HeldBy(k)' = HeldBy(k)
    BY <1>2 DEF HeldBy, IdleJob
<1>4. HeldOnce'
    BY <1>3 DEF HeldOnce, KeywordsInv
<1> QED BY <1>2, <1>4

\* A statement: the rows it edits are held by nobody else.
LEMMA StatementsRunRight ==
    ASSUME KeywordsInv, NEW j \in KeywordJobs, RunStatement(j)
    PROVE  KeywordsMoveSo
<1> DEFINE e == job[j]
           s == Head(e.work)
           rows == {i \in s.table : words[i] # Absent}
           held == [i \in Items |-> IF i \in rows THEN Edited(SeenBy(j, i), s) ELSE e.held[i]]
           r == [e EXCEPT !.work = Tail(@), !.held = held]
<1>1. job \in [KeywordJobs -> Job] /\ e \in Job /\ JobRight(e)
    BY JobsTyped DEF KeywordsInv
<1>2. /\ e.work # <<>> /\ e.work \in Seq(Statement)
      /\ \A k \in KeywordJobs \ {j} : HeldBy(k) \cap s.table = {}
      /\ UNCHANGED <<words, retired>>
    BY <1>1 DEF RunStatement, Job
<1>3. job' = [job EXCEPT ![j] = r]
    BY <1>1 DEF RunStatement, Job
<1>4. /\ s \in Statement /\ s = e.work[1] /\ Len(e.work) \in Nat /\ Len(e.work) >= 1
      /\ Tail(e.work) \in Seq(Statement) /\ Len(Tail(e.work)) = Len(e.work) - 1
      /\ \A n \in 1..Len(Tail(e.work)) : Tail(e.work)[n] = e.work[n + 1]
    BY <1>2
<1>5. s.table \subseteq Items /\ s.to \in e.given \cup {Absent} /\ e.given \in SUBSET Words
  <2>1. s.table \subseteq Items
      BY <1>4 DEF Statement, Items
  <2> QED BY <1>1, <1>4, <2>1 DEF JobRight, Job
<1>6. ASSUME NEW i \in rows
      PROVE  /\ SeenBy(j, i) \in SUBSET Words
             /\ SeenBy(j, i) \subseteq words[i] \cup e.given
             /\ e.held[i] # Absent => SeenBy(j, i) = e.held[i]
             /\ words[i] # Absent
  <2>1. i \in Items /\ words[i] # Absent
      BY <1>5
  <2>2. words[i] \in SUBSET Words /\ e.held[i] \in {Absent} \cup SUBSET Words
      BY <1>1, <2>1 DEF KeywordsInv, KeywordsTypeOK, Job
  <2> QED BY <1>1, <2>1, <2>2 DEF SeenBy, JobRight
<1>7. ASSUME NEW i \in rows
      PROVE  /\ held[i] \in SUBSET Words /\ held[i] # Absent
             /\ held[i] \subseteq words[i] \cup e.given
             /\ s.from \in e.gone => s.from \notin held[i]
             /\ \A g \in e.gone : (e.held[i] # Absent /\ g \notin e.held[i]) => g \notin held[i]
  <2>1. i \in Items /\ held[i] = Edited(SeenBy(j, i), s)
      BY <1>5
  <2>2. /\ Edited(SeenBy(j, i), s) \in SUBSET Words
        /\ s.to # s.from => s.from \notin Edited(SeenBy(j, i), s)
        /\ Edited(SeenBy(j, i), s) \subseteq SeenBy(j, i) \cup e.given
      BY <1>4, <1>5, <1>6, EditedRight
  <2>3. e.gone \cap e.given = {} /\ e.gone \subseteq Words
      BY <1>1 DEF JobRight, Job
  <2>4. s.from \in e.gone => s.to # s.from
      BY <1>5, <2>3, KeywordsAssumption
  <2>5. held[i] # Absent
      BY <2>1, <2>2, KeywordsAssumption
  <2> HIDE DEF held
  <2> QED BY <1>6, <2>1, <2>2, <2>3, <2>4, <2>5
<1>8. held \in [Items -> {Absent} \cup SUBSET Words]
      /\ \A i \in Items : i \notin rows => held[i] = e.held[i]
    BY <1>1, <1>7 DEF Job
<1> HIDE DEF held
<1>9. /\ r \in Job /\ r.work = Tail(e.work) /\ r.held = held /\ r.gone = e.gone
      /\ r.given = e.given /\ r.seen = e.seen
    BY <1>1, <1>4, <1>8 DEF Job
<1> HIDE DEF r
<1>10. JobRight(r)
  <2>1. \A n \in 1..Len(r.work) : r.work[n].to \in r.given \cup {Absent}
      BY <1>1, <1>4, <1>9 DEF JobRight
  <2>2. \A i \in Items : r.held[i] # Absent =>
          words[i] # Absent /\ r.held[i] \subseteq words[i] \cup r.given
      BY <1>1, <1>6, <1>7, <1>8, <1>9 DEF JobRight
  <2>3. ASSUME NEW i \in r.seen, NEW g \in r.gone
        PROVE  (r.held[i] # Absent /\ g \notin r.held[i]) \/ ToTake(r.work, i, g)
    <3>1. i \in Items /\ words[i] # Absent /\ i \in e.seen /\ g \in e.gone
        BY <1>1, <1>9, <2>3 DEF JobRight, Job
    <3>2. (e.held[i] # Absent /\ g \notin e.held[i]) \/ ToTake(e.work, i, g)
        BY <1>1, <3>1 DEF JobRight
    <3>3. CASE e.held[i] # Absent /\ g \notin e.held[i]
        BY <1>7, <1>8, <1>9, <3>1, <3>3
    <3>4. CASE ToTake(e.work, i, g)
      <4>1. PICK n \in 1..Len(e.work) : i \in e.work[n].table /\ e.work[n].from = g
          BY <3>4 DEF ToTake
      <4>2. CASE n = 1
        <5>1. i \in rows /\ s.from = g
            BY <1>4, <3>1, <4>1, <4>2
        <5> QED BY <1>7, <1>9, <3>1, <5>1
      <4>3. CASE n # 1
        <5>1. n - 1 \in 1..Len(r.work) /\ r.work[n - 1] = e.work[n]
            BY <1>4, <1>9, <4>1, <4>3
        <5> QED BY <4>1, <5>1 DEF ToTake
      <4> QED BY <4>2, <4>3
    <3> QED BY <3>2, <3>3, <3>4
  <2> QED BY <1>1, <1>9, <2>1, <2>2, <2>3 DEF JobRight
<1>11. job' \in [KeywordJobs -> Job] /\ job'[j] = r /\ \A k \in KeywordJobs : k # j => job'[k] = job[k]
    BY <1>1, <1>3, <1>9
<1>12. HeldOnce'
  <2>1. HeldBy(j)' \subseteq HeldBy(j) \cup s.table
      BY <1>8, <1>9, <1>11 DEF HeldBy
  <2>2. \A k \in KeywordJobs : k # j => HeldBy(k)' = HeldBy(k)
      BY <1>11 DEF HeldBy
  <2> QED BY <1>2, <2>1, <2>2 DEF HeldOnce, KeywordsInv
<1>13. KeywordsTypeOK'
    BY <1>2, <1>11 DEF KeywordsInv, KeywordsTypeOK, Job
<1>14. ASSUME NEW k \in KeywordJobs
       PROVE  JobRight(job[k])'
  <2>1. JobRight(job'[k])
      BY <1>10, <1>11 DEF KeywordsInv
  <2> QED BY <1>2, <2>1 DEF JobRight
<1> QED BY <1>2, <1>12, <1>13, <1>14 DEF KeywordsMoveSo, KeywordsInv

\* Teams write and remove items that nobody holds.
LEMMA TeamsMoveRight ==
    ASSUME KeywordsInv, NEW i \in Items,
           RemoveItem(i) \/ \E ws \in SUBSET Words : WriteKeywords(i, ws)
    PROVE  KeywordsMoveSo
<1>1. job \in [KeywordJobs -> Job] /\ \A j \in KeywordJobs : job[j] \in Job /\ JobRight(job[j])
    BY JobsTyped DEF KeywordsInv
<1>2. words \in [Items -> {Absent} \cup SUBSET Words] /\ \A j \in KeywordJobs : job[j].held[i] = Absent
  <2>1. ~Locked(i)
      BY DEF RemoveItem, WriteKeywords
  <2> QED BY <2>1 DEF Locked, HeldBy, KeywordsInv, KeywordsTypeOK
<1>3. retired \in SUBSET (Items \X Words) /\ retired' = {r \in retired : r[1] # i}
    BY DEF KeywordsInv, KeywordsTypeOK, RemoveItem, WriteKeywords
<1>4. /\ words' \in [Items -> {Absent} \cup SUBSET Words]
      /\ \A x \in Items : x # i => words'[x] = words[x]
    BY <1>2 DEF RemoveItem, WriteKeywords
<1>5. \A r \in retired' : words'[r[1]] # Absent /\ r[2] \notin words'[r[1]]
    BY <1>3, <1>4 DEF KeywordsInv
<1>6. ASSUME NEW ws \in SUBSET Words, WriteKeywords(i, ws)
      PROVE  KeywordsMoveSo
  <2>1. job' = job /\ words'[i] # Absent
      BY <1>2, <1>6, KeywordsAssumption DEF WriteKeywords
  <2>2. ASSUME NEW j \in KeywordJobs
        PROVE  JobRight(job[j])'
    <3>1. PICK r \in Job : r = job[j] /\ JobRight(r) /\ r.held[i] = Absent
        BY <1>1, <1>2
    <3>2. JobRight(r)'
        BY <1>4, <2>1, <3>1, JobStaysRight DEF KeywordsInv
    <3> QED BY <2>1, <3>1, <3>2 DEF JobRight
  <2>3. HeldOnce'
      BY <2>1 DEF KeywordsInv, HeldOnce, HeldBy
  <2>4. KeywordsTypeOK'
      BY <1>3, <1>4, <2>1 DEF KeywordsInv, KeywordsTypeOK
  <2> QED BY <1>5, <2>2, <2>3, <2>4 DEF KeywordsMoveSo
<1>7. ASSUME RemoveItem(i)
      PROVE  KeywordsMoveSo
  <2>1. job' = [j \in KeywordJobs |-> [job[j] EXCEPT !.seen = @ \ {i}]]
      BY <1>7 DEF RemoveItem
  <2>2. ASSUME NEW j \in KeywordJobs
        PROVE  job'[j] \in Job /\ job'[j].held = job[j].held /\ JobRight(job[j])'
    <3>1. PICK e \in Job : e = job[j] /\ JobRight(e) /\ e.held[i] = Absent
        BY <1>1, <1>2
    <3>2. PICK f \in Job : f = [e EXCEPT !.seen = @ \ {i}]
        BY <3>1 DEF Job
    <3>3. /\ f.work = e.work /\ f.gone = e.gone /\ f.given = e.given
          /\ f.held = e.held /\ f.seen = e.seen \ {i} /\ e.seen \subseteq Items
        BY <3>1, <3>2 DEF Job
    <3>4. JobRight(f)'
        BY <1>4, <3>1, <3>3 DEF JobRight, ToTake
    <3>5. job'[j] = f
        BY <2>1, <3>1, <3>2
    <3> QED BY <3>1, <3>3, <3>4, <3>5 DEF JobRight
  <2>3. HeldOnce'
      BY <2>2 DEF KeywordsInv, HeldOnce, HeldBy
  <2>4. KeywordsTypeOK'
    <3>1. job' \in [KeywordJobs -> Job]
        BY <2>1, <2>2
    <3> QED BY <1>3, <1>4, <3>1 DEF KeywordsTypeOK, Job
  <2> QED BY <1>5, <2>2, <2>3, <2>4 DEF KeywordsMoveSo
<1> QED BY <1>6, <1>7

\* The commit: what was seen at the start has lost what goes.
LEMMA CommitsRight ==
    ASSUME KeywordsInv, NEW j \in KeywordJobs, Commit(j)
    PROVE  KeywordsMoveSo
<1> DEFINE e == job[j]
<1>1. /\ job \in [KeywordJobs -> Job] /\ e \in Job /\ JobRight(e)
      /\ words \in [Items -> {Absent} \cup SUBSET Words]
      /\ retired \in SUBSET (Items \X Words)
    BY JobsTyped DEF KeywordsInv, KeywordsTypeOK
<1>2. /\ e.work = <<>>
      /\ words' = [i \in Items |-> SeenBy(j, i)]
      /\ retired' = {r \in retired : r[2] \notin e.given} \cup (e.seen \X e.gone)
      /\ job' = [job EXCEPT ![j] = IdleJob]
    BY DEF Commit
<1>3. ASSUME NEW i \in Items
      PROVE  /\ words'[i] \in {Absent} \cup SUBSET Words
             /\ e.held[i] = Absent => words'[i] = words[i]
             /\ e.held[i] # Absent => words'[i] = e.held[i]
             /\ words[i] # Absent => words'[i] # Absent
  <2>1. words'[i] = IF e.held[i] # Absent THEN e.held[i] ELSE words[i]
      BY <1>2 DEF SeenBy
  <2> QED BY <1>1, <2>1 DEF Job
<1>4. /\ job' \in [KeywordJobs -> Job] /\ HeldOnce' /\ job'[j] = IdleJob
      /\ \A k \in KeywordJobs : k # j => job'[k] = job[k]
    BY <1>2, EndsRight
<1>5. e.seen \subseteq Items /\ e.gone \subseteq Words
    BY <1>1 DEF Job
<1>6. KeywordsTypeOK'
  <2>1. words' \in [Items -> {Absent} \cup SUBSET Words]
      BY <1>2, <1>3
  <2>2. retired' \in SUBSET (Items \X Words)
      BY <1>1, <1>2, <1>5
  <2> QED BY <1>4, <2>1, <2>2 DEF KeywordsTypeOK, Job
<1>7. ASSUME NEW k \in KeywordJobs
      PROVE  JobRight(job[k])'
  <2>1. CASE k = j
    <3>1. /\ IdleJob.gone = {} /\ IdleJob.seen = {} /\ Len(IdleJob.work) = 0
          /\ \A i \in Items : IdleJob.held[i] = Absent
        BY DEF IdleJob
    <3> QED BY <1>4, <2>1, <3>1 DEF JobRight
  <2>2. CASE k # j
    <3> DEFINE r == job[k]
    <3>1. r \in Job /\ JobRight(r) /\ r' = r
        BY <1>1, <1>4, <2>2 DEF KeywordsInv
    <3>2. ASSUME NEW i \in Items, r.held[i] # Absent
          PROVE  words'[i] = words[i]
      <4>1. e.held[i] = Absent
          BY <2>2, <3>2 DEF KeywordsInv, HeldOnce, HeldBy
      <4> QED BY <1>3, <4>1
    <3> HIDE DEF r
    <3>3. JobRight(r)'
        BY <1>3, <3>1, <3>2 DEF JobRight, ToTake, Job
    <3> QED BY <3>3 DEF r
  <2> QED BY <2>1, <2>2
<1>8. ASSUME NEW r \in retired'
      PROVE  words'[r[1]] # Absent /\ r[2] \notin words'[r[1]]
  <2>1. CASE r \in retired /\ r[2] \notin e.given
    <3>1. r[1] \in Items /\ words[r[1]] # Absent /\ r[2] \notin words[r[1]]
        BY <1>1, <2>1 DEF KeywordsInv
    <3>2. e.held[r[1]] # Absent => e.held[r[1]] \subseteq words[r[1]] \cup e.given
        BY <1>1, <3>1 DEF JobRight
    <3> QED BY <1>3, <2>1, <3>1, <3>2
  <2>2. CASE r \in e.seen \X e.gone
    <3>1. r[1] \in e.seen /\ r[2] \in e.gone /\ r[1] \in Items
        BY <1>5, <2>2
    <3>2. ~ToTake(e.work, r[1], r[2])
        BY <1>2 DEF ToTake
    <3>3. e.held[r[1]] # Absent /\ r[2] \notin e.held[r[1]]
        BY <1>1, <3>1, <3>2 DEF JobRight
    <3> QED BY <1>3, <3>1, <3>3
  <2> QED BY <1>2, <2>1, <2>2
<1> QED BY <1>4, <1>6, <1>7, <1>8 DEF KeywordsMoveSo

\* A transaction begins with nothing held, and a rollback ends with it.
LEMMA JobsBeginAndFailRight ==
    ASSUME KeywordsInv, NEW j \in KeywordJobs, UpdateKeywords(j) \/ Rollback(j)
    PROVE  KeywordsMoveSo
<1>1. PICK r \in Job : /\ JobRight(r)
                       /\ \A i \in Items : r.held[i] = Absent
                       /\ job' = [job EXCEPT ![j] = r]
  <2>1. \A i \in Items : IdleJob.held[i] = Absent
      BY DEF IdleJob
  <2> QED BY <2>1, BeginsRight, IdleJobRight DEF Rollback, KeywordsInv
<1>2. UNCHANGED <<words, retired>>
    BY BeginsRight DEF Rollback, KeywordsInv
<1>3. /\ job' \in [KeywordJobs -> Job] /\ job'[j] = r
      /\ \A k \in KeywordJobs : k # j => job'[k] = job[k]
    BY <1>1, JobsTyped DEF KeywordsInv
<1>4. HeldOnce'
  <2>1. HeldBy(j)' = {} /\ \A k \in KeywordJobs : k # j => HeldBy(k)' = HeldBy(k)
      BY <1>1, <1>3 DEF HeldBy
  <2> QED BY <2>1 DEF HeldOnce, KeywordsInv
<1>5. \A k \in KeywordJobs : JobRight(job[k])'
  <2>1. \A k \in KeywordJobs : JobRight(job'[k])
      BY <1>1, <1>3 DEF KeywordsInv
  <2> QED BY <1>2, <2>1 DEF JobRight
<1>6. KeywordsTypeOK'
    BY <1>2, <1>3 DEF KeywordsInv, KeywordsTypeOK, Job
<1> QED BY <1>2, <1>4, <1>5, <1>6 DEF KeywordsMoveSo, KeywordsInv

\* What transactions hold, and what they are to take, stays right.
THEOREM KeywordsInvariant == KeywordsSpec => []KeywordsInv
<1>1. KeywordsInit => KeywordsInv
  <2> SUFFICES ASSUME KeywordsInit PROVE KeywordsInv
      OBVIOUS
  <2>1. \A j \in KeywordJobs : job[j] = IdleJob
      BY DEF KeywordsInit
  <2>2. \A j \in KeywordJobs : HeldBy(j) = {}
      BY <2>1 DEF HeldBy, IdleJob
  <2>3. job \in [KeywordJobs -> Job]
      BY IdleJobRight DEF KeywordsInit
  <2>4. KeywordsTypeOK
      BY <2>3 DEF KeywordsInit, KeywordsTypeOK, Job
  <2> QED BY <2>1, <2>2, <2>4, IdleJobRight DEF KeywordsInit, KeywordsInv, HeldOnce
<1>2. ASSUME KeywordsInv, [KeywordsNext]_keywordsVars
      PROVE  KeywordsInv'
  <2>1. CASE KeywordsNext
    <3>1. KeywordsMoveSo
        BY <1>2, <2>1, TeamsMoveRight, JobsBeginAndFailRight, StatementsRunRight, CommitsRight
           DEF KeywordsNext
    <3> QED BY <3>1 DEF KeywordsMoveSo, KeywordsInv
  <2>2. CASE UNCHANGED keywordsVars
      BY <1>2, <2>2 DEF keywordsVars, KeywordsInv, KeywordsTypeOK, HeldOnce, HeldBy, JobRight
  <2> QED BY <1>2, <2>1, <2>2
<1> QED BY <1>1, <1>2, PTL DEF KeywordsSpec

\* Every variable has its type.
THEOREM KeywordsTypeCorrect == KeywordsSpec => []KeywordsTypeOK
<1>1. KeywordsInv => KeywordsTypeOK
    BY DEF KeywordsInv
<1> QED BY <1>1, KeywordsInvariant, PTL

\* A keyword that an edit retired is gone from every item that was there when the
\* edit began, whatever was written between its statements (UpdateKeywords,
\* keywords.sql.go).
THEOREM RetiredStaysGone == KeywordsSpec => []RetiredIsGone
<1>1. KeywordsInv => RetiredIsGone
    BY DEF KeywordsInv, RetiredIsGone
<1> QED BY <1>1, KeywordsInvariant, PTL
==============================================================================
