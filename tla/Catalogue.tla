------------------------------ MODULE Catalogue -----------------------------
(***************************************************************************)
(* Data products and their datasets (service_dataproducts.go), and the     *)
(* pseudonymised views that are made of tables with personal data.         *)
(*                                                                         *)
(* A handler reads the dataset and its product, checks that the user is in *)
(* the owner group, rewrites the view in BigQuery, and updates two tables, *)
(* each in a statement of its own.  edit[c] is a handler in flight; `step' *)
(* is what it does next, the other fields are its arguments and variables. *)
(***************************************************************************)
EXTENDS Naturals, FiniteSets

CONSTANTS
    ProductIds,     \* ids of data products: Postgres makes them, none twice
    DatasetIds,     \* ids of datasets, likewise
    OwnerGroups,    \* Google groups that own products
    Editors,        \* users
    MemberOfGroups, \* the groups of each
    Tables,         \* BigQuery tables
    ProjectGroup,   \* the group whose team has the GCP project of each
    Columns,        \* columns that can be pseudonymised
    PiiChoices,     \* the sets of them that users choose
    TeamIds,        \* ids from Teamkatalogen
    Edits,          \* handlers in flight
    Nothing,        \* no row yet, no view, no choice
    Gone            \* a row that has been deleted

ASSUME CatalogueAssumption ==
    /\ ProjectGroup \in [Tables -> OwnerGroups]
    /\ MemberOfGroups \in [Editors -> SUBSET OwnerGroups]
    /\ PiiChoices \subseteq SUBSET Columns
    /\ {Nothing, Gone} \cap (ProductIds \cup DatasetIds \cup OwnerGroups \cup Tables \cup Edits) = {}
    /\ Nothing # Gone
    /\ Edits \cap DatasetIds = {}

VARIABLES
    products,       \* the table dataproducts
    datasets,       \* the table datasets: the product of each
    sources,        \* the table datasource_bigquery, by dataset: never deleted from
    pseudoViews,    \* BigQuery: the columns that the view of each table hides
    edit,           \* the handlers
    author          \* history: the handler that rewrote the view of a table last, or the
                    \* dataset that it did so for

catalogueVars == <<products, datasets, sources, pseudoViews, edit, author>>

-----------------------------------------------------------------------------
(* Types *)

Product == [group : OwnerGroups, team : TeamIds]

\* The row of the table that readers get.  Is there another, for the table
\* that the view was made from?
Datasource == [table : Tables, columns : SUBSET Columns, reference : BOOLEAN]

Edit == [op : {"createDataset", "updateDataset", "deleteDataset",
               "updateProduct", "deleteProduct"},
         user : Editors,
         dataset : DatasetIds \cup {Nothing},
         product : ProductIds \cup {Nothing},   \* as asked for, or as read
         table : Tables,
         columns : SUBSET Columns,
         team : TeamIds,
         from : ProductIds \cup {Nothing},      \* as read
         group : OwnerGroups \cup {Nothing},    \* as read
         step : {"dataset", "product", "target", "view", "project",
                 "insert", "row", "source", "delete", "write"}]

ASSUME RowsAssumption ==
    /\ Nothing \notin Product \cup Datasource \cup Edit
    /\ Gone \notin Product

CatalogueInit ==
    /\ products = [p \in ProductIds |-> Nothing]
    /\ datasets = [d \in DatasetIds |-> Nothing]
    /\ sources = [d \in DatasetIds |-> Nothing]
    /\ pseudoViews = [t \in Tables |-> Nothing]
    /\ edit = [c \in Edits |-> Nothing]
    /\ author = [t \in Tables |-> Nothing]

-----------------------------------------------------------------------------
(* Statements *)

ProductExists(p) == p \in ProductIds /\ products[p] \notin {Nothing, Gone}
DatasetExists(d) == datasets[d] \notin {Nothing, Gone}
ReferenceExists(d) == sources[d] # Nothing /\ sources[d].reference
GroupOfDataset(d) == products[datasets[d]].group

InsertProduct(p, g, i) ==
    /\ products[p] = Nothing
    /\ products' = [products EXCEPT ![p] = [group |-> g, team |-> i]]

UpdateProductRow(p, i) ==
    /\ ProductExists(p)
    /\ products' = [products EXCEPT ![p].team = i]

\* The datasets of a product go with it, but not the rows of their tables.
DeleteProductRow(p) ==
    /\ products' = [products EXCEPT ![p] = IF ProductExists(p) THEN Gone ELSE @]
    /\ datasets' = [d \in DatasetIds |-> IF datasets[d] = p THEN Gone ELSE datasets[d]]

InsertDataset(d, p) ==
    /\ datasets[d] = Nothing
    /\ ProductExists(p)
    /\ datasets' = [datasets EXCEPT ![d] = p]

\* A second row, the reference, is that of the table under a view.
InsertSource(d, t, columns) ==
    sources' = [sources EXCEPT ![d] = [table |-> t, columns |-> columns,
                                       reference |-> columns # {}]]

\* mutant: without the foreign key
UpdateDatasetRowUnchecked(d, p) ==
    /\ DatasetExists(d)
    /\ datasets' = [datasets EXCEPT ![d] = p]

UpdateDatasetRow(d, p) ==
    /\ DatasetExists(d)
    /\ ProductExists(p)
    /\ datasets' = [datasets EXCEPT ![d] = p]

DeleteDatasetRow(d) ==
    datasets' = [datasets EXCEPT ![d] = IF DatasetExists(d) THEN Gone ELSE @]

UpdateSourceRow(d, columns) == sources' = [sources EXCEPT ![d].columns = columns]

-----------------------------------------------------------------------------
(* Handlers *)

EditAt(c, step) == edit[c] # Nothing /\ edit[c].step = step
EditGoto(c, step) == edit' = [edit EXCEPT ![c].step = step]
EndEdit(c) == edit' = [edit EXCEPT ![c] = Nothing]

BeginEdit(c, op, u, d, p, t, columns, i, step) ==
    /\ edit[c] = Nothing
    /\ edit' = [edit EXCEPT ![c] =
         [op |-> op, user |-> u, dataset |-> d, product |-> p, table |-> t,
          columns |-> columns, team |-> i, from |-> p, group |-> Nothing, step |-> step]]
    /\ UNCHANGED <<products, datasets, sources, pseudoViews, author>>

\* mutant: anybody may
GroupUnchecked(u, g) == TRUE

ensureUserInGroup(u, g) == g \in MemberOfGroups[u]

CreateDataproduct(u, p, g, i) ==
    /\ ensureUserInGroup(u, g)
    /\ InsertProduct(p, g, i)
    /\ UNCHANGED <<datasets, sources, pseudoViews, edit, author>>

UpdateDataproduct(c, u, p, t, i) ==
    BeginEdit(c, "updateProduct", u, Nothing, p, t, {}, i, "product")

DeleteDataproduct(c, u, p, t, i) ==
    BeginEdit(c, "deleteProduct", u, Nothing, p, t, {}, i, "product")

CreateDataset(c, u, p, t, columns, i) ==
    BeginEdit(c, "createDataset", u, Nothing, p, t, columns, i, "product")

\* The product to move it to may be left out.
UpdateDataset(c, u, d, p, t, columns, i) ==
    BeginEdit(c, "updateDataset", u, d, p, t, columns, i, "dataset")

DeleteDataset(c, u, d, t, i) ==
    BeginEdit(c, "deleteDataset", u, d, Nothing, t, {}, i, "dataset")

GetDataset(c) ==
    /\ EditAt(c, "dataset")
    /\ DatasetExists(edit[c].dataset)
    /\ LET p == datasets[edit[c].dataset]
       IN edit' = [edit EXCEPT ![c].from = p, ![c].step = "product",
                               ![c].product = IF @ = Nothing THEN p ELSE @]
    /\ UNCHANGED <<products, datasets, sources, pseudoViews, author>>

\* A view is made only of a table with a reference row, under its name.
AfterChecks(c) ==
    CASE edit[c].op = "createDataset" -> IF edit[c].columns # {} THEN "view" ELSE "project"
      [] edit[c].op = "updateDataset" -> IF edit[c].columns # {} THEN "view" ELSE "row"
      [] edit[c].op = "updateProduct" -> "write"
      [] OTHER -> "delete"

\* The product that owns what is to be changed, and the check of the user
GetDataproduct(c) ==
    /\ EditAt(c, "product")
    /\ ProductExists(edit[c].from)
    /\ ensureUserInGroup(edit[c].user, products[edit[c].from].group)
    /\ edit' = [edit EXCEPT ![c].group = products[edit[c].from].group,
                            ![c].step = IF edit[c].op = "updateDataset"
                                           /\ edit[c].product # edit[c].from
                                        THEN "target" ELSE AfterChecks(c)]
    /\ UNCHANGED <<products, datasets, sources, pseudoViews, author>>

\* mutant: the groups are not compared
TargetOfAnyGroup(c) ==
    /\ EditAt(c, "target")
    /\ ProductExists(edit[c].product)
    /\ ensureUserInGroup(edit[c].user, products[edit[c].product].group)
    /\ EditGoto(c, AfterChecks(c))
    /\ UNCHANGED <<products, datasets, sources, pseudoViews, author>>

\* The product to move a dataset to must be of the same group.
GetTarget(c) ==
    /\ EditAt(c, "target")
    /\ ProductExists(edit[c].product)
    /\ ensureUserInGroup(edit[c].user, products[edit[c].product].group)
    /\ edit[c].group = products[edit[c].product].group
    /\ EditGoto(c, AfterChecks(c))
    /\ UNCHANGED <<products, datasets, sources, pseudoViews, author>>

\* mutant: columns that were hidden are kept out of the new view
ViewOfTwoEdits(t, columns) ==
    pseudoViews' = [pseudoViews EXCEPT ![t] = IF @ = Nothing THEN columns ELSE @ \cap columns]

\* The view is named after its table, whoever asks for it.
CreatePseudonymisedView(t, columns) ==
    pseudoViews' = [pseudoViews EXCEPT ![t] = columns]

\* An update makes the view of the table in the reference row.
WriteView(c) ==
    LET d == edit[c].dataset
        t == IF edit[c].op = "updateDataset" THEN sources[d].table ELSE edit[c].table
    IN /\ EditAt(c, "view")
       /\ edit[c].op = "updateDataset" => ReferenceExists(d)
       /\ CreatePseudonymisedView(t, edit[c].columns)
       /\ author' = [author EXCEPT ![t] = c]
       /\ EditGoto(c, IF edit[c].op = "updateDataset" THEN "row" ELSE "project")
       /\ UNCHANGED <<products, datasets, sources>>

\* ensureGroupOwnsGCPProject, after the view has been made, and prepareBigQuery
CheckProject(c) ==
    /\ EditAt(c, "project")
    /\ ProjectGroup[edit[c].table] = edit[c].group
    /\ EditGoto(c, "insert")
    /\ UNCHANGED <<products, datasets, sources, pseudoViews, author>>

\* What rows say of a view counts for the last to have rewritten it.
Credit(c, d, t) ==
    author' = [author EXCEPT ![t] = IF @ = c THEN d
                                    ELSE IF @ \in Edits THEN @ ELSE Nothing]

\* One transaction stores the dataset and the rows of its table.
StoreDataset(c, d) ==
    /\ EditAt(c, "insert")
    /\ InsertDataset(d, edit[c].product)
    /\ InsertSource(d, edit[c].table, edit[c].columns)
    /\ IF edit[c].columns = {} THEN UNCHANGED author ELSE Credit(c, d, edit[c].table)
    /\ EndEdit(c)
    /\ UNCHANGED <<products, pseudoViews>>

\* First the row of the dataset ...
StoreUpdate(c) ==
    /\ EditAt(c, "row")
    /\ UpdateDatasetRow(edit[c].dataset, edit[c].product)
    /\ EditGoto(c, "source")
    /\ UNCHANGED <<products, sources, pseudoViews, author>>

\* ... then those of its table, with no columns if none were named.
UpdateBigqueryDatasource(c) ==
    LET d == edit[c].dataset
    IN /\ EditAt(c, "source")
       /\ UpdateSourceRow(d, edit[c].columns)
       /\ Credit(c, d, sources[d].table)
       /\ EndEdit(c)
       /\ UNCHANGED <<products, datasets, pseudoViews>>

StoreProduct(c) ==
    /\ EditAt(c, "write")
    /\ UpdateProductRow(edit[c].product, edit[c].team)
    /\ EndEdit(c)
    /\ UNCHANGED <<datasets, sources, pseudoViews, author>>

DeleteRows(c) ==
    /\ EditAt(c, "delete")
    /\ IF edit[c].op = "deleteProduct"
       THEN DeleteProductRow(edit[c].product)
       ELSE DeleteDatasetRow(edit[c].dataset) /\ UNCHANGED products
    /\ EndEdit(c)
    /\ UNCHANGED <<sources, pseudoViews, author>>

\* A refusal, an error, a row that is not there, or the pod stops.
EditFails(c) ==
    /\ edit[c] # Nothing
    /\ EndEdit(c)
    /\ UNCHANGED <<products, datasets, sources, pseudoViews>>
    /\ author' = [t \in Tables |-> IF author[t] = c THEN Nothing ELSE author[t]]

-----------------------------------------------------------------------------
StartEdit(c) == \E u \in Editors, t \in Tables, i \in TeamIds :
    \/ \E p \in ProductIds :
         \/ UpdateDataproduct(c, u, p, t, i)
         \/ DeleteDataproduct(c, u, p, t, i)
         \/ \E columns \in PiiChoices : CreateDataset(c, u, p, t, columns, i)
    \/ \E d \in DatasetIds :
         \/ DeleteDataset(c, u, d, t, i)
         \/ \E p \in ProductIds \cup {Nothing}, columns \in PiiChoices :
               UpdateDataset(c, u, d, p, t, columns, i)

EditStep(c) ==
    \/ GetDataset(c)
    \/ GetDataproduct(c)
    \/ GetTarget(c)
    \/ WriteView(c)
    \/ CheckProject(c)
    \/ \E d \in DatasetIds : StoreDataset(c, d)
    \/ StoreUpdate(c)
    \/ UpdateBigqueryDatasource(c)
    \/ StoreProduct(c)
    \/ DeleteRows(c)
    \/ EditFails(c)

CatalogueNext ==
    \/ \E u \in Editors, p \in ProductIds, g \in OwnerGroups, i \in TeamIds :
          CreateDataproduct(u, p, g, i)
    \/ \E c \in Edits : StartEdit(c) \/ EditStep(c)

CatalogueSpec == CatalogueInit /\ [][CatalogueNext]_catalogueVars

-----------------------------------------------------------------------------
(* Properties *)

\* Every variable has its type, and no dataset is without its product.
CatalogueTypeOK ==
    /\ products \in [ProductIds -> Product \cup {Nothing, Gone}]
    /\ datasets \in [DatasetIds -> ProductIds \cup {Nothing, Gone}]
    /\ sources \in [DatasetIds -> Datasource \cup {Nothing}]
    /\ pseudoViews \in [Tables -> (SUBSET Columns) \cup {Nothing}]
    /\ edit \in [Edits -> Edit \cup {Nothing}]
    /\ author \in [Tables -> Edits \cup DatasetIds \cup {Nothing}]
    /\ \A d \in DatasetIds : DatasetExists(d) => ProductExists(datasets[d])

\* Whatever moves and edits overlap, each with the product it read at its
\* start, a dataset stays with the group that registered it.
OwnerNeverChanges ==
    [][\A d \in DatasetIds : (DatasetExists(d) /\ DatasetExists(d)') =>
          GroupOfDataset(d)' = GroupOfDataset(d)]_catalogueVars

\* A dataset is changed, moved or deleted only for a user in the group that
\* owns it at that moment.
OnlyOwnersChangeDatasets ==
    [][\A d \in DatasetIds :
          (DatasetExists(d) /\ (datasets'[d] # datasets[d] \/ sources'[d].columns # sources[d].columns)) =>
             \E c \in Edits : /\ edit[c] # Nothing
                              /\ edit'[c] # edit[c]
                              /\ GroupOfDataset(d) \in MemberOfGroups[edit[c].user]]_catalogueVars

\* The columns that a dataset lists as pseudonymised are hidden in the view
\* that its readers get.  Excused is a view that another dataset of the same
\* table, a handler in flight or one that failed was the last to rewrite.
HiddenColumnsAreHidden ==
    \A d \in DatasetIds :
        (DatasetExists(d) /\ ReferenceExists(d) /\ author[sources[d].table] = d) =>
            sources[d].columns \subseteq pseudoViews[sources[d].table]
=============================================================================
