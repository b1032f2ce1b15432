--------------------------- MODULE DatasourceSync ---------------------------
(***************************************************************************)
(* The sync of what the portal knows of BigQuery tables                    *)
(* (service_bigquery.go).  A cron job posts it; any pod takes it, and      *)
(* nothing keeps two of them apart.  A dataset that is pseudonymised has   *)
(* two rows, one of the view and one of the table it refers to.            *)
(***************************************************************************)
EXTENDS Naturals, FiniteSets

CONSTANTS
    Registered,     \* datasets
    Pseudonymised,  \* those with a view and a table
    Syncs,          \* handlers
    MaxShape,       \* how often the schema of a table changes, at most
    NoSync

ASSUME SyncAssumption ==
    /\ Pseudonymised \subseteq Registered
    /\ MaxShape \in Nat

\* Rows of datasource_bigquery: dataset and is_reference
SourceRows == {<<d, FALSE>> : d \in Registered} \cup {<<d, TRUE>> : d \in Pseudonymised}
RowsOf(d) == {r \in SourceRows : r[1] = d}

VARIABLES
    shape,      \* BigQuery: the version of the schema of the table of each row
    dropped,    \* BigQuery: rows whose table is gone
    schema,     \* what each row says of the schema: whose, and which version
    missing,    \* rows with missing_since
    sync,       \* the handlers
    fresh,      \* history: for each dataset, the version at the start of the last sync
                \* that has looked at it with no other at work
    noticed     \* history: datasets with a table that the last look did not find

syncVars == <<shape, dropped, schema, missing, sync, fresh, noticed>>

Schema == [row : SourceRows, version : 0..MaxShape]
Sync == [left : SUBSET SourceRows, began : [SourceRows -> 0..MaxShape],
         reading : SourceRows \cup {NoSync}, read : 0..MaxShape, alone : BOOLEAN]

ASSUME NoSyncAssumption == NoSync \notin Sync /\ NoSync \notin SourceRows

Working == {c \in Syncs : sync[c] # NoSync}

SyncInit ==
    /\ shape = [r \in SourceRows |-> 0]
    /\ dropped = {}
    /\ schema = [r \in SourceRows |-> [row |-> <<r[1], FALSE>>, version |-> 0]]
    /\ missing = {}
    /\ sync = [c \in Syncs |-> NoSync]
    /\ fresh = [d \in Registered |-> 0]
    /\ noticed = {}

-----------------------------------------------------------------------------
(* BigQuery *)

ChangeTable(r) ==
    /\ shape[r] < MaxShape
    /\ shape' = [shape EXCEPT ![r] = @ + 1]
    /\ UNCHANGED <<dropped, schema, missing, sync, fresh, noticed>>

DropTable(r) ==
    /\ r \notin dropped
    /\ dropped' = dropped \cup {r}
    /\ UNCHANGED <<shape, schema, missing, sync, fresh, noticed>>

RestoreTable(r) ==
    /\ r \in dropped
    /\ dropped' = dropped \ {r}
    /\ UNCHANGED <<shape, schema, missing, sync, fresh, noticed>>

\* getTableWithMetadata: what is not there is an ErrNotExist of the client's own.
Found(r) == r \notin dropped

-----------------------------------------------------------------------------
(* Statements *)

\* GetBigqueryDatasources: all rows, those of deleted datasets included, in
\* the order that Postgres likes.
GetBigqueryDatasources == SourceRows

SetSchema(rows, s) ==
    /\ schema' = [r \in SourceRows |-> IF r \in rows THEN s ELSE schema[r]]
    /\ missing' = missing \ rows

\* mutant: only the rows of references are updated
UpdateReferenceSchema(d, s) ==
    SetSchema(RowsOf(d) \cap {<<d, TRUE>>}, s)

\* Both rows of the dataset, whichever was looked at
UpdateBigqueryDatasourceSchema(d, s) == SetSchema(RowsOf(d), s)

-----------------------------------------------------------------------------
(* SyncBigQueryTables *)

SyncBigQueryTables(c) ==
    /\ sync[c] = NoSync
    /\ sync' = [x \in Syncs |->
         IF x = c THEN [left |-> GetBigqueryDatasources, began |-> shape,
                        reading |-> NoSync, read |-> 0, alone |-> Working = {}]
         ELSE IF x \in Working THEN [sync[x] EXCEPT !.alone = FALSE] ELSE NoSync]
    /\ UNCHANGED <<shape, dropped, schema, missing, fresh, noticed>>

\* TableMetadata
TableMetadata(c, r) ==
    /\ c \in Working
    /\ sync[c].reading = NoSync
    /\ r \in sync[c].left /\ Found(r)
    /\ sync' = [sync EXCEPT ![c].reading = r, ![c].read = shape[r],
                            ![c].left = @ \ {r}]
    /\ UNCHANGED <<shape, dropped, schema, missing, fresh, noticed>>

UpdateMetadata(c) ==
    /\ c \in Working
    /\ sync[c].reading # NoSync
    /\ LET r == sync[c].reading
       IN /\ UpdateBigqueryDatasourceSchema(r[1], [row |-> r, version |-> sync[c].read])
          /\ fresh' = [fresh EXCEPT ![r[1]] = IF sync[c].alone THEN sync[c].began[r] ELSE @]
          /\ noticed' = noticed \ {r[1]}
    /\ sync' = [sync EXCEPT ![c].reading = NoSync, ![c].read = 0]
    /\ UNCHANGED <<shape, dropped>>

\* handleSyncError asks for an error of the Google API, which ErrNotExist is
\* not: handleTableNotFound is never called.
handleSyncError(c, r) ==
    /\ c \in Working
    /\ sync[c].reading = NoSync
    /\ r \in sync[c].left /\ ~ Found(r)
    /\ sync' = [sync EXCEPT ![c].left = @ \ {r}]
    /\ noticed' = noticed \cup {r[1]}
    /\ UNCHANGED <<shape, dropped, schema, missing, fresh>>

\* All rows are done, one cannot be read or written, or the pod stops.
SyncEnds(c) ==
    /\ c \in Working
    /\ sync' = [sync EXCEPT ![c] = NoSync]
    /\ UNCHANGED <<shape, dropped, schema, missing, fresh, noticed>>

SyncNext ==
    \/ \E r \in SourceRows : ChangeTable(r) \/ DropTable(r) \/ RestoreTable(r)
    \/ \E c \in Syncs :
         \/ SyncBigQueryTables(c)
         \/ \E r \in SourceRows : TableMetadata(c, r) \/ handleSyncError(c, r)
         \/ UpdateMetadata(c)
         \/ SyncEnds(c)

SyncSpec == SyncInit /\ [][SyncNext]_syncVars

-----------------------------------------------------------------------------
(* Properties *)

\* Every variable has its type.
SyncTypeOK ==
    /\ shape \in [SourceRows -> 0..MaxShape]
    /\ dropped \subseteq SourceRows
    /\ schema \in [SourceRows -> Schema]
    /\ missing \subseteq SourceRows
    /\ sync \in [Syncs -> Sync \cup {NoSync}]
    /\ fresh \in [Registered -> 0..MaxShape]
    /\ noticed \subseteq Registered

\* What a dataset shows of its table is never older than the table was when a
\* sync set out that has looked at it, even if others have overlapped since.
\* Datasets that are pseudonymised are excused: what they show is of the view
\* or of the table, whichever a sync has come to last.
ShownIsFresh ==
    \A d \in Registered \ Pseudonymised : schema[<<d, FALSE>>].version >= fresh[d]

\* A table that a sync does not find is marked as missing, as a week of that
\* removes the dataset (service_bigquery.go:120).
MissingIsMarked == \A d \in noticed : RowsOf(d) \cap missing # {}
=============================================================================
