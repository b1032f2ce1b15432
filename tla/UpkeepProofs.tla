---------------------------- MODULE UpkeepProofs -----------------------------
(*****************************************************************************)
(* Theorems about what background jobs keep up to date: the schemas of       *)
(* BigQuery tables, for any number of datasets and of syncs that overlap, and *)
(* the teams of product areas, for any number of teams, areas and pods.      *)
(*****************************************************************************)
EXTENDS DatasourceSync, TeamCatalogue, WellFoundedInduction, NaturalsInduction, TLAPS

(* The schemas of tables *)

\* A dataset that is not pseudonymised has one row.
Plain == Registered \ Pseudonymised
RowOf(d) == <<d, FALSE>>

\* A sync that has had no company is the only one.
AloneIsAlone == \A c \in Syncs : (c \in Working /\ sync[c].alone) => Working = {c}

\* What a sync has read of a table is of the time since it began.
ReadsAreRecent ==
    \A c \in Syncs : c \in Working =>
        /\ \A r \in SourceRows : sync[c].began[r] <= shape[r]
        /\ \A r \in SourceRows : sync[c].reading = r =>
              sync[c].began[r] <= sync[c].read /\ sync[c].read <= shape[r]

\* No sync holds, and no table shows, less than what the last sync without
\* company saw at its start.
FreshIsBehind ==
    \A d \in Plain :
        /\ fresh[d] <= shape[RowOf(d)]
        /\ \A c \in Syncs : (c \in Working /\ sync[c].reading = RowOf(d)) =>
              fresh[d] <= sync[c].read

\* What is shown to stay true
SyncInv == SyncTypeOK /\ AloneIsAlone /\ ReadsAreRecent /\ FreshIsBehind /\ ShownIsFresh

-----------------------------------------------------------------------------
\* What UpdateMetadata leaves of the record of a sync is a record of a sync.
LEMMA ClearedSync == \A s \in Sync : [s EXCEPT !.reading = NoSync, !.read = 0] \in Sync
<1>1. 0 \in 0..MaxShape
    BY SyncAssumption
<1> QED BY <1>1 DEF Sync

\* A row is of a dataset, which has a row of its own.
LEMMA SourceRowsOf ==
    ASSUME NEW r \in SourceRows
    PROVE  r[1] \in Registered /\ <<r[1], FALSE>> \in SourceRows
<1>1. \A d \in Registered : <<d, FALSE>> \in SourceRows
    BY DEF SourceRows
<1>2. PICK d \in Registered : r = <<d, FALSE>> \/ r = <<d, TRUE>>
    BY SyncAssumption DEF SourceRows
<1>3. r[1] = d
  <2>1. CASE r = <<d, FALSE>>
      BY <2>1
  <2>2. CASE r = <<d, TRUE>>
      BY <2>2
  <2> QED BY <1>2, <2>1, <2>2
<1> QED BY <1>1, <1>3

\* A dataset that is not pseudonymised has one row.
LEMMA PlainRows ==
    ASSUME NEW d \in Plain
    PROVE  RowOf(d) \in SourceRows /\ RowsOf(d) = {RowOf(d)}
<1>1. d \in Registered /\ d \notin Pseudonymised
    BY DEF Plain
<1>2. RowOf(d) \in SourceRows /\ RowOf(d)[1] = d
    BY <1>1 DEF SourceRows, RowOf
<1>3. ASSUME NEW r \in SourceRows, r[1] = d
      PROVE  r = RowOf(d)
  <2>1. CASE \E b \in Registered : r = <<b, FALSE>>
    <3>1. PICK b \in Registered : r = <<b, FALSE>>
        BY <2>1
    <3>2. r[1] = b
        BY <3>1
    <3> QED BY <1>3, <3>1, <3>2 DEF RowOf
  <2>2. CASE \E b \in Pseudonymised : r = <<b, TRUE>>
    <3>1. PICK b \in Pseudonymised : r = <<b, TRUE>>
        BY <2>2
    <3>2. r[1] = b
        BY <3>1
    <3> QED BY <1>1, <1>3, <3>1, <3>2
  <2> QED BY <2>1, <2>2 DEF SourceRows
<1> QED BY <1>2, <1>3 DEF RowsOf

\* Every variable keeps its type (service_bigquery.go, SyncBigQueryTables).
LEMMA SyncTypes ==
    ASSUME SyncTypeOK, [SyncNext]_syncVars
    PROVE  SyncTypeOK'
<1> USE SyncAssumption
<1>1. CASE UNCHANGED syncVars
    BY <1>1 DEF SyncTypeOK, syncVars
<1>2. ASSUME NEW r \in SourceRows, ChangeTable(r) \/ DropTable(r) \/ RestoreTable(r)
      PROVE  SyncTypeOK'
    BY <1>2 DEF SyncTypeOK, ChangeTable, DropTable, RestoreTable
<1>3. ASSUME NEW c \in Syncs, SyncBigQueryTables(c)
      PROVE  SyncTypeOK'
  <2> DEFINE new == [left |-> GetBigqueryDatasources, began |-> shape, reading |-> NoSync,
                     read |-> 0, alone |-> Working = {}]
  <2>a. new \in Sync
    <3>1. (Working = {}) \in BOOLEAN /\ 0 \in 0..MaxShape
        OBVIOUS
    <3> QED BY <3>1 DEF SyncTypeOK, GetBigqueryDatasources, Sync
  <2>b. \A s \in Sync : [s EXCEPT !.alone = FALSE] \in Sync
      BY DEF Sync
  <2> HIDE DEF new
  <2>c. \A x \in Syncs : sync'[x] = IF x = c THEN new
            ELSE IF x \in Working THEN [sync[x] EXCEPT !.alone = FALSE] ELSE NoSync
      BY <1>3 DEF SyncBigQueryTables, new
  <2>d. \A x \in Working : sync[x] \in Sync
      BY DEF SyncTypeOK, Working
  <2>1. \A x \in Syncs : sync'[x] \in Sync \cup {NoSync}
      BY <2>a, <2>b, <2>c, <2>d
  <2>2. sync' \in [Syncs -> Sync \cup {NoSync}]
      BY <1>3, <2>1 DEF SyncBigQueryTables
  <2> QED BY <1>3, <2>2 DEF SyncTypeOK, SyncBigQueryTables
<1>4. ASSUME NEW c \in Syncs, NEW r \in SourceRows, TableMetadata(c, r)
      PROVE  SyncTypeOK'
    BY <1>4 DEF SyncTypeOK, TableMetadata, Sync, Working
<1>5. ASSUME NEW c \in Syncs, UpdateMetadata(c)
      PROVE  SyncTypeOK'
  <2>1. sync[c] \in Sync
      BY <1>5 DEF SyncTypeOK, UpdateMetadata, Working
  <2>2. PICK r \in SourceRows : r = sync[c].reading /\ r[1] \in Registered
      BY <1>5, <2>1, SourceRowsOf DEF UpdateMetadata, Sync
  <2>3. [row |-> r, version |-> sync[c].read] \in Schema
      BY <2>1 DEF Sync, Schema
  <2>4. schema' \in [SourceRows -> Schema] /\ missing' \subseteq SourceRows
      BY <1>5, <2>2, <2>3 DEF SyncTypeOK, UpdateMetadata, UpdateBigqueryDatasourceSchema, SetSchema
  <2>5. sync[c].began[r] \in 0..MaxShape
      BY <2>1 DEF Sync
  <2>6. fresh' \in [Registered -> 0..MaxShape] /\ noticed' \subseteq Registered
      BY <1>5, <2>2, <2>5 DEF SyncTypeOK, UpdateMetadata
  <2>7. sync' \in [Syncs -> Sync \cup {NoSync}]
    <3>1. \A s \in Sync : [s EXCEPT !.reading = NoSync, !.read = 0] \in Sync
        BY ClearedSync
    <3> QED BY <1>5, <2>1, <3>1 DEF SyncTypeOK, UpdateMetadata
  <2> QED BY <1>5, <2>4, <2>6, <2>7 DEF SyncTypeOK, UpdateMetadata
<1>6. ASSUME NEW c \in Syncs, NEW r \in SourceRows, handleSyncError(c, r)
      PROVE  SyncTypeOK'
  <2>1. sync[c] \in Sync /\ r[1] \in Registered
      BY <1>6, SourceRowsOf DEF SyncTypeOK, handleSyncError, Working
  <2>2. sync' \in [Syncs -> Sync \cup {NoSync}]
      BY <1>6, <2>1 DEF SyncTypeOK, handleSyncError, Sync
  <2> QED BY <1>6, <2>1, <2>2 DEF SyncTypeOK, handleSyncError
<1>7. ASSUME NEW c \in Syncs, SyncEnds(c)
      PROVE  SyncTypeOK'
    BY <1>7 DEF SyncTypeOK, SyncEnds
<1> QED BY <1>1, <1>2, <1>3, <1>4, <1>5, <1>6, <1>7 DEF SyncNext

\* A step of SyncBigQueryTables, or of BigQuery, keeps the rest of the invariant.
LEMMA SyncKeeps ==
    ASSUME SyncInv, [SyncNext]_syncVars, SyncTypeOK'
    PROVE  AloneIsAlone' /\ ReadsAreRecent' /\ FreshIsBehind' /\ ShownIsFresh'
<1> DEFINE Goal == AloneIsAlone' /\ ReadsAreRecent' /\ FreshIsBehind' /\ ShownIsFresh'
<1> USE SyncAssumption
<1>t. SyncTypeOK /\ AloneIsAlone /\ ReadsAreRecent /\ FreshIsBehind /\ ShownIsFresh
    BY DEF SyncInv
<1>n. /\ \A r \in SourceRows : shape[r] \in Nat /\ shape'[r] \in Nat
      /\ \A d \in Plain : fresh[d] \in Nat /\ schema[RowOf(d)].version \in Nat
      /\ \A c \in Working : /\ sync[c] \in Sync /\ sync[c].read \in Nat
                            /\ \A r \in SourceRows : sync[c].began[r] \in Nat
  <2>1. \A r \in SourceRows : shape[r] \in Nat /\ shape'[r] \in Nat
      BY <1>t DEF SyncTypeOK
  <2>2. \A d \in Plain : fresh[d] \in Nat
      BY <1>t DEF SyncTypeOK, Plain
  <2>3. \A d \in Plain : schema[RowOf(d)].version \in Nat
      BY <1>t, PlainRows DEF SyncTypeOK, Schema
  <2>4. \A c \in Working : sync[c] \in Sync
      BY <1>t DEF SyncTypeOK, Working
  <2>5. \A s \in Sync : s.read \in Nat /\ \A r \in SourceRows : s.began[r] \in Nat
      BY DEF Sync
  <2> QED BY <2>1, <2>2, <2>3, <2>4, <2>5
<1>1. ASSUME UNCHANGED syncVars
      PROVE  Goal
    BY <1>t, <1>1 DEF syncVars, AloneIsAlone, ReadsAreRecent, FreshIsBehind, ShownIsFresh, Working
<1>2. ASSUME NEW r \in SourceRows, ChangeTable(r) \/ DropTable(r) \/ RestoreTable(r)
      PROVE  Goal
  <2>1. UNCHANGED <<schema, sync, fresh>> /\ Working' = Working
      BY <1>2 DEF ChangeTable, DropTable, RestoreTable, Working
  <2>2. \A q \in SourceRows : shape[q] <= shape'[q]
      BY <1>2, <1>t DEF ChangeTable, DropTable, RestoreTable, SyncTypeOK
  <2>3. ReadsAreRecent'
      BY <1>t, <1>n, <2>1, <2>2 DEF ReadsAreRecent
  <2>4. FreshIsBehind'
      BY <1>t, <1>n, <2>1, <2>2, PlainRows DEF FreshIsBehind
  <2> QED BY <1>t, <2>1, <2>3, <2>4 DEF AloneIsAlone, ShownIsFresh
<1>3. ASSUME NEW c \in Syncs, SyncBigQueryTables(c)
      PROVE  Goal
  <2>1. /\ UNCHANGED <<shape, schema, fresh>> /\ c \notin Working
        /\ sync'[c].reading = NoSync /\ sync'[c].began = shape
        /\ sync'[c].alone => Working = {}
        /\ \A x \in Syncs \ {c} :
              sync'[x] = IF x \in Working THEN [sync[x] EXCEPT !.alone = FALSE] ELSE NoSync
      BY <1>3 DEF SyncBigQueryTables, Working
  <2>2. \A x \in Syncs \ {c} :
           /\ x \in Working' <=> x \in Working
           /\ x \in Working => /\ sync'[x].began = sync[x].began
                               /\ sync'[x].reading = sync[x].reading
                               /\ sync'[x].read = sync[x].read
                               /\ ~sync'[x].alone
    <3> TAKE x \in Syncs \ {c}
    <3>1. CASE x \in Working
      <4>1. sync'[x] \in Sync /\ sync[x] \in Sync
          BY <1>n, <2>1, <3>1 DEF Sync
      <4> QED BY <2>1, <3>1, <4>1, NoSyncAssumption DEF Working, Sync
    <3>2. CASE x \notin Working
        BY <2>1, <3>2 DEF Working
    <3> QED BY <3>1, <3>2
  <2>3. AloneIsAlone'
    <3>1. Working = {} => Working' \subseteq {c}
        BY <2>2 DEF Working
    <3> QED BY <2>1, <2>2, <3>1 DEF AloneIsAlone
  <2>4. ReadsAreRecent'
      BY <1>t, <1>n, <2>1, <2>2, NoSyncAssumption DEF ReadsAreRecent
  <2>5. FreshIsBehind'
      BY <1>t, <2>1, <2>2, PlainRows, NoSyncAssumption DEF FreshIsBehind
  <2> QED BY <1>t, <2>1, <2>3, <2>4, <2>5 DEF ShownIsFresh
<1>4. ASSUME NEW c \in Syncs, NEW r \in SourceRows, TableMetadata(c, r)
      PROVE  Goal
  <2>1. /\ UNCHANGED <<shape, schema, fresh>> /\ c \in Working /\ sync[c] \in Sync
        /\ sync' = [sync EXCEPT ![c].reading = r, ![c].read = shape[r], ![c].left = @ \ {r}]
      BY <1>4, <1>n DEF TableMetadata
  <2>2. /\ sync'[c].reading = r /\ sync'[c].read = shape[r]
        /\ sync'[c].began = sync[c].began /\ sync'[c].alone = sync[c].alone
        /\ \A x \in Syncs \ {c} : sync'[x] = sync[x]
      BY <1>t, <2>1 DEF SyncTypeOK, Sync
  <2>3. sync'[c] \in Sync
      BY <1>t, <2>1 DEF SyncTypeOK, Sync
  <2>4. Working' = Working
      BY <2>1, <2>2, <2>3, NoSyncAssumption DEF Working
  <2>5. AloneIsAlone'
      BY <1>t, <2>2, <2>4 DEF AloneIsAlone
  <2>6. ReadsAreRecent'
    <3>1. ASSUME NEW x \in Syncs, x \in Working', NEW q \in SourceRows
          PROVE  /\ sync'[x].began[q] <= shape'[q]
                 /\ sync'[x].reading = q => sync'[x].began[q] <= sync'[x].read
                                            /\ sync'[x].read <= shape'[q]
      <4>1. x \in Working /\ sync[x].began[q] <= shape[q]
          BY <1>t, <2>4, <3>1 DEF ReadsAreRecent
      <4>2. CASE x = c
          BY <1>n, <2>1, <2>2, <4>1, <4>2
      <4>3. CASE x # c
          BY <1>t, <2>1, <2>2, <4>1, <4>3 DEF ReadsAreRecent
      <4> QED BY <4>2, <4>3
    <3> QED BY <3>1 DEF ReadsAreRecent
  <2>7. FreshIsBehind'
      BY <1>t, <1>n, <2>1, <2>2, <2>4, PlainRows DEF FreshIsBehind
  <2> QED BY <1>t, <2>1, <2>5, <2>6, <2>7 DEF ShownIsFresh
<1>5. ASSUME NEW c \in Syncs, UpdateMetadata(c)
      PROVE  Goal
  <2>1. c \in Working /\ sync[c] \in Sync /\ sync[c].reading # NoSync
      BY <1>5, <1>n DEF UpdateMetadata
  <2>2. PICK r \in SourceRows : r = sync[c].reading
      BY <2>1 DEF Sync
  <2>3. /\ shape' = shape
        /\ fresh' = [fresh EXCEPT ![r[1]] = IF sync[c].alone THEN sync[c].began[r] ELSE @]
        /\ schema' = [q \in SourceRows |-> IF q \in RowsOf(r[1])
                         THEN [row |-> r, version |-> sync[c].read] ELSE schema[q]]
        /\ sync' = [sync EXCEPT ![c].reading = NoSync, ![c].read = 0]
      BY <1>5, <2>2 DEF UpdateMetadata, UpdateBigqueryDatasourceSchema, SetSchema
  <2>4. /\ sync'[c].reading = NoSync /\ sync'[c].began = sync[c].began
        /\ sync'[c].alone = sync[c].alone
        /\ \A x \in Syncs \ {c} : sync'[x] = sync[x]
      BY <1>t, <2>1, <2>3 DEF SyncTypeOK, Sync
  <2>5. Working' = Working
    <3>1. \A s \in Sync : [s EXCEPT !.reading = NoSync, !.read = 0] \in Sync
        BY ClearedSync
    <3>2. sync'[c] \in Sync
        BY <1>t, <2>1, <2>3, <3>1 DEF SyncTypeOK
    <3> QED BY <2>1, <2>4, <3>2, NoSyncAssumption DEF Working
  <2>6. r[1] \in Registered
      BY SourceRowsOf
  <2>7. \A d \in Plain : r[1] = d => r = RowOf(d)
      BY PlainRows DEF RowsOf
  <2>8. \A d \in Plain : d # r[1] => fresh'[d] = fresh[d] /\ schema'[RowOf(d)] = schema[RowOf(d)]
      BY <1>t, <2>3, <2>6, PlainRows DEF SyncTypeOK, RowsOf, RowOf, Plain
  <2>9. \A d \in Plain : d = r[1] =>
            /\ schema'[RowOf(d)].version = sync[c].read
            /\ sync[c].alone => fresh'[d] = sync[c].began[r]
            /\ ~sync[c].alone => fresh'[d] = fresh[d]
      BY <1>t, <2>3, <2>6, <2>7, PlainRows DEF SyncTypeOK, Plain
  <2>10. sync[c].began[r] <= sync[c].read /\ sync[c].read <= shape[r]
      BY <1>t, <2>1, <2>2 DEF ReadsAreRecent
  <2>11. AloneIsAlone'
      BY <1>t, <2>4, <2>5 DEF AloneIsAlone
  <2>12. ReadsAreRecent'
    <3>1. ASSUME NEW x \in Syncs, x \in Working', NEW q \in SourceRows
          PROVE  /\ sync'[x].began[q] <= shape'[q]
                 /\ sync'[x].reading = q => sync'[x].began[q] <= sync'[x].read
                                            /\ sync'[x].read <= shape'[q]
      <4>1. x \in Working /\ sync[x].began[q] <= shape[q]
          BY <1>t, <2>5, <3>1 DEF ReadsAreRecent
      <4>2. CASE x = c
          BY <2>3, <2>4, <4>1, <4>2, NoSyncAssumption
      <4>3. CASE x # c
          BY <1>t, <2>3, <2>4, <4>1, <4>3 DEF ReadsAreRecent
      <4> QED BY <4>2, <4>3
    <3> QED BY <3>1 DEF ReadsAreRecent
  <2>13. ASSUME NEW d \in Plain
         PROVE  /\ fresh'[d] <= shape'[RowOf(d)]
                /\ \A x \in Syncs : (x \in Working' /\ sync'[x].reading = RowOf(d)) =>
                      fresh'[d] <= sync'[x].read
                /\ fresh'[d] <= schema'[RowOf(d)].version
    <3>0. RowOf(d) \in SourceRows /\ RowOf(d) # NoSync
        BY PlainRows, NoSyncAssumption
    <3>1. CASE d # r[1]
        BY <1>t, <2>3, <2>4, <2>5, <2>8, <3>0, <3>1 DEF FreshIsBehind, ShownIsFresh, Plain, RowOf
    <3>2. CASE d = r[1] /\ ~sync[c].alone
      <4>1. fresh[d] <= sync[c].read /\ r = RowOf(d)
          BY <1>t, <2>1, <2>2, <2>7, <3>2 DEF FreshIsBehind
      <4> QED BY <1>t, <2>3, <2>4, <2>5, <2>9, <3>0, <3>2, <4>1 DEF FreshIsBehind
    <3>3. CASE d = r[1] /\ sync[c].alone
      <4>1. Working = {c} /\ r = RowOf(d)
          BY <1>t, <2>1, <2>7, <3>3 DEF AloneIsAlone
      <4>2. fresh'[d] <= sync[c].read /\ fresh'[d] <= shape[r]
          BY <1>n, <2>1, <2>9, <2>10, <3>3
      <4> QED BY <2>3, <2>4, <2>5, <2>9, <3>0, <3>3, <4>1, <4>2
    <3> QED BY <3>1, <3>2, <3>3
  <2>14. FreshIsBehind'
      BY <2>13 DEF FreshIsBehind
  <2>15. ShownIsFresh'
    <3>1. \A d \in Plain : schema'[RowOf(d)].version \in Nat /\ fresh'[d] \in Nat
        BY PlainRows DEF SyncTypeOK, Schema, Plain
    <3> QED BY <2>13, <3>1 DEF ShownIsFresh, Plain, RowOf
  <2> QED BY <2>11, <2>12, <2>14, <2>15
<1>6. ASSUME NEW c \in Syncs, NEW r \in SourceRows, handleSyncError(c, r)
      PROVE  Goal
  <2>1. /\ UNCHANGED <<shape, schema, fresh>> /\ c \in Working /\ sync[c] \in Sync
        /\ sync' = [sync EXCEPT ![c].left = @ \ {r}]
      BY <1>6, <1>n DEF handleSyncError
  <2>2. \A x \in Syncs : /\ sync'[x].reading = sync[x].reading /\ sync'[x].read = sync[x].read
                         /\ sync'[x].began = sync[x].began /\ sync'[x].alone = sync[x].alone
      BY <1>t, <2>1 DEF SyncTypeOK, Sync
  <2>3. Working' = Working
    <3>1. sync'[c] \in Sync /\ \A x \in Syncs \ {c} : sync'[x] = sync[x]
        BY <1>t, <2>1 DEF SyncTypeOK, Sync
    <3> QED BY <2>1, <3>1, NoSyncAssumption DEF Working
  <2> QED BY <1>t, <2>1, <2>2, <2>3
          DEF AloneIsAlone, ReadsAreRecent, FreshIsBehind, ShownIsFresh
<1>7. ASSUME NEW c \in Syncs, SyncEnds(c)
      PROVE  Goal
  <2>1. /\ UNCHANGED <<shape, schema, fresh>> /\ c \in Working
        /\ sync'[c] = NoSync /\ \A x \in Syncs \ {c} : sync'[x] = sync[x]
      BY <1>7, <1>t DEF SyncEnds, SyncTypeOK
  <2>2. Working' = Working \ {c}
      BY <2>1 DEF Working
  <2> QED BY <1>t, <2>1, <2>2 DEF AloneIsAlone, ReadsAreRecent, FreshIsBehind, ShownIsFresh
<1> HIDE DEF Goal
<1>8. Goal
    BY <1>1, <1>2, <1>3, <1>4, <1>5, <1>6, <1>7 DEF SyncNext
<1> QED BY <1>8 DEF Goal

\* The inductive invariant of the sync: types, and what overlapping syncs hold
\* (service_bigquery.go, SyncBigQueryTables).
THEOREM SyncInvariant == SyncSpec => []SyncInv
<1>1. SyncInit => SyncInv
  <2> SUFFICES ASSUME SyncInit PROVE SyncInv
      OBVIOUS
  <2> USE SyncAssumption
  <2>1. SyncTypeOK
    <3>1. \A r \in SourceRows : [row |-> <<r[1], FALSE>>, version |-> 0] \in Schema
      <4> TAKE r \in SourceRows
      <4>1. 0 \in 0..MaxShape
          OBVIOUS
      <4>2. <<r[1], FALSE>> \in SourceRows
          BY SourceRowsOf
      <4> QED BY <4>1, <4>2 DEF Schema
    <3>2. schema \in [SourceRows -> Schema]
        BY <3>1 DEF SyncInit
    <3>3. shape \in [SourceRows -> 0..MaxShape] /\ fresh \in [Registered -> 0..MaxShape]
        BY DEF SyncInit
    <3> QED BY <3>2, <3>3 DEF SyncInit, SyncTypeOK
  <2>2. Working = {}
      BY DEF SyncInit, Working
  <2>3. \A d \in Plain : fresh[d] = 0 /\ shape[RowOf(d)] = 0 /\ schema[RowOf(d)].version = 0
      BY PlainRows DEF SyncInit, Plain
  <2>4. AloneIsAlone /\ ReadsAreRecent
      BY <2>2 DEF AloneIsAlone, ReadsAreRecent
  <2>5. FreshIsBehind
      BY <2>2, <2>3 DEF FreshIsBehind
  <2>6. ShownIsFresh
    <3>1. \A d \in Registered \ Pseudonymised :
             fresh[d] = 0 /\ schema[<<d, FALSE>>].version = 0
        BY <2>3 DEF Plain, RowOf
    <3>2. \A n \in Nat : n >= n
        OBVIOUS
    <3> QED BY <3>1, <3>2 DEF ShownIsFresh
  <2> QED BY <2>1, <2>4, <2>5, <2>6 DEF SyncInv
<1>2. SyncInv /\ [SyncNext]_syncVars => SyncInv'
    BY SyncTypes, SyncKeeps DEF SyncInv
<1> QED BY <1>1, <1>2, PTL DEF SyncSpec

\* What a dataset shows of its table is never older than the table was when a
\* sync without company set out that has looked at it: a slow sync that began
\* earlier does not undo it (UpdateBigqueryDatasourceSchema).
THEOREM SyncShowsFresh == SyncSpec => []ShownIsFresh
<1>1. SyncInv => ShownIsFresh
    BY DEF SyncInv
<1> QED BY <1>1, SyncInvariant, PTL

-----------------------------------------------------------------------------
(* Teams and product areas *)

Pass == [step : Steps, left : SUBSET Areas, began : Hours, asked : Hours,
         answer : SUBSET CatalogueTeams, slow : BOOLEAN,
         gathered : [CatalogueTeams -> Areas \cup {NoAnswer}]]

\* Every variable has its type; the history is of the past.
TeamsTyped ==
    /\ hour \in Hours
    /\ areaOf \in [CatalogueTeams -> Areas]
    /\ lastIn \in [CatalogueTeams -> [Areas -> Hours \cup {NotEver}]]
    /\ listing = [a \in Areas |-> listing[a]]
    /\ \A a \in Areas : listing[a] = NoAnswer \/ listing[a] \in Listing
    /\ pass \in [CataloguePods -> Pass]
    /\ teamRow \in [CatalogueTeams -> Areas \cup {NoAnswer}]

\* The area that is asked for next
NextArea(r) == CHOOSE a \in r.left : \A b \in r.left : a <= b

\* What a pass knows: the answer it has is true of the hour it asked in; what it
\* gathered was true when the pass began, or the cache's lifetime before it.
PassRight(r) ==
    /\ r.began <= hour /\ r.asked <= hour
    /\ r.step \in {"get", "set"} => r.left # {}
    /\ r.step = "set" =>
          /\ r.began <= r.asked
          /\ \A t \in r.answer : WasIn(t, NextArea(r), r.asked)
    /\ ~r.slow => \A t \in CatalogueTeams : r.gathered[t] # NoAnswer =>
                     WasIn(t, r.gathered[t], r.began - Lifetime)

\* An entry of the cache is true of the hour it was stored in, unless it was asked
\* for in an earlier one.
EntryRight(a, l) ==
    /\ l.stored <= hour
    /\ ~l.slow => \A t \in l.teams : WasIn(t, a, l.stored)

\* What is shown to stay true
TeamsInv ==
    /\ TeamsTyped
    /\ \A a \in Areas : listing[a] # NoAnswer => EntryRight(a, listing[a])
    /\ \A p \in CataloguePods : PassRight(pass[p])

\* A set of numbers that is not empty has a lowest.
LEMMA LowestOf ==
    ASSUME NEW S \in SUBSET Nat, S # {}
    PROVE  \E a \in S : \A b \in S : a <= b
<1>1. PICK a \in S : \A b \in S : <<b, a>> \notin OpToRel(<, Nat)
    BY WFMin, NatLessThanWellFounded, Zenon
<1>2. \A b \in S : ~(b < a)
    BY <1>1, Zenon DEF OpToRel
<1>3. \A b \in S : a <= b
    BY <1>2
<1> QED BY <1>3

\* A set of areas has a first.
LEMMA FirstArea ==
    ASSUME NEW r \in Pass, r.left # {}
    PROVE  NextArea(r) \in r.left /\ NextArea(r) \in Areas
<1>1. r.left \in SUBSET Nat /\ r.left \subseteq Areas
    BY TeamCatalogueAssumption DEF Pass
<1> QED BY <1>1, LowestOf DEF NextArea

\* Having been there since an hour is having been there since an earlier one.
LEMMA WasInEarlier ==
    ASSUME TeamsTyped, NEW t \in CatalogueTeams, NEW a \in Areas,
           NEW h \in Int, NEW g \in Int, g <= h, WasIn(t, a, h)
    PROVE  WasIn(t, a, g)
<1>1. lastIn[t][a] \in Int
    BY DEF TeamsTyped, Hours, NotEver
<1> QED BY <1>1 DEF WasIn

\* The past stays: where a team was since an hour, it was since that hour.
LEMMA WasInStays ==
    ASSUME TeamsTyped, TeamCatalogueNext \/ UNCHANGED teamCatalogueVars,
           NEW t \in CatalogueTeams, NEW a \in Areas, NEW h \in Int, h <= hour, WasIn(t, a, h)
    PROVE  WasIn(t, a, h)'
<1>1. ASSUME NEW u \in CatalogueTeams, NEW b \in Areas, MoveTeam(u, b)
      PROVE  WasIn(t, a, h)'
  <2>1. /\ areaOf[u] # b /\ areaOf[u] \in Areas
        /\ areaOf' = [areaOf EXCEPT ![u] = b]
        /\ lastIn' = [lastIn EXCEPT ![u] = [[lastIn[u] EXCEPT ![areaOf[u]] = hour] EXCEPT ![b] = NotEver]]
      BY <1>1 DEF MoveTeam, TeamsTyped
  <2>2. CASE u # t
      BY <2>1, <2>2 DEF TeamsTyped, WasIn
  <2>3. CASE u = t
    <3>1. /\ areaOf'[t] = b
          /\ lastIn'[t] = [[lastIn[t] EXCEPT ![areaOf[t]] = hour] EXCEPT ![b] = NotEver]
        BY <2>1, <2>3 DEF TeamsTyped
    <3>2. lastIn[t] \in [Areas -> Hours \cup {NotEver}]
        BY DEF TeamsTyped
    <3>3. CASE a = b
        BY <3>1, <3>3 DEF WasIn
    <3>4. CASE a # b /\ a = areaOf[t]
      <4>1. lastIn'[t][a] = hour
          BY <3>1, <3>2, <3>4
      <4>2. hour # NotEver
          BY TeamCatalogueAssumption DEF TeamsTyped, Hours, NotEver
      <4> QED BY <4>1, <4>2 DEF WasIn
    <3>5. CASE a # b /\ a # areaOf[t]
      <4>1. lastIn'[t][a] = lastIn[t][a]
          BY <3>1, <3>2, <3>5
      <4> QED BY <3>5, <4>1 DEF WasIn
    <3> QED BY <3>3, <3>4, <3>5
  <2> QED BY <2>2, <2>3
<1>2. ASSUME areaOf' = areaOf, lastIn' = lastIn
      PROVE  WasIn(t, a, h)'
    BY <1>2 DEF WasIn
<1>3. CASE TeamCatalogueNext
    BY <1>1, <1>2, <1>3 DEF TeamCatalogueNext, PassHour, GetProductAreas, CachedTeams,
       GetTeamsInProductArea, SetListing, UpsertProductAreaAndTeam, PassFails
<1> QED BY <1>2, <1>3 DEF teamCatalogueVars

\* What a pass knows stays right.
LEMMA PassStaysRight ==
    ASSUME TeamsInv, TeamCatalogueNext \/ UNCHANGED teamCatalogueVars, hour' \in Hours, hour <= hour',
           NEW r \in Pass, PassRight(r)
    PROVE  PassRight(r)'
<1>1. /\ TeamsTyped /\ hour \in Int /\ Lifetime \in Nat
      /\ r.began \in Int /\ r.asked \in Int /\ r.began - Lifetime \in Int
      /\ r.began - Lifetime <= r.began /\ hour' \in Int
    BY TeamCatalogueAssumption DEF TeamsInv, TeamsTyped, Pass, Hours
<1>2. r.began <= hour' /\ r.asked <= hour'
    BY <1>1 DEF PassRight
<1>3. ASSUME r.step = "set"
      PROVE  \A t \in r.answer : WasIn(t, NextArea(r), r.asked)'
  <2>1. NextArea(r) \in Areas /\ r.asked <= hour /\ r.answer \subseteq CatalogueTeams
      BY <1>3, FirstArea DEF PassRight, Pass
  <2> QED BY <1>1, <1>3, <2>1, WasInStays DEF PassRight
<1>4. ASSUME ~r.slow, NEW t \in CatalogueTeams, r.gathered[t] # NoAnswer
      PROVE  WasIn(t, r.gathered[t], r.began - Lifetime)'
  <2>1. r.gathered[t] \in Areas
      BY <1>4 DEF Pass
  <2>2. r.began - Lifetime <= hour
      BY <1>1 DEF PassRight
  <2>3. WasIn(t, r.gathered[t], r.began - Lifetime)
      BY <1>4 DEF PassRight
  <2> QED BY <1>1, <2>1, <2>2, <2>3, WasInStays
<1> QED BY <1>2, <1>3, <1>4 DEF PassRight

\* What the teams of an area add to a pass
LEMMA GatherRight ==
    ASSUME TeamsTyped, NEW r \in Pass, PassRight(r), r.step \in {"get", "set"},
           NEW teams \in SUBSET CatalogueTeams, NEW slow \in BOOLEAN,
           ~slow => \A t \in teams : WasIn(t, NextArea(r), r.began - Lifetime)
    PROVE  Gather(r, NextArea(r), teams, slow) \in Pass /\ PassRight(Gather(r, NextArea(r), teams, slow))
<1> DEFINE a == NextArea(r)
           gathered == [t \in CatalogueTeams |-> IF t \in teams THEN a ELSE r.gathered[t]]
           next == IF r.left = {a} THEN "upsert" ELSE "get"
           f == Gather(r, a, teams, slow)
<1>1. a \in r.left /\ a \in Areas
    BY FirstArea DEF PassRight
<1>2. 0 \in Hours /\ hour \in Hours /\ hour >= 0
    BY TeamCatalogueAssumption DEF Hours, TeamsTyped
<1>3. gathered \in [CatalogueTeams -> Areas \cup {NoAnswer}]
    BY <1>1 DEF Pass
<1>4. next \in Steps /\ (next = "get" => r.left \ {a} # {}) /\ next # "set"
    BY <1>1 DEF Steps
<1>5. f = [r EXCEPT !.left = @ \ {a}, !.answer = {}, !.asked = 0, !.gathered = gathered,
                    !.slow = @ \/ slow, !.step = next]
    BY DEF Gather, Pass
<1>6. \A t \in CatalogueTeams : gathered[t] = IF t \in teams THEN a ELSE r.gathered[t]
    OBVIOUS
<1> HIDE DEF next, gathered, f, a
<1>7. /\ f \in Pass
      /\ f.left = r.left \ {a} /\ f.answer = {} /\ f.asked = 0 /\ f.gathered = gathered
      /\ f.step = next /\ f.slow = (r.slow \/ slow) /\ f.began = r.began
    BY <1>2, <1>3, <1>4, <1>5 DEF Pass
<1>8. ASSUME ~f.slow, NEW t \in CatalogueTeams, gathered[t] # NoAnswer
      PROVE  WasIn(t, gathered[t], r.began - Lifetime)
    BY <1>6, <1>7, <1>8 DEF PassRight, a
<1>9. PassRight(f)
    BY <1>2, <1>4, <1>7, <1>8 DEF PassRight
<1> QED BY <1>7, <1>9 DEF f, a

\* The clock goes forward.
LEMMA HoursPass ==
    ASSUME TeamsTyped, TeamCatalogueNext \/ UNCHANGED teamCatalogueVars
    PROVE  hour' \in Hours /\ hour <= hour' /\ hour \in Int /\ hour' \in Int
<1>1. hour \in Int /\ LastHour \in Int /\ hour \in 0..LastHour
    BY TeamCatalogueAssumption DEF TeamsTyped, Hours
<1>2. hour' = hour \/ (hour < LastHour /\ hour' = hour + 1)
    BY DEF TeamCatalogueNext, PassHour, MoveTeam, GetProductAreas, CachedTeams,
       GetTeamsInProductArea, SetListing, UpsertProductAreaAndTeam, PassFails, teamCatalogueVars
<1> QED BY <1>1, <1>2 DEF Hours

\* An entry of the cache stays right.
LEMMA EntryStaysRight ==
    ASSUME TeamsInv, TeamCatalogueNext \/ UNCHANGED teamCatalogueVars,
           NEW a \in Areas, NEW l \in Listing, EntryRight(a, l)
    PROVE  EntryRight(a, l)'
<1>1. TeamsTyped /\ hour <= hour' /\ hour \in Int /\ hour' \in Int
    BY HoursPass DEF TeamsInv
<1>2. l.stored \in Int /\ l.teams \subseteq CatalogueTeams /\ l.stored <= hour
    BY TeamCatalogueAssumption DEF Listing, Hours, EntryRight
<1>3. l.stored <= hour'
    BY <1>1, <1>2
<1> QED BY <1>1, <1>2, <1>3, WasInStays DEF EntryRight

\* A step of a syncer that leaves its pass right, and the cache.
LEMMA PodMovesRight ==
    ASSUME TeamsInv, TeamCatalogueNext, NEW p \in CataloguePods, NEW f \in Pass, PassRight(f),
           pass' = [pass EXCEPT ![p] = f]
    PROVE  pass' \in [CataloguePods -> Pass] /\ \A q \in CataloguePods : PassRight(pass[q])'
<1>1. /\ pass' \in [CataloguePods -> Pass] /\ pass'[p] = f
      /\ \A q \in CataloguePods : q # p => pass'[q] = pass[q]
    BY DEF TeamsInv, TeamsTyped
<1>2. ASSUME NEW q \in CataloguePods
      PROVE  PassRight(pass[q])'
  <2>1. PICK r \in Pass : r = pass'[q] /\ PassRight(r)
      BY <1>1 DEF TeamsInv, TeamsTyped
  <2>2. PassRight(r)'
      BY <2>1, HoursPass, PassStaysRight DEF TeamsInv
  <2> QED BY <2>1, <2>2 DEF PassRight
<1> QED BY <1>1, <1>2

\* What each step makes of passes and of the cache
TeamsMoveSo ==
    /\ pass' \in [CataloguePods -> Pass]
    /\ \A p \in CataloguePods : PassRight(pass[p])'
    /\ listing' = [a \in Areas |-> listing'[a]]
    /\ \A a \in Areas : listing'[a] # NoAnswer => listing'[a] \in Listing /\ EntryRight(a, listing[a])'

\* The cache stays right when no entry is stored.
LEMMA ListingStays ==
    ASSUME TeamsInv, TeamCatalogueNext \/ UNCHANGED teamCatalogueVars, listing' = listing
    PROVE  /\ listing' = [a \in Areas |-> listing'[a]]
           /\ \A a \in Areas : listing'[a] # NoAnswer =>
                 listing'[a] \in Listing /\ EntryRight(a, listing[a])'
<1>1. ASSUME NEW a \in Areas, listing'[a] # NoAnswer
      PROVE  listing'[a] \in Listing /\ EntryRight(a, listing[a])'
  <2>1. PICK l \in Listing : l = listing[a] /\ EntryRight(a, l)
      BY <1>1 DEF TeamsInv, TeamsTyped
  <2>2. EntryRight(a, l)'
      BY <2>1, EntryStaysRight
  <2> QED BY <2>1, <2>2 DEF EntryRight
<1>2. listing = [a \in Areas |-> listing[a]]
    BY DEF TeamsInv, TeamsTyped
<1> QED BY <1>1, <1>2

LEMMA NoPassRight ==
    ASSUME TeamsTyped
    PROVE  NoPass \in Pass /\ PassRight(NoPass)
<1>1. 0 \in Hours /\ hour >= 0
    BY TeamCatalogueAssumption DEF Hours, TeamsTyped
<1>2. NoPass \in Pass
    BY <1>1 DEF NoPass, Pass, Steps
<1>3. /\ NoPass.began = 0 /\ NoPass.asked = 0 /\ NoPass.step = "idle"
      /\ \A t \in CatalogueTeams : NoPass.gathered[t] = NoAnswer
    BY DEF NoPass
<1> QED BY <1>1, <1>2, <1>3 DEF PassRight

\* A pass begins with all areas to ask for.
LEMMA PassesBeginRight ==
    ASSUME TeamsInv, TeamCatalogueNext, NEW p \in CataloguePods, GetProductAreas(p)
    PROVE  TeamsMoveSo
<1> DEFINE f == [NoPass EXCEPT !.step = "get", !.left = Areas, !.began = hour]
<1>1. hour \in Hours /\ hour >= 0 /\ hour \in Int /\ TeamsTyped
    BY TeamCatalogueAssumption DEF Hours, TeamsInv, TeamsTyped
<1>2. PICK g \in Pass : g = f
    BY <1>1, NoPassRight DEF Pass, Steps
<1>3. /\ g.step = "get" /\ g.left = Areas /\ g.began = hour /\ g.asked = 0
      /\ \A t \in CatalogueTeams : g.gathered[t] = NoAnswer
    BY <1>2 DEF NoPass
<1>4. pass' = [pass EXCEPT ![p] = g] /\ listing' = listing
    BY <1>2 DEF GetProductAreas
<1>5. PassRight(g)
    BY <1>1, <1>3, TeamCatalogueAssumption DEF PassRight
<1> QED BY <1>4, <1>5, PodMovesRight, ListingStays DEF TeamsMoveSo

\* An answer from the cache
LEMMA CachedRight ==
    ASSUME TeamsInv, TeamCatalogueNext, NEW p \in CataloguePods, CachedTeams(p)
    PROVE  TeamsMoveSo
<1>1. PICK r \in Pass : r = pass[p] /\ PassRight(r) /\ r.step = "get"
    BY DEF CachedTeams, TeamsInv, TeamsTyped
<1> DEFINE a == NextArea(r)
<1>2. a \in Areas /\ a = Area(p)
    BY <1>1, FirstArea DEF PassRight, Area, NextArea
<1>3. PICK l \in Listing : /\ l = listing[a] /\ EntryRight(a, l) /\ hour - l.stored <= Lifetime
                           /\ pass' = [pass EXCEPT ![p] = Gather(r, a, l.teams, l.slow)]
                           /\ listing' = listing
    BY <1>1, <1>2 DEF CachedTeams, CacheHit, TeamsInv, TeamsTyped
<1>4. /\ TeamsTyped /\ hour \in Int /\ Lifetime \in Int /\ r.began \in Int /\ r.began <= hour
      /\ l.stored \in Int /\ l.teams \in SUBSET CatalogueTeams /\ l.slow \in BOOLEAN
    BY <1>1, TeamCatalogueAssumption DEF TeamsInv, TeamsTyped, Hours, Pass, PassRight, Listing
<1>5. r.began - Lifetime \in Int /\ r.began - Lifetime <= l.stored
    BY <1>3, <1>4
<1>6. ~l.slow => \A t \in l.teams : WasIn(t, a, r.began - Lifetime)
    BY <1>2, <1>3, <1>4, <1>5, WasInEarlier DEF EntryRight
<1>7. PICK f \in Pass : f = Gather(r, a, l.teams, l.slow) /\ PassRight(f)
    BY <1>1, <1>4, <1>6, GatherRight
<1> QED BY <1>3, <1>7, PodMovesRight, ListingStays DEF TeamsMoveSo

\* An answer from the catalogue
LEMMA AnsweredRight ==
    ASSUME TeamsInv, TeamCatalogueNext, NEW p \in CataloguePods, GetTeamsInProductArea(p)
    PROVE  TeamsMoveSo
<1>1. PICK r \in Pass : r = pass[p] /\ PassRight(r) /\ r.step = "get"
    BY DEF GetTeamsInProductArea, TeamsInv, TeamsTyped
<1> DEFINE a == NextArea(r)
           f == [r EXCEPT !.step = "set", !.asked = hour, !.answer = TeamsOf(a)]
<1>2. a \in Areas /\ a = Area(p)
    BY <1>1, FirstArea DEF PassRight, Area, NextArea
<1>3. TeamsTyped /\ hour \in Hours /\ hour \in Int /\ TeamsOf(a) \in SUBSET CatalogueTeams
    BY TeamCatalogueAssumption DEF TeamsInv, TeamsTyped, Hours, TeamsOf
<1>4. PICK g \in Pass : g = f
    BY <1>1, <1>3 DEF Pass, Steps
<1>5. /\ g.step = "set" /\ g.asked = hour /\ g.answer = TeamsOf(a) /\ g.left = r.left
      /\ g.began = r.began /\ g.slow = r.slow /\ g.gathered = r.gathered
    BY <1>1, <1>4 DEF Pass
<1>6. pass' = [pass EXCEPT ![p] = g] /\ listing' = listing
  <2>1. pass' = [pass EXCEPT ![p] = [pass[p] EXCEPT !.step = "set", !.asked = hour,
                                                    !.answer = TeamsOf(Area(p))]]
      BY DEF GetTeamsInProductArea
  <2> QED BY <1>1, <1>2, <1>4, <2>1 DEF GetTeamsInProductArea
<1>7. \A t \in g.answer : WasIn(t, NextArea(g), g.asked)
    BY <1>5 DEF TeamsOf, WasIn, NextArea
<1>8. PassRight(g)
    BY <1>1, <1>3, <1>5, <1>7 DEF PassRight
<1> QED BY <1>6, <1>8, PodMovesRight, ListingStays DEF TeamsMoveSo

\* The entry is stored, or is not.
LEMMA StoredRight ==
    ASSUME TeamsInv, TeamCatalogueNext, NEW p \in CataloguePods, SetListing(p)
    PROVE  TeamsMoveSo
<1>1. PICK r \in Pass : r = pass[p] /\ PassRight(r) /\ r.step = "set"
    BY DEF SetListing, TeamsInv, TeamsTyped
<1> DEFINE a == NextArea(r)
<1>2. a \in Areas /\ a = Area(p)
    BY <1>1, FirstArea DEF PassRight, Area, NextArea
<1>3. PICK l \in Listing : /\ l = [teams |-> r.answer, stored |-> hour, slow |-> hour # r.asked]
                           /\ l.teams = r.answer /\ l.stored = hour
                           /\ ~l.slow => hour = r.asked
  <2>1. CASE hour # r.asked
    <3>1. [teams |-> r.answer, stored |-> hour, slow |-> TRUE] \in Listing
        BY <1>1 DEF Listing, Pass, TeamsInv, TeamsTyped
    <3>2. (hour # r.asked) = TRUE
        BY <2>1
    <3> QED BY <3>1, <3>2
  <2>2. CASE hour = r.asked
    <3>1. [teams |-> r.answer, stored |-> hour, slow |-> FALSE] \in Listing
        BY <1>1 DEF Listing, Pass, TeamsInv, TeamsTyped
    <3>2. (hour # r.asked) = FALSE
        BY <2>2
    <3> QED BY <2>2, <3>1, <3>2
  <2> QED BY <2>1, <2>2
<1>4. l.teams = r.answer /\ l.stored = hour /\ (~l.slow => hour = r.asked)
    BY <1>3
<1>5. /\ listing' = listing \/ listing' = [listing EXCEPT ![a] = l]
      /\ pass' = [pass EXCEPT ![p] = Gather(r, a, r.answer, FALSE)]
    BY <1>1, <1>2, <1>3 DEF SetListing
<1>6. /\ TeamsTyped /\ hour \in Int /\ Lifetime \in Nat /\ r.began \in Int /\ r.asked \in Int
      /\ r.began <= r.asked /\ r.answer \in SUBSET CatalogueTeams
      /\ \A t \in r.answer : WasIn(t, a, r.asked)
    BY <1>1, TeamCatalogueAssumption DEF TeamsInv, TeamsTyped, Hours, Pass, PassRight
<1>7. r.began - Lifetime \in Int /\ r.began - Lifetime <= r.asked
    BY <1>6
<1>8. \A t \in r.answer : WasIn(t, a, r.began - Lifetime)
    BY <1>2, <1>6, <1>7, WasInEarlier
<1>9. PICK f \in Pass : f = Gather(r, a, r.answer, FALSE) /\ PassRight(f)
    BY <1>1, <1>6, <1>8, GatherRight
<1>10. EntryRight(a, l)
    BY <1>4, <1>6 DEF EntryRight
<1>11. EntryRight(a, l)'
    BY <1>2, <1>10, EntryStaysRight
<1>12. ASSUME listing' = [listing EXCEPT ![a] = l]
       PROVE  /\ listing' = [b \in Areas |-> listing'[b]]
              /\ \A b \in Areas : listing'[b] # NoAnswer =>
                    listing'[b] \in Listing /\ EntryRight(b, listing[b])'
  <2>1. listing = [b \in Areas |-> listing[b]]
      BY DEF TeamsInv, TeamsTyped
  <2>2. listing'[a] = l /\ \A b \in Areas : b # a => listing'[b] = listing[b]
      BY <1>2, <1>12, <2>1
  <2>3. ASSUME NEW b \in Areas, listing'[b] # NoAnswer
        PROVE  listing'[b] \in Listing /\ EntryRight(b, listing[b])'
    <3>1. CASE b = a
        BY <1>11, <2>2, <3>1 DEF EntryRight
    <3>2. CASE b # a
      <4>1. PICK k \in Listing : k = listing[b] /\ EntryRight(b, k)
          BY <2>2, <2>3, <3>2 DEF TeamsInv, TeamsTyped
      <4>2. EntryRight(b, k)'
          BY <4>1, EntryStaysRight
      <4> QED BY <2>2, <3>2, <4>1, <4>2 DEF EntryRight
    <3> QED BY <3>1, <3>2
  <2> QED BY <1>12, <2>1, <2>3
<1> QED BY <1>5, <1>9, <1>12, PodMovesRight, ListingStays DEF TeamsMoveSo

\* What a pass gathered was true not long before it began, and the cache's entries
\* of the hour they say.
THEOREM TeamsInvariant == TeamCatalogueSpec => []TeamsInv
<1>1. TeamCatalogueInit => TeamsInv
  <2> SUFFICES ASSUME TeamCatalogueInit PROVE TeamsInv
      OBVIOUS
  <2>1. hour \in Hours
      BY TeamCatalogueAssumption DEF TeamCatalogueInit, Hours
  <2>2. TeamsTyped
    <3>1. NoPass \in Pass
        BY <2>1 DEF TeamCatalogueInit, NoPass, Pass, Steps
    <3> QED BY <2>1, <3>1 DEF TeamCatalogueInit, TeamsTyped
  <2>3. PassRight(NoPass)
      BY <2>2, NoPassRight
  <2> QED BY <2>2, <2>3 DEF TeamCatalogueInit, TeamsInv
<1>2. ASSUME TeamsInv, [TeamCatalogueNext]_teamCatalogueVars
      PROVE  TeamsInv'
  <2>1. hour' \in Hours
      BY <1>2, HoursPass DEF TeamsInv
  <2>2. TeamsMoveSo
    <3>1. CASE TeamCatalogueNext
      <4>1. ASSUME NEW p \in CataloguePods, UpsertProductAreaAndTeam(p) \/ PassFails(p)
            PROVE  TeamsMoveSo
        <5>1. NoPass \in Pass /\ PassRight(NoPass)
            BY <1>2, NoPassRight DEF TeamsInv
        <5>2. PICK f \in Pass : f = NoPass /\ PassRight(f)
            BY <5>1
        <5>3. pass' = [pass EXCEPT ![p] = f] /\ listing' = listing
            BY <4>1, <5>2 DEF UpsertProductAreaAndTeam, PassFails
        <5> QED BY <1>2, <3>1, <5>2, <5>3, PodMovesRight, ListingStays DEF TeamsMoveSo
      <4>2. ASSUME pass' = pass, listing' = listing
            PROVE  TeamsMoveSo
        <5>1. ASSUME NEW p \in CataloguePods
              PROVE  PassRight(pass[p])'
          <6>1. PICK r \in Pass : r = pass[p] /\ PassRight(r)
              BY <1>2 DEF TeamsInv, TeamsTyped
          <6>2. PassRight(r)'
              BY <1>2, <3>1, <6>1, HoursPass, PassStaysRight DEF TeamsInv
          <6> QED BY <4>2, <6>1, <6>2 DEF PassRight
        <5> QED BY <1>2, <3>1, <4>2, <5>1, ListingStays DEF TeamsMoveSo, TeamsInv, TeamsTyped
      <4> QED BY <1>2, <3>1, <4>1, <4>2, PassesBeginRight, CachedRight, AnsweredRight, StoredRight
              DEF TeamCatalogueNext, PassHour, MoveTeam
    <3>2. CASE UNCHANGED teamCatalogueVars
        BY <1>2, <3>2 DEF teamCatalogueVars, TeamsInv, TeamsTyped, TeamsMoveSo, PassRight,
           EntryRight, WasIn
    <3> QED BY <1>2, <3>1, <3>2
  <2>3. areaOf' \in [CatalogueTeams -> Areas]
      BY <1>2 DEF TeamsInv, TeamsTyped, TeamCatalogueNext, PassHour, MoveTeam, GetProductAreas,
         CachedTeams, GetTeamsInProductArea, SetListing, UpsertProductAreaAndTeam, PassFails,
         teamCatalogueVars
  <2>4. lastIn' \in [CatalogueTeams -> [Areas -> Hours \cup {NotEver}]]
    <3>1. ASSUME NEW u \in CatalogueTeams, NEW b \in Areas, MoveTeam(u, b)
          PROVE  lastIn' \in [CatalogueTeams -> [Areas -> Hours \cup {NotEver}]]
        BY <1>2, <3>1 DEF MoveTeam, TeamsInv, TeamsTyped
    <3> QED BY <1>2, <3>1 DEF TeamsInv, TeamsTyped, TeamCatalogueNext, PassHour, GetProductAreas,
           CachedTeams, GetTeamsInProductArea, SetListing, UpsertProductAreaAndTeam, PassFails,
           teamCatalogueVars
  <2>5. teamRow' \in [CatalogueTeams -> Areas \cup {NoAnswer}]
    <3>1. ASSUME NEW p \in CataloguePods, UpsertProductAreaAndTeam(p)
          PROVE  teamRow' \in [CatalogueTeams -> Areas \cup {NoAnswer}]
        BY <1>2, <3>1 DEF UpsertProductAreaAndTeam, TeamsInv, TeamsTyped, Pass
    <3> QED BY <1>2, <3>1 DEF TeamsInv, TeamsTyped, TeamCatalogueNext, PassHour, MoveTeam,
           GetProductAreas, CachedTeams, GetTeamsInProductArea, SetListing, PassFails,
           teamCatalogueVars
  <2>6. TeamsTyped'
      BY <2>1, <2>2, <2>3, <2>4, <2>5 DEF TeamsMoveSo, TeamsTyped
  <2> QED BY <2>2, <2>6 DEF TeamsMoveSo, TeamsInv
<1> QED BY <1>1, <1>2, PTL DEF TeamCatalogueSpec

\* Every variable has its type.
THEOREM TeamsTypeCorrect == TeamCatalogueSpec => []TeamCatalogueTypeOK
<1>1. TeamsInv => TeamCatalogueTypeOK
    BY DEF TeamsInv, TeamsTyped, TeamCatalogueTypeOK, Pass
<1> QED BY <1>1, TeamsInvariant, PTL

\* The area that a pass stores for a team is one it was in when the pass began, or
\* no longer before than the cache lives (UpsertProductAreaAndTeam, with the cache
\* of the client of Teamkatalogen).
THEOREM StoredAreasAreRecent == TeamCatalogueSpec => StoredAreaIsRecent
<1> DEFINE Recent == \A p \in CataloguePods :
               UpsertProductAreaAndTeam(p) /\ ~pass[p].slow =>
                 \A t \in CatalogueTeams : pass[p].gathered[t] # NoAnswer =>
                   WasIn(t, teamRow'[t], pass[p].began - Lifetime)
<1>1. ASSUME TeamsInv
      PROVE  Recent
  <2>1. ASSUME NEW p \in CataloguePods, UpsertProductAreaAndTeam(p), ~pass[p].slow,
               NEW t \in CatalogueTeams, pass[p].gathered[t] # NoAnswer
        PROVE  WasIn(t, teamRow'[t], pass[p].began - Lifetime)
    <3>1. teamRow'[t] = pass[p].gathered[t]
        BY <2>1 DEF UpsertProductAreaAndTeam
    <3> QED BY <1>1, <2>1, <3>1 DEF TeamsInv, PassRight
  <2> QED BY <2>1
<1>2. TeamsInv => [Recent]_teamCatalogueVars
    BY <1>1
<1> QED BY <1>2, TeamsInvariant, PTL DEF StoredAreaIsRecent
==============================================================================
