-------------------------- MODULE MetabaseMapping ---------------------------
(***************************************************************************)
(* One dataset in Metabase (service_metabase.go, metabase_mapper.go).      *)
(*                                                                         *)
(* A dataset that is mapped has a database in Metabase: an open one, which *)
(* everybody queries through a shared service account, or a restricted     *)
(* one, with a permission group, a collection and a service account of its *)
(* own.  The row of metabase_metadata remembers what has been made so far. *)
(* A mapper on each pod takes work from its queue and, when its pod leads, *)
(* looks for work at every tick.  A mapping is a dozen calls to Metabase,  *)
(* Google and Postgres; an error ends it, and the next attempt starts from *)
(* the row.  Meanwhile, access of all users comes and goes.                *)
(*                                                                         *)
(* work[p].step names the call that the mapper of pod p makes next.  Where *)
(* the code returns an error because of what a call answers, the step is   *)
(* not enabled and MapperFails takes its place.                            *)
(***************************************************************************)
EXTENDS Naturals, FiniteSets

CONSTANTS
    Pods,           \* replicas of the backend
    Groups,         \* ids of Metabase's permission groups
    Collections,    \* ids of its collections
    Databases,      \* ids of its databases
    UsersHaveAccess,\* is there a user whose membership follows an access?
    Queued,         \* the work that gets queued: TRUE to map, FALSE to unmap
    Revokers,       \* who revokes access of all users: "handler", "ensurer"
    None

ASSUME IdsAssumption ==
    /\ 0 \notin Groups \cup Collections
    /\ None \notin Groups \cup Collections \cup Databases
    /\ None # 0

ASSUME BoundsAssumption ==
    /\ UsersHaveAccess \in BOOLEAN
    /\ Queued \subseteq BOOLEAN
    /\ Revokers \subseteq {"handler", "ensurer"}

VARIABLES
    row,        \* the row in metabase_metadata, or None
    mapped,     \* third_party_mappings: is metabase one of the services?
    allUsers,   \* is there an active access of all users?
    groups,     \* Metabase: the groups that bear the dataset's name
    archived,   \* Metabase: which of the collections in use are archived
    database,   \* Metabase: the account each database of the dataset uses
    account,    \* Google: does the dataset's service account exist?
    iam,        \* BigQuery: which accounts may read the table
    queue,      \* what requests have for each pod's mapper
    work,       \* what each mapper is about to do
    job,        \* what the handler that revokes access of all users does
    excuses     \* history: why the database may not work

postgres == <<row, mapped, allUsers>>
metabase == <<groups, archived, database>>
google == <<account, iam>>
vars == <<postgres, metabase, google, queue, work, job, excuses>>

-----------------------------------------------------------------------------
(* Types *)

\* Whose credentials: the dataset's own account, the shared one, or none yet.
Accounts == {"own", "shared"}

Row == [group : Groups \cup {0, None}, coll : Collections \cup {0, None},
        db : Databases \cup {None}, sa : {"", "own"},
        synced : BOOLEAN, deleted : BOOLEAN]

ASSUME RowAssumption == None \notin Row

NewRow == [group |-> None, coll |-> None, db |-> None, sa |-> "",
           synced |-> FALSE, deleted |-> FALSE]

Paths == {"add", "cleanup", "remove"}

Steps == {"idle", "start", "insertRow", "choosePath", "openRead", "setOpen", "openAccess",
          "setGroupOpen", "restrictedRead", "restoreGrant", "restoreRow",
          "addMembers", "createRead", "getGroup", "setGroup", "createCollection",
          "setCollection", "ensureAccount", "setAccount", "grant", "createReread",
          "listDatabases", "postDatabase", "wait", "setDatabase",
          "setSynced", "removeRead", "revokeIam", "dropAccount", "dropGroup",
          "archive", "dropDatabase", "readMapping", "deleteRow"}

Work == [step : Steps, path : Paths, sa : {"", "own", "shared"},
         g : Groups \cup {0, None}, c : Collections \cup {0, None},
         d : Databases \cup {None}, mapped : BOOLEAN]

Idle == [step |-> "idle", path |-> "add", sa |-> "", g |-> None, c |-> None,
         d |-> None, mapped |-> FALSE]

Job == [step : {"idle", "readRow", "softIam", "softRow", "revokeRow"},
        by : {"handler", "ensurer"}]

NoJob == [step |-> "idle", by |-> "handler"]

-----------------------------------------------------------------------------
(* The row and what Metabase has *)

\* GetMetadata without the rows that are soft-deleted
Visible == row # None /\ ~ row.deleted

\* mutant: a collection that is not there counts
isRestrictedUnchecked(r) == r.coll # 0

isRestrictedDatabase(r) == r.coll \notin {None, 0}

Live == {d \in Databases : database[d] # "absent"}

\* Metabase numbers its objects anew; nobody can tell the number from one
\* that nobody holds any more.
FreshGroups == {g \in Groups \ groups :
    /\ row # None => row.group # g
    /\ \A p \in Pods : work[p].g # g}

FreshCollections == {c \in Collections :
    /\ row # None => row.coll # c
    /\ \A p \in Pods : work[p].c # c}

FreshDatabases == {d \in Databases \ Live :
    /\ row # None => row.db # d
    /\ \A p \in Pods : work[p].d # d}

Init ==
    /\ row = None
    /\ mapped = FALSE
    /\ allUsers \in BOOLEAN
    /\ groups = {}
    /\ archived = {}
    /\ database = [d \in Databases |-> "absent"]
    /\ account = FALSE
    /\ iam = {}
    /\ queue = [p \in Pods |-> {}]
    /\ work = [p \in Pods |-> Idle]
    /\ job = NoJob
    /\ excuses = {}

-----------------------------------------------------------------------------
(* Requests and the mapper's loop *)

\* The owner maps the dataset, or takes the mapping away: stored, then queued.
\* Requests are served concurrently, so that a queue need not have the order in
\* which they were stored: it is a set.
CreateMappingRequest(p, m) ==
    /\ mapped' = m
    /\ queue' = [queue EXCEPT ![p] = @ \cup ({m} \cap Queued)]
    /\ UNCHANGED <<row, allUsers, metabase, google, work, job, excuses>>

MapDataset(p, path) ==
    work' = [work EXCEPT ![p] = [Idle EXCEPT !.step = "start", !.path = path]]

TakeWork(p, m) ==
    /\ work[p].step = "idle"
    /\ m \in queue[p]
    /\ MapDataset(p, IF m THEN "add" ELSE "remove")
    /\ queue' = [queue EXCEPT ![p] = @ \ {m}]
    /\ UNCHANGED <<postgres, metabase, google, job, excuses>>

\* mutant: only what has no row yet is found
ToAddNew == mapped /\ row = None

ToAdd == mapped /\ (row # None => ~ row.synced)
ToRemove == row # None /\ ~ mapped

\* mutant: the leader does not look for what is unmapped
TickAddsOnly(p) ==
    /\ work[p].step = "idle"
    /\ ToAdd
    /\ MapDataset(p, "add")
    /\ UNCHANGED <<postgres, metabase, google, queue, job, excuses>>

\* The mapper of the pod that leads looks for work.
Tick(p) ==
    /\ work[p].step = "idle"
    /\ \/ ToAdd /\ MapDataset(p, "add")
       \/ ToRemove /\ MapDataset(p, "remove")
    /\ UNCHANGED <<postgres, metabase, google, queue, job, excuses>>

-----------------------------------------------------------------------------
(* Steps of a mapper *)

At(p, s) == work[p].step = s
Goto(p, s) == work' = [work EXCEPT ![p].step = s]
Done(p) == work' = [work EXCEPT ![p] = Idle]
FirstStep(path) == IF path = "add" THEN "choosePath" ELSE "removeRead"

\* The other datasets that were found have had their turn.
Start(p) ==
    /\ At(p, "start")
    /\ Goto(p, IF row = None THEN "insertRow" ELSE FirstStep(work[p].path))
    /\ UNCHANGED <<postgres, metabase, google, queue, job, excuses>>

\* There is a row from now on.
InsertRow(p) ==
    /\ At(p, "insertRow")
    /\ row = None
    /\ row' = NewRow
    /\ Goto(p, FirstStep(work[p].path))
    /\ UNCHANGED <<mapped, allUsers, metabase, google, queue, job, excuses>>

ChoosePath(p) ==
    /\ At(p, "choosePath")
    /\ Goto(p, IF allUsers THEN "openRead" ELSE "restrictedRead")
    /\ UNCHANGED <<postgres, metabase, google, queue, job, excuses>>

-----------------------------------------------------------------------------
(* An open database: addAllUsersDataset *)

OpenRead(p) ==
    /\ At(p, "openRead")
    /\ Visible
    /\ \/ row.db = None /\ Goto(p, "setOpen")
       \/ row.db # None /\ row.group = 0 /\ Goto(p, "setSynced")
       \/ /\ row.db # None /\ row.group # 0
          /\ work' = [work EXCEPT ![p].step = "openAccess", ![p].g = row.group]
    /\ UNCHANGED <<postgres, metabase, google, queue, job, excuses>>

SetOpen(p) ==
    /\ At(p, "setOpen")
    /\ row # None
    /\ row' = [row EXCEPT !.coll = 0]
    /\ work' = [work EXCEPT ![p].step = "grant", ![p].sa = "shared",
                            ![p].g = 0, ![p].c = 0]
    /\ UNCHANGED <<mapped, allUsers, metabase, google, queue, job, excuses>>

\* Everybody may query the database from now on.
OpenAccess(p) ==
    /\ At(p, "openAccess")
    /\ Goto(p, "dropGroup")
    /\ UNCHANGED <<postgres, metabase, google, queue, job, excuses>>

SetGroupOpen(p) ==
    /\ At(p, "setGroupOpen")
    /\ row # None
    /\ row' = [row EXCEPT !.group = 0]
    /\ Goto(p, "setSynced")
    /\ UNCHANGED <<mapped, allUsers, metabase, google, queue, job, excuses>>

-----------------------------------------------------------------------------
(* A restricted database: addRestrictedDatasetMapping, createRestricted *)

RestrictedRead(p) ==
    /\ At(p, "restrictedRead")
    /\ row # None
    /\ \/ row.db = None /\ Goto(p, "createRead")
       \/ /\ row.db # None /\ row.group # 0
          /\ IF row.deleted
             THEN work' = [work EXCEPT ![p].step = "restoreGrant", ![p].sa = row.sa]
             ELSE Goto(p, "addMembers")
    /\ UNCHANGED <<postgres, metabase, google, queue, job, excuses>>

\* mutant: the row is restored, the grant is not
RestoreWithoutGrant(p) ==
    /\ At(p, "restoreGrant")
    /\ excuses' = excuses \ {"revoked"}
    /\ Goto(p, "restoreRow")
    /\ UNCHANGED <<postgres, metabase, google, queue, job>>

\* BigQuery grants nothing to an account without a name, or one that is gone.
RestoreGrant(p) ==
    /\ At(p, "restoreGrant")
    /\ work[p].sa = "own" /\ account
    /\ iam' = iam \cup {"own"}
    /\ excuses' = excuses \ {"revoked"}
    /\ Goto(p, "restoreRow")
    /\ UNCHANGED <<postgres, metabase, account, queue, job>>

RestoreRow(p) ==
    /\ At(p, "restoreRow")
    /\ row' = IF row = None THEN None ELSE [row EXCEPT !.deleted = FALSE]
    /\ Goto(p, "addMembers")
    /\ UNCHANGED <<mapped, allUsers, metabase, google, queue, job, excuses>>

\* Members cannot be added to a group that does not exist, and a row without
\* one crashes the pod (a nil pointer: Crash).
AddMembers(p) ==
    /\ At(p, "addMembers")
    /\ (UsersHaveAccess /\ Visible) => row.group \in groups
    /\ Goto(p, "setSynced")
    /\ UNCHANGED <<postgres, metabase, google, queue, job, excuses>>

AfterGroup(r) == IF r.coll = None THEN "createCollection" ELSE "ensureAccount"

CreateRead(p) ==
    /\ At(p, "createRead")
    /\ Visible
    /\ IF row.group = None
       THEN Goto(p, "getGroup")
       ELSE work' = [work EXCEPT ![p].step = AfterGroup(row), ![p].g = row.group]
    /\ UNCHANGED <<postgres, metabase, google, queue, job, excuses>>

GetOrCreatePermissionGroup(p) ==
    /\ At(p, "getGroup")
    /\ \E g \in IF groups = {} THEN FreshGroups ELSE groups :
         /\ groups' = groups \cup {g}
         /\ work' = [work EXCEPT ![p].step = "setGroup", ![p].g = g]
    /\ UNCHANGED <<postgres, archived, database, google, queue, job, excuses>>

SetGroup(p) ==
    /\ At(p, "setGroup")
    /\ row # None
    /\ row' = [row EXCEPT !.group = work[p].g]
    /\ Goto(p, AfterGroup(row))
    /\ UNCHANGED <<mapped, allUsers, metabase, google, queue, job, excuses>>

CreateCollectionWithAccess(p) ==
    /\ At(p, "createCollection")
    /\ work[p].g \in groups
    /\ \E c \in FreshCollections :
         /\ archived' = archived \ {c}
         /\ work' = [work EXCEPT ![p].step = "setCollection", ![p].c = c]
    /\ UNCHANGED <<postgres, groups, database, google, queue, job, excuses>>

SetCollection(p) ==
    /\ At(p, "setCollection")
    /\ row # None
    /\ row' = [row EXCEPT !.coll = work[p].c]
    /\ Goto(p, "ensureAccount")
    /\ UNCHANGED <<mapped, allUsers, metabase, google, queue, job, excuses>>

EnsureAccount(p) ==
    /\ At(p, "ensureAccount")
    /\ account' = TRUE
    /\ Goto(p, "setAccount")
    /\ UNCHANGED <<postgres, metabase, iam, queue, job, excuses>>

\* What is created next goes by the row that this update returns.
SetAccount(p) ==
    /\ At(p, "setAccount")
    /\ row # None
    /\ row.group # None /\ row.coll # None
    /\ row' = [row EXCEPT !.sa = "own"]
    /\ work' = [work EXCEPT ![p].step = "grant", ![p].sa = "own",
                            ![p].g = row.group, ![p].c = row.coll]
    /\ UNCHANGED <<mapped, allUsers, metabase, google, queue, job, excuses>>

-----------------------------------------------------------------------------
(* The database: create *)

Grant(p) ==
    /\ At(p, "grant")
    /\ work[p].sa = "own" => account
    /\ iam' = iam \cup {work[p].sa}
    /\ Goto(p, "createReread")
    /\ UNCHANGED <<postgres, metabase, account, queue, job, excuses>>

CreateReread(p) ==
    /\ At(p, "createReread")
    /\ row # None
    /\ Goto(p, IF row.db = None THEN "listDatabases" ELSE "setSynced")
    /\ UNCHANGED <<postgres, metabase, google, queue, job, excuses>>

\* mutant: no look at the databases there are
ListDatabasesSkipped(p) ==
    /\ At(p, "listDatabases")
    /\ Goto(p, "postDatabase")
    /\ UNCHANGED <<postgres, metabase, google, queue, job, excuses>>

\* An earlier attempt may have left a database of this dataset.
ListDatabases(p) ==
    /\ At(p, "listDatabases")
    /\ IF Live = {}
       THEN Goto(p, "postDatabase")
       ELSE \E d \in Live : work' = [work EXCEPT ![p].step = "wait", ![p].d = d]
    /\ UNCHANGED <<postgres, metabase, google, queue, job, excuses>>

PostDatabase(p) ==
    /\ At(p, "postDatabase")
    /\ \E d \in FreshDatabases :
         /\ database' = [database EXCEPT ![d] = work[p].sa]
         /\ work' = [work EXCEPT ![p].step = "wait", ![p].d = d]
    /\ UNCHANGED <<postgres, groups, archived, google, queue, job, excuses>>

\* Metabase finds the table.
WaitForDatabase(p) ==
    /\ At(p, "wait")
    /\ Goto(p, "setDatabase")
    /\ UNCHANGED <<postgres, metabase, google, queue, job, excuses>>

\* It does not, in time: what has been made is taken away again.
TimesOut(p) ==
    /\ At(p, "wait")
    /\ work' = [work EXCEPT ![p].step = "dropDatabase", ![p].path = "cleanup"]
    /\ UNCHANGED <<postgres, metabase, google, queue, job, excuses>>

\* mutant: the id of the database is not kept
SetDatabaseForgotten(p) ==
    /\ At(p, "setDatabase")
    /\ row # None
    /\ Goto(p, "setSynced")
    /\ UNCHANGED <<postgres, metabase, google, queue, job, excuses>>

SetDatabase(p) ==
    /\ At(p, "setDatabase")
    /\ row # None
    /\ row' = [row EXCEPT !.db = work[p].d]
    /\ Goto(p, "setSynced")
    /\ UNCHANGED <<mapped, allUsers, metabase, google, queue, job, excuses>>

SetSynced(p) ==
    /\ At(p, "setSynced")
    /\ row' = IF row = None THEN None ELSE [row EXCEPT !.synced = TRUE]
    /\ Done(p)
    /\ UNCHANGED <<mapped, allUsers, metabase, google, queue, job, excuses>>

-----------------------------------------------------------------------------
(* Taking things away: DeleteDatabase, cleanupOnCreateDatabaseError *)

RemoveRead(p) ==
    /\ At(p, "removeRead")
    /\ \/ row = None /\ Done(p)
       \/ /\ row # None /\ isRestrictedDatabase(row)
          /\ work' = [work EXCEPT ![p].step = "revokeIam", ![p].sa = row.sa,
                          ![p].g = row.group, ![p].c = row.coll, ![p].d = row.db]
       \/ /\ row # None /\ ~ isRestrictedDatabase(row)
          /\ work' = [work EXCEPT ![p].step = "dropDatabase", ![p].d = row.db]
    /\ UNCHANGED <<postgres, metabase, google, queue, job, excuses>>

RevokeIam(p) ==
    /\ At(p, "revokeIam")
    /\ iam' = iam \ {work[p].sa}
    /\ excuses' = excuses \cup {"removal"}
    /\ Goto(p, "dropAccount")
    /\ UNCHANGED <<postgres, metabase, account, queue, job>>

\* The clean-up goes on with a MapDataset that removes what the row has.
DropAccount(p) ==
    /\ At(p, "dropAccount")
    /\ IF work[p].sa = "own"
       THEN account' = FALSE /\ iam' = iam \ {"own"}
       ELSE UNCHANGED google
    /\ excuses' = excuses \cup {"removal"}
    /\ IF work[p].path = "cleanup" THEN MapDataset(p, "remove") ELSE Goto(p, "dropGroup")
    /\ UNCHANGED <<postgres, metabase, queue, job>>

\* A group that is gone already is as good as deleted.
DropGroup(p) ==
    /\ At(p, "dropGroup")
    /\ groups' = groups \ {work[p].g}
    /\ excuses' = IF work[p].path = "add" THEN excuses ELSE excuses \cup {"removal"}
    /\ Goto(p, IF work[p].path = "add" THEN "setGroupOpen" ELSE "archive")
    /\ UNCHANGED <<postgres, archived, database, google, queue, job>>

\* mutant: the collection stays
ArchiveNothing(p) ==
    /\ At(p, "archive")
    /\ Goto(p, IF work[p].path = "cleanup" THEN "dropAccount" ELSE "dropDatabase")
    /\ UNCHANGED <<postgres, metabase, google, queue, job, excuses>>

ArchiveCollection(p) ==
    /\ At(p, "archive")
    /\ archived' = archived \cup {work[p].c}
    /\ excuses' = excuses \cup {"removal"}
    /\ Goto(p, IF work[p].path = "cleanup" THEN "dropAccount" ELSE "dropDatabase")
    /\ UNCHANGED <<postgres, groups, database, google, queue, job>>

DropDatabase(p) ==
    /\ At(p, "dropDatabase")
    /\ database' = [d \in Databases |-> IF d = work[p].d THEN "absent" ELSE database[d]]
    /\ excuses' = excuses \cup {"removal"}
    /\ CASE work[p].path = "cleanup" /\ work[p].c = 0 -> MapDataset(p, "remove")
         [] work[p].path = "cleanup" /\ work[p].c # 0 -> Goto(p, "dropGroup")
         [] OTHER -> Goto(p, IF work[p].c = None THEN "deleteRow" ELSE "readMapping")
    /\ UNCHANGED <<postgres, groups, archived, google, queue, job>>

\* DeleteRestrictedMetadata reads the mapping that it will write.
ReadMapping(p) ==
    /\ At(p, "readMapping")
    /\ work' = [work EXCEPT ![p].step = "deleteRow", ![p].mapped = mapped]
    /\ UNCHANGED <<postgres, metabase, google, queue, job, excuses>>

\* Whoever maps the dataset anew after that read is overruled.
DeleteRow(p) ==
    /\ At(p, "deleteRow")
    /\ row' = None
    /\ mapped' = IF work[p].c = None THEN mapped ELSE work[p].mapped
    /\ excuses' = IF Live = {} THEN {} ELSE {"orphan"}
    /\ archived' = {}
    /\ Done(p)
    /\ UNCHANGED <<allUsers, groups, database, google, queue, job>>

-----------------------------------------------------------------------------
(* Failures *)

\* A call fails, is cut off by the deadline, or answers with what the code
\* takes for an error: the attempt is over.
MapperFails(p) ==
    /\ work[p].step # "idle"
    /\ Done(p)
    /\ UNCHANGED <<postgres, metabase, google, queue, job, excuses>>

Crash(p) ==
    /\ work' = [work EXCEPT ![p] = Idle]
    /\ queue' = [queue EXCEPT ![p] = {}]
    /\ UNCHANGED <<postgres, metabase, google, job, excuses>>

-----------------------------------------------------------------------------
(* Access of all users: granted by anybody who may, revoked by a handler,  *)
(* which deals with Metabase first, or by the ensurer, which does so last. *)

AllUsersGranted ==
    /\ ~ allUsers
    /\ allUsers' = TRUE
    /\ UNCHANGED <<row, mapped, metabase, google, queue, work, job, excuses>>

RevokeAllUsers ==
    /\ "handler" \in Revokers
    /\ job.step = "idle"
    /\ allUsers
    /\ job' = [step |-> "readRow", by |-> "handler"]
    /\ UNCHANGED <<postgres, metabase, google, queue, work, excuses>>

AllUsersExpires ==
    /\ "ensurer" \in Revokers
    /\ job.step = "idle"
    /\ allUsers
    /\ allUsers' = FALSE
    /\ job' = [step |-> "readRow", by |-> "ensurer"]
    /\ UNCHANGED <<row, mapped, metabase, google, queue, work, excuses>>

\* What the job does next, and whose it is: the handler still has to close the
\* access, the ensurer has done so.
JobGoto(step) == job' = IF step = "idle" THEN NoJob ELSE [job EXCEPT !.step = step]
AfterMetabase == JobGoto(IF job.by = "handler" THEN "revokeRow" ELSE "idle")

\* Refused until the dataset is synced.
RevokeMetabaseAccess ==
    /\ job.step = "readRow"
    /\ \/ ~ Visible /\ AfterMetabase
       \/ Visible /\ row.synced /\ JobGoto(IF row.sa = "own" THEN "softIam" ELSE "softRow")
    /\ UNCHANGED <<postgres, metabase, google, queue, work, excuses>>

\* A row without an account has nothing that could be revoked.
SoftRevokeIam ==
    /\ job.step = "softIam"
    /\ iam' = iam \ {"own"}
    /\ excuses' = excuses \cup {"revoked"}
    /\ JobGoto("softRow")
    /\ UNCHANGED <<postgres, metabase, account, queue, work>>

SoftDelete ==
    /\ job.step = "softRow"
    /\ row' = IF row = None THEN None ELSE [row EXCEPT !.deleted = TRUE]
    /\ AfterMetabase
    /\ UNCHANGED <<mapped, allUsers, metabase, google, queue, work, excuses>>

RevokeRow ==
    /\ job.step = "revokeRow"
    /\ allUsers' = FALSE
    /\ JobGoto("idle")
    /\ UNCHANGED <<row, mapped, metabase, google, queue, work, excuses>>

JobFails ==
    /\ job.step # "idle"
    /\ JobGoto("idle")
    /\ UNCHANGED <<postgres, metabase, google, queue, work, excuses>>

-----------------------------------------------------------------------------
Add(p) ==
    \/ Start(p)
    \/ InsertRow(p)
    \/ ChoosePath(p)
    \/ OpenRead(p) \/ SetOpen(p) \/ OpenAccess(p) \/ SetGroupOpen(p)
    \/ RestrictedRead(p) \/ RestoreGrant(p) \/ RestoreRow(p) \/ AddMembers(p)
    \/ CreateRead(p) \/ GetOrCreatePermissionGroup(p) \/ SetGroup(p)
    \/ CreateCollectionWithAccess(p) \/ SetCollection(p)
    \/ EnsureAccount(p) \/ SetAccount(p)
    \/ Grant(p) \/ CreateReread(p) \/ ListDatabases(p) \/ PostDatabase(p)
    \/ WaitForDatabase(p) \/ TimesOut(p) \/ SetDatabase(p) \/ SetSynced(p)

Remove(p) ==
    \/ RemoveRead(p)
    \/ RevokeIam(p)
    \/ DropAccount(p)
    \/ DropGroup(p)
    \/ ArchiveCollection(p)
    \/ DropDatabase(p)
    \/ ReadMapping(p)
    \/ DeleteRow(p)

AccessOfAllUsers ==
    \/ AllUsersGranted
    \/ RevokeAllUsers
    \/ AllUsersExpires
    \/ RevokeMetabaseAccess
    \/ SoftRevokeIam
    \/ SoftDelete
    \/ RevokeRow
    \/ JobFails

Next ==
    \/ \E p \in Pods, m \in BOOLEAN : CreateMappingRequest(p, m)
    \/ \E p \in Pods, m \in BOOLEAN : TakeWork(p, m)
    \/ \E p \in Pods : Tick(p)
    \/ \E p \in Pods : Add(p)
    \/ \E p \in Pods : Remove(p)
    \/ \E p \in Pods : MapperFails(p)
    \/ \E p \in Pods : Crash(p)
    \/ AccessOfAllUsers

Spec == Init /\ [][Next]_vars

-----------------------------------------------------------------------------
(* Properties *)

\* Every variable has its type.
TypeOK ==
    /\ row \in Row \cup {None}
    /\ mapped \in BOOLEAN
    /\ allUsers \in BOOLEAN
    /\ groups \subseteq Groups
    /\ archived \subseteq Collections
    /\ database \in [Databases -> Accounts \cup {"absent"}]
    /\ account \in BOOLEAN
    /\ iam \subseteq Accounts
    /\ queue \in [Pods -> SUBSET BOOLEAN]
    /\ work \in [Pods -> Work]
    /\ job \in Job
    /\ excuses \subseteq {"revoked", "removal", "orphan"}

\* However often an attempt fails, times out or loses an answer, and starts
\* again: the dataset never has two databases in Metabase, and when its row
\* names one, there is no other.
OneDatabase ==
    /\ Cardinality(Live) <= 1
    /\ (row # None /\ row.db # None) => Live \subseteq {row.db}

\* What has been synced has a database, whatever came in between: the lists of
\* collections take a synced row's id without looking (metabase_collections.go).
SyncedIsCreated ==
    (row # None /\ row.synced) => row.db # None

\* A dataset that has been synced can be queried: its database is there, and
\* the account that it uses may read the table, also after its access was
\* revoked and restored.  Excused are a removal that did not finish, a
\* revocation that was not restored, and a database that a removal left behind
\* since no row named it.
SyncedWorks ==
    (row # None /\ row.synced /\ ~ row.deleted /\ excuses = {}) =>
        /\ row.db \in Live
        /\ database[row.db] \in iam

\* When the row of a restricted database goes away, nothing that it names is
\* left: no database, no group, no account and no right to read the table; the
\* collection is archived.  Nobody could find any of it afterwards.
RemovalIsComplete ==
    [][(row # None /\ isRestrictedDatabase(row) /\ row' = None) =>
          /\ row.db # None => row.db \notin Live
          /\ row.group \notin groups
          /\ row.coll \in archived
          /\ row.sa = "own" => ~ account /\ "own" \notin iam]_vars

\* What addRestrictedDatasetMapping relies on: "If meta.DatabaseID != nil we
\* know that we have created the collection, permission group, etc."
DatabaseMeansGroup ==
    \A p \in Pods :
        (At(p, "restrictedRead") /\ row # None /\ row.db # None) =>
            row.group # None /\ row.coll # None

-----------------------------------------------------------------------------
(* Liveness *)

Step(p) == Add(p) \/ Remove(p)

\* A mapper does not sleep: it looks for work at every tick, and every call of
\* an attempt returns, if only because of the deadline.
Fairness == \A p \in Pods : WF_vars(MapperFails(p) \/ Tick(p) \/ Step(p))

FairSpec == Spec /\ Fairness

\* From some time on nothing is down, slow or restarted: an attempt ends early
\* only where an answer makes it.
Calm == <>[][\A p \in Pods :
                /\ ~ TimesOut(p)
                /\ (MapperFails(p) \/ Crash(p)) => ~ ENABLED Step(p)]_vars

\* No attempt succeeds with a row whose database was opened for all users,
\* whose group is gone, or that was soft-deleted before it had a database.
Mappable ==
    row # None =>
        /\ row.coll # 0
        /\ row.group \in groups \cup {None}
        /\ row.deleted => row.db # None

\* Once its mapping has been taken away, a dataset goes away from Metabase, in
\* whatever state failed attempts and half-finished removals left it.
UnmappedIsRemoved ==
    Calm => ((~ mapped /\ row # None) ~> (mapped \/ row = None))

\* A dataset that stays mapped gets synced, from whatever failed attempts left
\* behind, but for the rows of which no attempt can make anything any more.
MappedIsSynced ==
    Calm => (<>[](mapped /\ ~ allUsers /\ excuses = {} /\ Mappable)
                => []<>(row # None /\ row.synced))
=============================================================================
