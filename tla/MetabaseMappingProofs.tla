------------------------ MODULE MetabaseMappingProofs -----------------------
(***************************************************************************)
(* Theorems about one dataset in Metabase: the types for any number of     *)
(* mappers, and for a single mapper what its attempts, however they end,   *)
(* make of the dataset's database.                                         *)
(***************************************************************************)
EXTENDS MetabaseMapping, FiniteSetTheorems, TLAPS

-----------------------------------------------------------------------------
(* Types *)

\* The steps that only a mapping takes; those that make a database of it
AddSteps == {"choosePath", "openRead", "setOpen", "openAccess", "setGroupOpen",
             "restrictedRead", "restoreGrant", "restoreRow", "addMembers", "createRead",
             "getGroup", "setGroup", "createCollection", "setCollection", "ensureAccount",
             "setAccount", "grant", "createReread", "listDatabases", "postDatabase", "wait",
             "setDatabase", "setSynced"}
CreateSteps == {"grant", "createReread", "listDatabases", "postDatabase", "wait"}

\* At each step, a mapper is on the path of that step, knows the account and
\* the collection of the database that it makes, and archives only what is a
\* collection.
FitsStep(step, path, sa, c) ==
    /\ step \in {"start", "insertRow"} => path \in {"add", "remove"}
    /\ step \in AddSteps => path = "add"
    /\ step \in {"removeRead", "revokeIam", "readMapping", "deleteRow"} => path = "remove"
    /\ step \in {"dropAccount", "archive", "dropDatabase"} => path # "add"
    /\ step \in CreateSteps => sa \in Accounts /\ c # None
    /\ step \in {"revokeIam", "dropAccount", "archive"} => c \in Collections
    /\ (step = "dropGroup" /\ path # "add") => c \in Collections
    /\ (step = "dropDatabase" /\ path = "cleanup") => c # None

Fits(w) == FitsStep(w.step, w.path, w.sa, w.c)

TypeInv == TypeOK /\ \A p \in Pods : Fits(work[p])

\* What the calls of a mapper leave in its local variables
WorkTyped == work \in [Pods -> Work] /\ \A p \in Pods : Fits(work[p])

\* A mapper that only goes on knows what it knew.
LEMMA GotoTyped ==
    ASSUME WorkTyped, NEW p \in Pods, NEW s \in Steps, Goto(p, s),
           FitsStep(s, work[p].path, work[p].sa, work[p].c)
    PROVE  WorkTyped'
<1>1. work[p] \in Work
    BY DEF WorkTyped
<1>2. [work[p] EXCEPT !.step = s] \in Work
    BY <1>1 DEF Work
<1>3. Fits([work[p] EXCEPT !.step = s])
    BY <1>1 DEF Fits, Work
<1>4. work' = [work EXCEPT ![p] = [work[p] EXCEPT !.step = s]]
    BY DEF Goto
<1> QED BY <1>2, <1>3, <1>4 DEF WorkTyped

\* A mapper that takes w for its variables
LEMMA BecomesTyped ==
    ASSUME WorkTyped, NEW p \in Pods, NEW w \in Work, Fits(w),
           work' = [work EXCEPT ![p] = w]
    PROVE  WorkTyped'
    BY DEF WorkTyped

\* A mapper that waits, or begins, knows no account yet.
LEMMA IdleTyped ==
    /\ Idle \in Work /\ Fits(Idle)
    /\ \A path \in {"add", "remove"} : /\ [Idle EXCEPT !.step = "start", !.path = path] \in Work
                                     /\ Fits([Idle EXCEPT !.step = "start", !.path = path])
<1>1. Idle \in Work
    BY DEF Idle, Work, Steps, Paths
<1>2. Fits(Idle)
    BY DEF Idle, Fits, FitsStep, AddSteps, CreateSteps
<1>3. ASSUME NEW path \in {"add", "remove"}
      PROVE  /\ [Idle EXCEPT !.step = "start", !.path = path] \in Work
             /\ Fits([Idle EXCEPT !.step = "start", !.path = path])
  <2> DEFINE w == [Idle EXCEPT !.step = "start", !.path = path]
  <2>1. w \in Work
    BY <1>1, <1>3 DEF Work, Steps, Paths
  <2>2. w.step = "start" /\ w.path = path
    BY DEF Idle
  <2> HIDE DEF w
  <2>3. Fits(w)
    BY <1>3, <2>2 DEF Fits, FitsStep, AddSteps, CreateSteps
  <2> QED BY <2>1, <2>3 DEF w
<1> QED BY <1>1, <1>2, <1>3

\* A row whose fields are typed
LEMMA RowTyped ==
    ASSUME NEW r \in Row
    PROVE  /\ [r EXCEPT !.coll = 0] \in Row
           /\ [r EXCEPT !.group = 0] \in Row
           /\ [r EXCEPT !.deleted = FALSE] \in Row
           /\ [r EXCEPT !.deleted = TRUE] \in Row
           /\ [r EXCEPT !.synced = TRUE] \in Row
           /\ [r EXCEPT !.sa = "own"] \in Row
           /\ \A g \in Groups \cup {0, None} : [r EXCEPT !.group = g] \in Row
           /\ \A c \in Collections \cup {0, None} : [r EXCEPT !.coll = c] \in Row
           /\ \A d \in Databases \cup {None} : [r EXCEPT !.db = d] \in Row
    BY DEF Row

\* The names of steps and paths
LEMMA Names ==
    /\ \A s \in {"idle", "start", "insertRow", "choosePath", "openRead", "setOpen", "openAccess",
                  "setGroupOpen", "restrictedRead", "restoreGrant", "restoreRow",
                  "addMembers", "createRead", "getGroup", "setGroup", "createCollection",
                  "setCollection", "ensureAccount", "setAccount", "grant", "createReread",
                  "listDatabases", "postDatabase", "wait", "setDatabase",
                  "setSynced", "removeRead", "revokeIam", "dropAccount", "dropGroup",
                  "archive", "dropDatabase", "readMapping", "deleteRow"} : s \in Steps
    /\ {"add", "cleanup", "remove"} = Paths
    BY DEF Steps, Paths

\* Every step of a mapper keeps the types of its variables.
LEMMA WorkStaysTyped ==
    ASSUME TypeInv, NEW p \in Pods, Add(p) \/ Remove(p)
    PROVE  WorkTyped'
<1> DEFINE w == work[p]
<1>a. WorkTyped /\ w \in Work /\ Fits(w)
    BY DEF TypeInv, TypeOK, WorkTyped
<1>b. row # None => row \in Row
    BY DEF TypeInv, TypeOK
<1>c. groups \subseteq Groups /\ Live \subseteq Databases
    BY DEF TypeInv, TypeOK, Live
<1>d. mapped \in BOOLEAN
    BY DEF TypeInv, TypeOK
<1>e. ASSUME NEW path \in {"add", "remove"}, MapDataset(p, path)
      PROVE  WorkTyped'
    BY <1>a, <1>e, IdleTyped, BecomesTyped DEF MapDataset
<1>f. ASSUME Done(p)
      PROVE  WorkTyped'
    BY <1>a, <1>f, IdleTyped, BecomesTyped DEF Done
<1>g. At(p, "start") \/ At(p, "insertRow") =>
          FirstStep(w.path) \in Steps /\ FitsStep(FirstStep(w.path), w.path, w.sa, w.c)
    BY <1>a, Names DEF At, FirstStep, Fits, FitsStep, AddSteps, CreateSteps
<1>h. row # None => row.coll \in Collections \cup {0, None}
    BY <1>b DEF Row
<1>1. CASE Start(p)
  <2>1. FitsStep("insertRow", w.path, w.sa, w.c) \/ ~ At(p, "start")
    BY <1>a DEF At, Fits, FitsStep, AddSteps, CreateSteps
  <2> QED BY <1>a, <1>g, <1>1, <2>1, Names, GotoTyped DEF Start
<1>2. CASE InsertRow(p)
    BY <1>a, <1>g, <1>2, Names, GotoTyped DEF InsertRow
<1>3. CASE ChoosePath(p)
  <2>1. PICK s \in {"openRead", "restrictedRead"} : Goto(p, s) /\ FitsStep(s, w.path, w.sa, w.c)
    BY <1>a, <1>3 DEF ChoosePath, At, Fits, FitsStep, AddSteps, CreateSteps
  <2> QED BY <1>a, <2>1, Names, GotoTyped
<1>4. CASE OpenAccess(p)
  <2>1. Goto(p, "dropGroup") /\ FitsStep("dropGroup", w.path, w.sa, w.c)
    BY <1>a, <1>4 DEF OpenAccess, At, Fits, FitsStep, AddSteps, CreateSteps
  <2> QED BY <1>a, <2>1, Names, GotoTyped
<1>5. CASE SetGroupOpen(p)
  <2>1. Goto(p, "setSynced") /\ FitsStep("setSynced", w.path, w.sa, w.c)
    BY <1>a, <1>5 DEF SetGroupOpen, At, Fits, FitsStep, AddSteps, CreateSteps
  <2> QED BY <1>a, <2>1, Names, GotoTyped
<1>6. CASE RestoreGrant(p)
  <2>1. Goto(p, "restoreRow") /\ FitsStep("restoreRow", w.path, w.sa, w.c)
    BY <1>a, <1>6 DEF RestoreGrant, At, Fits, FitsStep, AddSteps, CreateSteps
  <2> QED BY <1>a, <2>1, Names, GotoTyped
<1>7. CASE RestoreRow(p)
  <2>1. Goto(p, "addMembers") /\ FitsStep("addMembers", w.path, w.sa, w.c)
    BY <1>a, <1>7 DEF RestoreRow, At, Fits, FitsStep, AddSteps, CreateSteps
  <2> QED BY <1>a, <2>1, Names, GotoTyped
<1>8. CASE AddMembers(p)
  <2>1. Goto(p, "setSynced") /\ FitsStep("setSynced", w.path, w.sa, w.c)
    BY <1>a, <1>8 DEF AddMembers, At, Fits, FitsStep, AddSteps, CreateSteps
  <2> QED BY <1>a, <2>1, Names, GotoTyped
<1>9. CASE SetGroup(p)
  <2>1. PICK s \in {"createCollection", "ensureAccount"} : Goto(p, s) /\ FitsStep(s, w.path, w.sa, w.c)
    BY <1>a, <1>9 DEF SetGroup, AfterGroup, At, Fits, FitsStep, AddSteps, CreateSteps
  <2> QED BY <1>a, <2>1, Names, GotoTyped
<1>10. CASE SetCollection(p)
  <2>1. Goto(p, "ensureAccount") /\ FitsStep("ensureAccount", w.path, w.sa, w.c)
    BY <1>a, <1>10 DEF SetCollection, At, Fits, FitsStep, AddSteps, CreateSteps
  <2> QED BY <1>a, <2>1, Names, GotoTyped
<1>11. CASE EnsureAccount(p)
  <2>1. Goto(p, "setAccount") /\ FitsStep("setAccount", w.path, w.sa, w.c)
    BY <1>a, <1>11 DEF EnsureAccount, At, Fits, FitsStep, AddSteps, CreateSteps
  <2> QED BY <1>a, <2>1, Names, GotoTyped
<1>12. CASE Grant(p)
  <2>1. Goto(p, "createReread") /\ FitsStep("createReread", w.path, w.sa, w.c)
    BY <1>a, <1>12 DEF Grant, At, Fits, FitsStep, AddSteps, CreateSteps
  <2> QED BY <1>a, <2>1, Names, GotoTyped
<1>13. CASE WaitForDatabase(p)
  <2>1. Goto(p, "setDatabase") /\ FitsStep("setDatabase", w.path, w.sa, w.c)
    BY <1>a, <1>13 DEF WaitForDatabase, At, Fits, FitsStep, AddSteps, CreateSteps
  <2> QED BY <1>a, <2>1, Names, GotoTyped
<1>14. CASE SetDatabase(p)
  <2>1. Goto(p, "setSynced") /\ FitsStep("setSynced", w.path, w.sa, w.c)
    BY <1>a, <1>14 DEF SetDatabase, At, Fits, FitsStep, AddSteps, CreateSteps
  <2> QED BY <1>a, <2>1, Names, GotoTyped
<1>15. CASE RevokeIam(p)
  <2>1. Goto(p, "dropAccount") /\ FitsStep("dropAccount", w.path, w.sa, w.c)
    BY <1>a, <1>15 DEF RevokeIam, At, Fits, FitsStep, AddSteps, CreateSteps
  <2> QED BY <1>a, <2>1, Names, GotoTyped
<1>16. CASE DropGroup(p)
  <2>1. PICK s \in {"setGroupOpen", "archive"} : Goto(p, s) /\ FitsStep(s, w.path, w.sa, w.c)
    BY <1>a, <1>16 DEF DropGroup, At, Fits, FitsStep, AddSteps, CreateSteps
  <2> QED BY <1>a, <2>1, Names, GotoTyped
<1>17. CASE ArchiveCollection(p)
  <2>1. PICK s \in {"dropAccount", "dropDatabase"} : Goto(p, s) /\ FitsStep(s, w.path, w.sa, w.c)
    BY <1>a, <1>17 DEF ArchiveCollection, At, Fits, FitsStep, AddSteps, CreateSteps
  <2> QED BY <1>a, <2>1, Names, GotoTyped
<1>18. CASE CreateReread(p)
  <2>1. PICK s \in {"listDatabases", "setSynced"} : Goto(p, s) /\ FitsStep(s, w.path, w.sa, w.c)
    BY <1>a, <1>18 DEF CreateReread, At, Fits, FitsStep, AddSteps, CreateSteps
  <2> QED BY <1>a, <2>1, Names, GotoTyped
<1>19. CASE SetSynced(p)
    BY <1>19, <1>f DEF SetSynced
<1>20. CASE DeleteRow(p)
    BY <1>20, <1>f DEF DeleteRow
<1>21. CASE TimesOut(p)
  <2> DEFINE v == [w EXCEPT !.step = "dropDatabase", !.path = "cleanup"]
  <2>1. v \in Work
    BY <1>a, Names DEF Work
  <2>2. Fits(v)
    BY <1>a, <1>21 DEF TimesOut, Work, At, Fits, FitsStep, AddSteps, CreateSteps
  <2>3. work' = [work EXCEPT ![p] = v]
    BY <1>21 DEF TimesOut
  <2> HIDE DEF v
  <2> QED BY <1>a, <2>1, <2>2, <2>3, BecomesTyped
<1>22. CASE OpenRead(p)
  <2>1. CASE row.db # None /\ row.group # 0
    <3> DEFINE v == [w EXCEPT !.step = "openAccess", !.g = row.group]
    <3>1. v \in Work
      BY <1>a, <1>b, <1>22, <2>1, Names DEF Work, Row, OpenRead, Visible
    <3>2. Fits(v)
      BY <1>a, <1>b, <1>22, <2>1, <1>22 DEF OpenRead, Work, At, Fits, FitsStep, AddSteps, CreateSteps
    <3>3. work' = [work EXCEPT ![p] = v]
      BY <1>22, <2>1 DEF OpenRead
    <3> HIDE DEF v
    <3> QED BY <1>a, <3>1, <3>2, <3>3, BecomesTyped
  <2>2. CASE ~ (row.db # None /\ row.group # 0)
    <3>1. PICK s \in {"setOpen", "setSynced"} : Goto(p, s) /\ FitsStep(s, w.path, w.sa, w.c)
      BY <1>a, <1>22, <2>2 DEF OpenRead, At, Fits, FitsStep, AddSteps, CreateSteps
    <3> QED BY <1>a, <3>1, Names, GotoTyped
  <2> QED BY <2>1, <2>2
<1>23. CASE SetOpen(p)
  <2> DEFINE v == [w EXCEPT !.step = "grant", !.sa = "shared", !.g = 0, !.c = 0]
  <2>1. v \in Work
    BY <1>a, Names DEF Work
  <2>2. Fits(v)
    BY <1>a, <1>23, IdsAssumption DEF SetOpen, Accounts, Work, At, Fits, FitsStep, AddSteps, CreateSteps
  <2>3. work' = [work EXCEPT ![p] = v]
    BY <1>23 DEF SetOpen
  <2> HIDE DEF v
  <2> QED BY <1>a, <2>1, <2>2, <2>3, BecomesTyped
<1>24. CASE RestrictedRead(p)
  <2>1. CASE work' = [work EXCEPT ![p].step = "restoreGrant", ![p].sa = row.sa]
    <3> DEFINE v == [w EXCEPT !.step = "restoreGrant", !.sa = row.sa]
    <3>1. v \in Work
      BY <1>a, <1>b, <1>24, Names DEF Work, Row, RestrictedRead
    <3>2. Fits(v)
      BY <1>a, <1>b, <1>24, <1>24 DEF RestrictedRead, Work, At, Fits, FitsStep, AddSteps, CreateSteps
    <3>3. work' = [work EXCEPT ![p] = v]
      BY <2>1
    <3> HIDE DEF v
    <3> QED BY <1>a, <3>1, <3>2, <3>3, BecomesTyped
  <2>2. CASE work' # [work EXCEPT ![p].step = "restoreGrant", ![p].sa = row.sa]
    <3>1. PICK s \in {"createRead", "addMembers"} : Goto(p, s) /\ FitsStep(s, w.path, w.sa, w.c)
      BY <1>a, <1>24, <2>2 DEF RestrictedRead, At, Fits, FitsStep, AddSteps, CreateSteps
    <3> QED BY <1>a, <3>1, Names, GotoTyped
  <2> QED BY <2>1, <2>2
<1>25. CASE CreateRead(p)
  <2>1. CASE row.group = None
    <3>1. Goto(p, "getGroup") /\ FitsStep("getGroup", w.path, w.sa, w.c)
      BY <1>a, <1>25, <2>1 DEF CreateRead, At, Fits, FitsStep, AddSteps, CreateSteps
    <3> QED BY <1>a, <3>1, Names, GotoTyped
  <2>2. CASE row.group # None
    <3>1. AfterGroup(row) \in Steps /\ FitsStep(AfterGroup(row), w.path, w.sa, w.c)
      BY <1>a, <1>25, Names DEF AfterGroup, CreateRead, At, Fits, FitsStep, AddSteps, CreateSteps
    <3> DEFINE v == [w EXCEPT !.step = AfterGroup(row), !.g = row.group]
    <3>2. v \in Work
      BY <1>a, <1>b, <1>25, <3>1 DEF CreateRead, Visible, Work, Row
    <3>3. Fits(v)
      BY <1>a, <3>1 DEF Fits, Work
    <3>4. work' = [work EXCEPT ![p] = v]
      BY <1>25, <2>2 DEF CreateRead
    <3> HIDE DEF v
    <3> QED BY <1>a, <3>2, <3>3, <3>4, BecomesTyped
  <2> QED BY <2>1, <2>2
<1>26. CASE GetOrCreatePermissionGroup(p)
  <2>1. PICK g \in Groups : work' = [work EXCEPT ![p].step = "setGroup", ![p].g = g]
    BY <1>c, <1>26 DEF GetOrCreatePermissionGroup, FreshGroups
  <2> DEFINE v == [w EXCEPT !.step = "setGroup", !.g = g]
  <2>2. v \in Work
    BY <1>a, Names DEF Work
  <2>3. Fits(v)
    BY <1>a, <1>26 DEF GetOrCreatePermissionGroup, Work, At, Fits, FitsStep, AddSteps, CreateSteps
  <2>4. work' = [work EXCEPT ![p] = v]
    BY <2>1
  <2> HIDE DEF v
  <2> QED BY <1>a, <2>2, <2>3, <2>4, BecomesTyped
<1>27. CASE CreateCollectionWithAccess(p)
  <2>1. PICK c \in Collections : work' = [work EXCEPT ![p].step = "setCollection", ![p].c = c]
    BY <1>c, <1>27 DEF CreateCollectionWithAccess, FreshCollections
  <2> DEFINE v == [w EXCEPT !.step = "setCollection", !.c = c]
  <2>2. v \in Work
    BY <1>a, Names DEF Work
  <2>3. Fits(v)
    BY <1>a, <1>27 DEF CreateCollectionWithAccess, Work, At, Fits, FitsStep, AddSteps, CreateSteps
  <2>4. work' = [work EXCEPT ![p] = v]
    BY <2>1
  <2> HIDE DEF v
  <2> QED BY <1>a, <2>2, <2>3, <2>4, BecomesTyped
<1>28. CASE PostDatabase(p)
  <2>1. PICK d \in Databases : work' = [work EXCEPT ![p].step = "wait", ![p].d = d]
    BY <1>c, <1>28 DEF PostDatabase, FreshDatabases
  <2> DEFINE v == [w EXCEPT !.step = "wait", !.d = d]
  <2>2. v \in Work
    BY <1>a, Names DEF Work
  <2>3. Fits(v)
    BY <1>a, <1>28 DEF PostDatabase, Work, At, Fits, FitsStep, AddSteps, CreateSteps
  <2>4. work' = [work EXCEPT ![p] = v]
    BY <2>1
  <2> HIDE DEF v
  <2> QED BY <1>a, <2>2, <2>3, <2>4, BecomesTyped
<1>29. CASE SetAccount(p)
  <2> DEFINE v == [w EXCEPT !.step = "grant", !.sa = "own", !.g = row.group, !.c = row.coll]
  <2>1. v \in Work
    BY <1>a, <1>b, <1>29, Names DEF Work, Row, SetAccount
  <2>2. Fits(v)
    BY <1>a, <1>b, <1>29, <1>29 DEF SetAccount, Accounts, Work, At, Fits, FitsStep, AddSteps, CreateSteps
  <2>3. work' = [work EXCEPT ![p] = v]
    BY <1>29 DEF SetAccount
  <2> HIDE DEF v
  <2> QED BY <1>a, <2>1, <2>2, <2>3, BecomesTyped
<1>30. CASE ListDatabases(p)
  <2>1. CASE Live = {}
    <3>1. Goto(p, "postDatabase") /\ FitsStep("postDatabase", w.path, w.sa, w.c)
      BY <1>a, <1>30, <2>1 DEF ListDatabases, At, Fits, FitsStep, AddSteps, CreateSteps
    <3> QED BY <1>a, <3>1, Names, GotoTyped
  <2>2. CASE Live # {}
    <3>1. PICK d \in Databases : work' = [work EXCEPT ![p].step = "wait", ![p].d = d]
      BY <1>c, <1>30, <2>2 DEF ListDatabases
    <3> DEFINE v == [w EXCEPT !.step = "wait", !.d = d]
    <3>2. v \in Work
      BY <1>a, Names DEF Work
    <3>3. Fits(v)
      BY <1>a, <1>30 DEF ListDatabases, Work, At, Fits, FitsStep, AddSteps, CreateSteps
    <3>4. work' = [work EXCEPT ![p] = v]
      BY <3>1
    <3> HIDE DEF v
    <3> QED BY <1>a, <3>2, <3>3, <3>4, BecomesTyped
  <2> QED BY <2>1, <2>2
<1>31. CASE RemoveRead(p)
  <2>1. CASE row = None
    BY <1>f, <1>31, <2>1 DEF RemoveRead
  <2>2. CASE row # None /\ isRestrictedDatabase(row)
    <3> DEFINE v == [w EXCEPT !.step = "revokeIam", !.sa = row.sa, !.g = row.group,
                              !.c = row.coll, !.d = row.db]
    <3>1. v \in Work
      BY <1>a, <1>b, <2>2, Names DEF Work, Row
    <3>2. Fits(v)
      BY <1>a, <1>b, <2>2, <1>31 DEF RemoveRead, isRestrictedDatabase, Row, Work, At, Fits, FitsStep, AddSteps, CreateSteps
    <3>3. work' = [work EXCEPT ![p] = v]
      BY <1>31, <2>2 DEF RemoveRead
    <3> HIDE DEF v
    <3> QED BY <1>a, <3>1, <3>2, <3>3, BecomesTyped
  <2>3. CASE row # None /\ ~ isRestrictedDatabase(row)
    <3> DEFINE v == [w EXCEPT !.step = "dropDatabase", !.d = row.db]
    <3>1. v \in Work
      BY <1>a, <1>b, <2>3, Names DEF Work, Row
    <3>2. Fits(v)
      BY <1>a, <1>b, <2>3, <1>31 DEF RemoveRead, Work, At, Fits, FitsStep, AddSteps, CreateSteps
    <3>3. work' = [work EXCEPT ![p] = v]
      BY <1>31, <2>3 DEF RemoveRead
    <3> HIDE DEF v
    <3> QED BY <1>a, <3>1, <3>2, <3>3, BecomesTyped
  <2> QED BY <1>31, <2>1, <2>2, <2>3 DEF RemoveRead
<1>32. CASE DropAccount(p)
  <2>1. CASE w.path = "cleanup"
    BY <1>e, <1>32, <2>1 DEF DropAccount
  <2>2. CASE w.path # "cleanup"
    <3>1. Goto(p, "dropGroup") /\ FitsStep("dropGroup", w.path, w.sa, w.c)
      BY <1>a, <1>32, <2>2 DEF DropAccount, At, Fits, FitsStep, AddSteps, CreateSteps
    <3> QED BY <1>a, <3>1, Names, GotoTyped
  <2> QED BY <2>1, <2>2
<1>33. CASE DropDatabase(p)
  <2>1. CASE w.path = "cleanup" /\ w.c = 0
    BY <1>e, <1>33, <2>1 DEF DropDatabase
  <2>2. CASE w.path = "cleanup" /\ w.c # 0
    <3>1. Goto(p, "dropGroup")
      BY <1>33, <2>2 DEF DropDatabase
    <3>2. FitsStep("dropGroup", w.path, w.sa, w.c)
      BY <1>a, <1>33, <2>2 DEF DropDatabase, Work, At, Fits, FitsStep, AddSteps, CreateSteps
    <3> QED BY <1>a, <3>1, <3>2, Names, GotoTyped
  <2>3. CASE w.path # "cleanup"
    <3>1. PICK s \in {"deleteRow", "readMapping"} : Goto(p, s)
      BY <1>33, <2>3 DEF DropDatabase
    <3>2. FitsStep(s, w.path, w.sa, w.c)
      BY <1>a, <1>33, <2>3, <3>1 DEF DropDatabase, Work, At, Fits, FitsStep, AddSteps, CreateSteps, Paths
    <3> QED BY <1>a, <3>1, <3>2, Names, GotoTyped
  <2> QED BY <2>1, <2>2, <2>3
<1>34. CASE ReadMapping(p)
  <2> DEFINE v == [w EXCEPT !.step = "deleteRow", !.mapped = mapped]
  <2>1. v \in Work
    BY <1>a, <1>d, Names DEF Work
  <2>2. Fits(v)
    BY <1>a, <1>d, <1>34 DEF ReadMapping, Work, At, Fits, FitsStep, AddSteps, CreateSteps
  <2>3. work' = [work EXCEPT ![p] = v]
    BY <1>34 DEF ReadMapping
  <2> HIDE DEF v
  <2> QED BY <1>a, <2>1, <2>2, <2>3, BecomesTyped
<1> QED
    BY <1>1, <1>2, <1>3, <1>4, <1>5, <1>6, <1>7, <1>8, <1>9, <1>10,
       <1>11, <1>12, <1>13, <1>14, <1>15, <1>16, <1>17, <1>18, <1>19, <1>20,
       <1>21, <1>22, <1>23, <1>24, <1>25, <1>26, <1>27, <1>28, <1>29, <1>30,
       <1>31, <1>32, <1>33, <1>34 DEF Add, Remove

\* The steps of mappers keep the types of what is stored in Postgres.
LEMMA PostgresStaysTyped ==
    ASSUME TypeInv, NEW p \in Pods, Add(p) \/ Remove(p)
    PROVE  row' \in Row \cup {None} /\ mapped' \in BOOLEAN /\ allUsers' \in BOOLEAN
<1>a. /\ row \in Row \cup {None} /\ mapped \in BOOLEAN /\ allUsers \in BOOLEAN
      /\ row # None => row \in Row
    BY DEF TypeInv, TypeOK
<1>b. /\ work[p].g \in Groups \cup {0, None} /\ work[p].c \in Collections \cup {0, None}
      /\ work[p].d \in Databases \cup {None} /\ work[p].mapped \in BOOLEAN
    BY DEF TypeInv, TypeOK, Work
<1>1. \/ row' = row
      \/ row' = None
      \/ row' = NewRow
      \/ /\ row # None
         /\ \/ row' = [row EXCEPT !.coll = 0]
            \/ row' = [row EXCEPT !.group = 0]
            \/ row' = [row EXCEPT !.deleted = FALSE]
            \/ row' = [row EXCEPT !.synced = TRUE]
            \/ row' = [row EXCEPT !.sa = "own"]
            \/ row' = [row EXCEPT !.group = work[p].g]
            \/ row' = [row EXCEPT !.coll = work[p].c]
            \/ row' = [row EXCEPT !.db = work[p].d]
    BY DEF Add, Remove, Start, InsertRow, ChoosePath, OpenRead, SetOpen, OpenAccess,
       SetGroupOpen, RestrictedRead, RestoreGrant, RestoreRow, AddMembers, CreateRead,
       GetOrCreatePermissionGroup, SetGroup, CreateCollectionWithAccess, SetCollection,
       EnsureAccount, SetAccount, Grant, CreateReread, ListDatabases, PostDatabase,
       WaitForDatabase, TimesOut, SetDatabase, SetSynced, RemoveRead, RevokeIam, DropAccount,
       DropGroup, ArchiveCollection, DropDatabase, ReadMapping, DeleteRow, postgres
<1>2. /\ mapped' = mapped \/ mapped' = work[p].mapped
      /\ allUsers' = allUsers
    BY DEF Add, Remove, Start, InsertRow, ChoosePath, OpenRead, SetOpen, OpenAccess,
       SetGroupOpen, RestrictedRead, RestoreGrant, RestoreRow, AddMembers, CreateRead,
       GetOrCreatePermissionGroup, SetGroup, CreateCollectionWithAccess, SetCollection,
       EnsureAccount, SetAccount, Grant, CreateReread, ListDatabases, PostDatabase,
       WaitForDatabase, TimesOut, SetDatabase, SetSynced, RemoveRead, RevokeIam, DropAccount,
       DropGroup, ArchiveCollection, DropDatabase, ReadMapping, DeleteRow, postgres
<1>3. NewRow \in Row
    BY DEF NewRow, Row
<1>4. row' \in Row \cup {None}
    BY <1>a, <1>b, <1>1, <1>3, RowTyped, ZenonT(60)
<1> QED BY <1>a, <1>b, <1>2, <1>4

\* They keep the types of what is in Metabase and Google, and leave the
\* handlers and the queues alone.
LEMMA OutsideStaysTyped ==
    ASSUME TypeInv, NEW p \in Pods, Add(p) \/ Remove(p)
    PROVE  /\ groups' \subseteq Groups
           /\ archived' \subseteq Collections
           /\ database' \in [Databases -> Accounts \cup {"absent"}]
           /\ account' \in BOOLEAN
           /\ iam' \subseteq Accounts
           /\ excuses' \subseteq {"revoked", "removal", "orphan"}
           /\ UNCHANGED <<queue, job>>
<1>1. UNCHANGED <<queue, job>>
    BY DEF Add, Remove, Start, InsertRow, ChoosePath, OpenRead, SetOpen, OpenAccess,
       SetGroupOpen, RestrictedRead, RestoreGrant, RestoreRow, AddMembers, CreateRead,
       GetOrCreatePermissionGroup, SetGroup, CreateCollectionWithAccess, SetCollection,
       EnsureAccount, SetAccount, Grant, CreateReread, ListDatabases, PostDatabase,
       WaitForDatabase, TimesOut, SetDatabase, SetSynced, RemoveRead, RevokeIam, DropAccount,
       DropGroup, ArchiveCollection, DropDatabase, ReadMapping, DeleteRow, metabase, google
<1>2. groups' \subseteq groups \/ \E g \in FreshGroups : groups' = groups \cup {g}
    BY DEF Add, Remove, Start, InsertRow, ChoosePath, OpenRead, SetOpen, OpenAccess,
       SetGroupOpen, RestrictedRead, RestoreGrant, RestoreRow, AddMembers, CreateRead,
       GetOrCreatePermissionGroup, SetGroup, CreateCollectionWithAccess, SetCollection,
       EnsureAccount, SetAccount, Grant, CreateReread, ListDatabases, PostDatabase,
       WaitForDatabase, TimesOut, SetDatabase, SetSynced, RemoveRead, RevokeIam, DropAccount,
       DropGroup, ArchiveCollection, DropDatabase, ReadMapping, DeleteRow, metabase, google
<1>3. archived' \subseteq archived \/ (At(p, "archive") /\ archived' = archived \cup {work[p].c})
    BY DEF Add, Remove, Start, InsertRow, ChoosePath, OpenRead, SetOpen, OpenAccess,
       SetGroupOpen, RestrictedRead, RestoreGrant, RestoreRow, AddMembers, CreateRead,
       GetOrCreatePermissionGroup, SetGroup, CreateCollectionWithAccess, SetCollection,
       EnsureAccount, SetAccount, Grant, CreateReread, ListDatabases, PostDatabase,
       WaitForDatabase, TimesOut, SetDatabase, SetSynced, RemoveRead, RevokeIam, DropAccount,
       DropGroup, ArchiveCollection, DropDatabase, ReadMapping, DeleteRow, metabase, google
<1>4. \/ database' = database
      \/ \E d \in FreshDatabases : /\ database' = [database EXCEPT ![d] = work[p].sa]
                                    /\ At(p, "postDatabase")
      \/ database' = [d \in Databases |-> IF d = work[p].d THEN "absent" ELSE database[d]]
    BY DEF Add, Remove, Start, InsertRow, ChoosePath, OpenRead, SetOpen, OpenAccess,
       SetGroupOpen, RestrictedRead, RestoreGrant, RestoreRow, AddMembers, CreateRead,
       GetOrCreatePermissionGroup, SetGroup, CreateCollectionWithAccess, SetCollection,
       EnsureAccount, SetAccount, Grant, CreateReread, ListDatabases, PostDatabase,
       WaitForDatabase, TimesOut, SetDatabase, SetSynced, RemoveRead, RevokeIam, DropAccount,
       DropGroup, ArchiveCollection, DropDatabase, ReadMapping, DeleteRow, metabase, google
<1>5. account' \in {account, TRUE, FALSE}
    BY DEF Add, Remove, Start, InsertRow, ChoosePath, OpenRead, SetOpen, OpenAccess,
       SetGroupOpen, RestrictedRead, RestoreGrant, RestoreRow, AddMembers, CreateRead,
       GetOrCreatePermissionGroup, SetGroup, CreateCollectionWithAccess, SetCollection,
       EnsureAccount, SetAccount, Grant, CreateReread, ListDatabases, PostDatabase,
       WaitForDatabase, TimesOut, SetDatabase, SetSynced, RemoveRead, RevokeIam, DropAccount,
       DropGroup, ArchiveCollection, DropDatabase, ReadMapping, DeleteRow, metabase, google
<1>6. \/ iam' \subseteq iam
      \/ iam' = iam \cup {"own"}
      \/ At(p, "grant") /\ iam' = iam \cup {work[p].sa}
    BY DEF Add, Remove, Start, InsertRow, ChoosePath, OpenRead, SetOpen, OpenAccess,
       SetGroupOpen, RestrictedRead, RestoreGrant, RestoreRow, AddMembers, CreateRead,
       GetOrCreatePermissionGroup, SetGroup, CreateCollectionWithAccess, SetCollection,
       EnsureAccount, SetAccount, Grant, CreateReread, ListDatabases, PostDatabase,
       WaitForDatabase, TimesOut, SetDatabase, SetSynced, RemoveRead, RevokeIam, DropAccount,
       DropGroup, ArchiveCollection, DropDatabase, ReadMapping, DeleteRow, metabase, google
<1>7. \/ excuses' = excuses
      \/ excuses' \subseteq excuses \cup {"removal"}
      \/ excuses' \subseteq {"orphan"}
    BY DEF Add, Remove, Start, InsertRow, ChoosePath, OpenRead, SetOpen, OpenAccess,
       SetGroupOpen, RestrictedRead, RestoreGrant, RestoreRow, AddMembers, CreateRead,
       GetOrCreatePermissionGroup, SetGroup, CreateCollectionWithAccess, SetCollection,
       EnsureAccount, SetAccount, Grant, CreateReread, ListDatabases, PostDatabase,
       WaitForDatabase, TimesOut, SetDatabase, SetSynced, RemoveRead, RevokeIam, DropAccount,
       DropGroup, ArchiveCollection, DropDatabase, ReadMapping, DeleteRow, metabase, google
<1>a. /\ work[p].sa \in Accounts \/ ~ (At(p, "grant") \/ At(p, "postDatabase"))
      /\ work[p].c \in Collections \/ ~ At(p, "archive")
    BY DEF TypeInv, Fits, FitsStep, CreateSteps, At
<1>b. /\ groups \subseteq Groups
      /\ archived \subseteq Collections
      /\ database \in [Databases -> Accounts \cup {"absent"}]
      /\ account \in BOOLEAN
      /\ iam \subseteq Accounts
      /\ excuses \subseteq {"revoked", "removal", "orphan"}
    BY DEF TypeInv, TypeOK
<1>c. FreshGroups \subseteq Groups /\ FreshDatabases \subseteq Databases
    BY DEF FreshGroups, FreshDatabases, Live
<1>d. "own" \in Accounts
    BY DEF Accounts
<1>8. groups' \subseteq Groups /\ archived' \subseteq Collections
    BY <1>2, <1>3, <1>a, <1>b, <1>c
<1>9. database' \in [Databases -> Accounts \cup {"absent"}]
    BY <1>4, <1>a, <1>b, <1>c
<1>10. account' \in BOOLEAN /\ iam' \subseteq Accounts
    BY <1>5, <1>6, <1>a, <1>b, <1>d
<1>11. excuses' \subseteq {"revoked", "removal", "orphan"}
    BY <1>7, <1>b
<1> QED BY <1>1, <1>8, <1>9, <1>10, <1>11

\* What requests, failures and the access of all users do
LEMMA OthersStayTyped ==
    ASSUME TypeInv,
           \/ \E p \in Pods, m \in BOOLEAN : CreateMappingRequest(p, m) \/ TakeWork(p, m)
           \/ \E p \in Pods : Tick(p) \/ MapperFails(p) \/ Crash(p)
           \/ AccessOfAllUsers
    PROVE  TypeInv'
<1>a. WorkTyped /\ TypeOK
    BY DEF TypeInv, TypeOK, WorkTyped
<1>1. ASSUME NEW p \in Pods, NEW m \in BOOLEAN, CreateMappingRequest(p, m)
      PROVE  TypeInv'
  <2>1. WorkTyped'
    BY <1>a, <1>1 DEF WorkTyped, CreateMappingRequest
  <2> QED BY <1>a, <1>1, <2>1 DEF CreateMappingRequest, TypeInv, TypeOK, WorkTyped, metabase, google
<1>2. ASSUME NEW p \in Pods, NEW path \in {"add", "remove"}, MapDataset(p, path)
      PROVE  WorkTyped'
    BY <1>a, <1>2, IdleTyped, BecomesTyped DEF MapDataset
<1>3. ASSUME NEW p \in Pods, work' = [work EXCEPT ![p] = Idle]
      PROVE  WorkTyped'
    BY <1>a, <1>3, IdleTyped, BecomesTyped
<1>4. ASSUME NEW p \in Pods, NEW m \in BOOLEAN, TakeWork(p, m)
      PROVE  TypeInv'
  <2>1. WorkTyped'
    BY <1>2, <1>4 DEF TakeWork
  <2>2. queue' \in [Pods -> SUBSET BOOLEAN]
    BY <1>a, <1>4 DEF TakeWork, TypeOK
  <2> QED BY <1>a, <1>4, <2>1, <2>2 DEF TakeWork, TypeInv, TypeOK, WorkTyped, postgres, metabase, google
<1>5. ASSUME NEW p \in Pods, Tick(p)
      PROVE  TypeInv'
  <2>1. WorkTyped'
    BY <1>2, <1>5 DEF Tick
  <2> QED BY <1>a, <1>5, <2>1 DEF Tick, TypeInv, TypeOK, WorkTyped, postgres, metabase, google
<1>6. ASSUME NEW p \in Pods, MapperFails(p)
      PROVE  TypeInv'
  <2>1. WorkTyped'
    BY <1>3, <1>6 DEF MapperFails, Done
  <2> QED BY <1>a, <1>6, <2>1 DEF MapperFails, TypeInv, TypeOK, WorkTyped, postgres, metabase, google
<1>7. ASSUME NEW p \in Pods, Crash(p)
      PROVE  TypeInv'
  <2>1. WorkTyped'
    BY <1>3, <1>7 DEF Crash
  <2>2. queue' \in [Pods -> SUBSET BOOLEAN]
    BY <1>a, <1>7 DEF Crash, TypeOK
  <2> QED BY <1>a, <1>7, <2>1, <2>2 DEF Crash, TypeInv, TypeOK, WorkTyped, postgres, metabase, google
<1>8. CASE AccessOfAllUsers
  <2>1. /\ UNCHANGED <<mapped, metabase, account, queue, work>>
        /\ row' = row \/ (row # None /\ row' = [row EXCEPT !.deleted = TRUE])
        /\ iam' \subseteq iam
        /\ excuses' \subseteq excuses \cup {"revoked"}
        /\ allUsers' \in {allUsers, TRUE, FALSE}
    BY <1>8 DEF AccessOfAllUsers, AllUsersGranted, RevokeAllUsers, AllUsersExpires,
       RevokeMetabaseAccess, SoftRevokeIam, SoftDelete, RevokeRow, JobFails, postgres, google
  <2>2. job' \in Job
    <3>1. NoJob \in Job /\ \A by \in {"handler", "ensurer"} : [step |-> "readRow", by |-> by] \in Job
      BY DEF NoJob, Job
    <3>2. \A s \in {"softIam", "softRow", "revokeRow"} : [job EXCEPT !.step = s] \in Job
      BY <1>a DEF TypeOK, Job
    <3>3. \/ job' = job \/ job' = NoJob
          \/ \E by \in {"handler", "ensurer"} : job' = [step |-> "readRow", by |-> by]
          \/ \E s \in {"softIam", "softRow", "revokeRow"} : job' = [job EXCEPT !.step = s]
      BY <1>8 DEF AccessOfAllUsers, AllUsersGranted, RevokeAllUsers, AllUsersExpires,
         RevokeMetabaseAccess, SoftRevokeIam, SoftDelete, RevokeRow, JobFails, JobGoto,
         AfterMetabase
    <3> QED BY <1>a, <3>1, <3>2, <3>3 DEF TypeOK
  <2>3. row' \in Row \cup {None}
    <3>1. row # None => row \in Row /\ [row EXCEPT !.deleted = TRUE] \in Row
      BY <1>a, RowTyped DEF TypeOK
    <3> QED BY <1>a, <2>1, <3>1 DEF TypeOK
  <2> QED BY <1>a, <2>1, <2>2, <2>3 DEF TypeInv, TypeOK, WorkTyped, metabase
<1> QED BY <1>1, <1>4, <1>5, <1>6, <1>7, <1>8

\* Every step keeps the types.
LEMMA TypeStep ==
    ASSUME TypeInv, Next \/ UNCHANGED vars
    PROVE  TypeInv'
<1>1. CASE UNCHANGED vars
    BY <1>1 DEF vars, postgres, metabase, google, TypeInv, TypeOK
<1>2. ASSUME NEW p \in Pods, Add(p) \/ Remove(p)
      PROVE  TypeInv'
  <2>1. WorkTyped'
    BY <1>2, WorkStaysTyped
  <2>2. row' \in Row \cup {None} /\ mapped' \in BOOLEAN /\ allUsers' \in BOOLEAN
    BY <1>2, PostgresStaysTyped
  <2>3. /\ groups' \subseteq Groups
        /\ archived' \subseteq Collections
        /\ database' \in [Databases -> Accounts \cup {"absent"}]
        /\ account' \in BOOLEAN
        /\ iam' \subseteq Accounts
        /\ excuses' \subseteq {"revoked", "removal", "orphan"}
        /\ UNCHANGED <<queue, job>>
    BY <1>2, OutsideStaysTyped
  <2> QED BY <2>1, <2>2, <2>3 DEF TypeInv, TypeOK, WorkTyped
<1> QED BY <1>1, <1>2, OthersStayTyped DEF Next

\* Before the first request the types are right.
LEMMA TypeInit == Init => TypeInv
<1>1. ASSUME Init PROVE TypeOK
  <2>1. work \in [Pods -> Work] /\ queue \in [Pods -> SUBSET BOOLEAN]
    BY <1>1, IdleTyped DEF Init
  <2>2. job \in Job
    BY <1>1 DEF Init, NoJob, Job
  <2>3. database \in [Databases -> Accounts \cup {"absent"}]
    BY <1>1 DEF Init
  <2> QED BY <1>1, <2>1, <2>2, <2>3 DEF Init, TypeOK
<1>2. Init => \A p \in Pods : Fits(work[p])
    BY IdleTyped DEF Init
<1> QED BY <1>1, <1>2 DEF TypeInv

\* Every reachable state has the right types, whatever the number of mappers.
THEOREM TypeCorrect == Spec => []TypeOK
<1>1. TypeInv => TypeOK
    BY DEF TypeInv
<1> QED BY <1>1, TypeInit, TypeStep, PTL DEF Spec

-----------------------------------------------------------------------------
(* A single mapper *)

OneMapper == \A p, q \in Pods : p = q

\* The steps at which a row has its database already
HasDatabase == {"openAccess", "setGroupOpen", "restoreGrant", "restoreRow", "addMembers",
                "setSynced"}

\* The steps of a removal
RemoveSteps == {"revokeIam", "dropAccount", "dropGroup", "archive", "dropDatabase",
                "readMapping", "deleteRow"}

\* What a mapper has seen of the row and of the databases still holds: nobody
\* else makes or drops a database.
RowAgrees(w) ==
    /\ (w.step \in HasDatabase \/ (w.step = "dropGroup" /\ w.path = "add")) =>
          (row # None => row.db # None)
    /\ w.step \in {"listDatabases", "postDatabase", "wait", "setDatabase"} =>
          (row # None => row.db = None)
    /\ w.step = "postDatabase" => Live = {}
    /\ w.step \in {"wait", "setDatabase"} => w.d # None /\ Live \subseteq {w.d}

\* A removal works on what the row names, and has taken away what its step
\* comes after.
Taken(w) == w.path = "remove" =>
    /\ w.step \in {"start", "insertRow", "removeRead"} => w.c = None
    /\ w.step \in RemoveSteps =>
          /\ row # None
          /\ w.d = row.db
          /\ isRestrictedDatabase(row) => w.c = row.coll /\ w.g = row.group /\ w.sa = row.sa
          /\ ~ isRestrictedDatabase(row) => w.c = None
    /\ w.c # None =>
          /\ w.step \in {"dropGroup", "archive", "dropDatabase", "readMapping", "deleteRow"} =>
                (w.sa = "own" => ~ account /\ "own" \notin iam)
          /\ w.step \in {"archive", "dropDatabase", "readMapping", "deleteRow"} => w.g \notin groups
          /\ w.step \in {"dropDatabase", "readMapping", "deleteRow"} => w.c \in archived
          /\ w.step \in {"readMapping", "deleteRow"} => w.d \notin Live

\* One database at most, which the row names if it names any; and it does when
\* it is synced
RowInv ==
    /\ SyncedIsCreated
    /\ (row # None /\ row.db # None) => Live \subseteq {row.db}
    /\ \A d, e \in Live : d = e

MapperInv == TypeInv /\ RowInv /\ \A p \in Pods : RowAgrees(work[p]) /\ Taken(work[p])

\* What going on to a step leaves alone
LEMMA GotoFields ==
    ASSUME TypeOK, NEW p \in Pods, NEW s, Goto(p, s)
    PROVE  /\ work'[p].step = s
           /\ work'[p].path = work[p].path
           /\ work'[p].sa = work[p].sa
           /\ work'[p].g = work[p].g
           /\ work'[p].c = work[p].c
           /\ work'[p].d = work[p].d
    BY DEF TypeOK, Goto, Work

\* What a mapper that begins, or ends, is at
LEMMA StartFields ==
    ASSUME TypeOK, NEW p \in Pods
    PROVE  /\ Done(p) => work'[p].step = "idle" /\ work'[p].path = "add"
           /\ \A path : MapDataset(p, path) =>
                /\ work'[p].step = "start" /\ work'[p].path = path /\ work'[p].c = None
<1>1. Done(p) => work'[p] = Idle
    BY DEF TypeOK, Done
<1>2. ASSUME NEW path, MapDataset(p, path)
      PROVE  work'[p].step = "start" /\ work'[p].path = path /\ work'[p].c = None
  <2>1. work'[p] = [Idle EXCEPT !.step = "start", !.path = path]
    BY <1>2 DEF TypeOK, MapDataset
  <2> QED BY <2>1 DEF Idle
<1>3. Idle.step = "idle" /\ Idle.path = "add"
    BY DEF Idle
<1> QED BY <1>1, <1>2, <1>3

\* A mapper that waits or begins has seen nothing yet.
LEMMA StartAgrees ==
    ASSUME NEW w, w.step \in {"idle", "start"}, w.path = "remove" => w.c = None
    PROVE  RowAgrees(w) /\ Taken(w)
    BY DEF RowAgrees, Taken, HasDatabase, RemoveSteps

\* Every step of the mapping keeps the invariant.
LEMMA AddKeeps ==
    ASSUME MapperInv, NEW p \in Pods, Add(p)
    PROVE  RowInv' /\ RowAgrees(work[p])' /\ Taken(work[p])'
<1> DEFINE w == work[p]
<1>a. /\ TypeOK /\ w \in Work /\ Fits(w)
      /\ RowAgrees(w) /\ Taken(w)
      /\ work \in [Pods -> Work]
    BY DEF MapperInv, TypeInv, TypeOK
<1>b. RowInv /\ (row # None => row \in Row)
    BY DEF MapperInv, TypeInv, TypeOK
<1>c. database' = database => Live' = Live
    BY DEF Live
<1>d. ASSUME UNCHANGED <<row, database>>
      PROVE  RowInv'
    BY <1>b, <1>c, <1>d DEF RowInv, SyncedIsCreated
<1>e. ASSUME At(p, "start") \/ At(p, "insertRow")
      PROVE  w.path \in {"add", "remove"} /\ (w.path = "remove" => w.c = None)
    BY <1>a, <1>e DEF At, Fits, FitsStep, Taken
<1>f. w.step \in AddSteps => w.path = "add"
    BY <1>a DEF Fits, FitsStep
<1>g. ASSUME w.path = "add", work'[p].path = w.path
      PROVE  Taken(work[p])'
    BY <1>g DEF Taken
<1>1. CASE Start(p)
  <2>1. PICK t \in {"insertRow", "choosePath", "removeRead"} : Goto(p, t)
    BY <1>1 DEF Start, FirstStep
  <2>2. work'[p].step = t /\ work'[p].path = w.path /\ work'[p].c = w.c
    BY <1>a, <2>1, GotoFields
  <2>3. RowAgrees(work[p])' /\ Taken(work[p])'
    BY <1>e, <1>1, <2>2 DEF Start, RowAgrees, HasDatabase, Taken, RemoveSteps
  <2> QED BY <1>d, <1>1, <2>3 DEF Start, postgres, metabase
<1>2. CASE InsertRow(p)
  <2>1. PICK t \in {"choosePath", "removeRead"} : Goto(p, t)
    BY <1>2 DEF InsertRow, FirstStep
  <2>2. work'[p].step = t /\ work'[p].path = w.path /\ work'[p].c = w.c
    BY <1>a, <2>1, GotoFields
  <2>3. RowAgrees(work[p])' /\ Taken(work[p])'
    BY <1>e, <1>2, <2>2 DEF InsertRow, RowAgrees, HasDatabase, Taken, RemoveSteps
  <2>4. row'.synced = FALSE /\ row'.db = None /\ database' = database
    BY <1>2 DEF InsertRow, NewRow, metabase
  <2>5. RowInv'
    BY <1>b, <1>c, <2>4 DEF RowInv, SyncedIsCreated
  <2> QED BY <2>3, <2>5
<1>3. CASE ChoosePath(p)
  <2>1. PICK t \in {"openRead", "restrictedRead"} : Goto(p, t)
    BY <1>3 DEF ChoosePath
  <2>2. work'[p].step = t /\ work'[p].path = w.path /\ work'[p].d = w.d /\ w.path = "add"
    BY <1>a, <1>f, <1>3, <2>1, GotoFields DEF ChoosePath, At, AddSteps
  <2>3. UNCHANGED <<row, database>> /\ Live' = Live
    BY <1>c, <1>3 DEF ChoosePath, postgres, metabase
  <2>4. RowAgrees(work[p])'
    BY <1>a, <1>3, <2>1, <2>2, <2>3 DEF ChoosePath, At, RowAgrees, HasDatabase
  <2> QED BY <1>d, <1>g, <2>2, <2>3, <2>4
<1>4. CASE OpenRead(p)
  <2>1. PICK t \in {"setOpen", "setSynced", "openAccess"} :
          work'[p].step = t /\ work'[p].path = w.path /\ (t # "setOpen" => row.db # None)
    <3> DEFINE new == [w EXCEPT !.step = "openAccess", !.g = row.group]
    <3>1. \/ row.db = None /\ Goto(p, "setOpen")
          \/ row.db # None /\ Goto(p, "setSynced")
          \/ row.db # None /\ work' = [work EXCEPT ![p].step = "openAccess", ![p].g = row.group]
      BY <1>4 DEF OpenRead
    <3>2. CASE row.db = None /\ Goto(p, "setOpen")
      BY <1>a, <3>2, GotoFields
    <3>3. CASE row.db # None /\ Goto(p, "setSynced")
      BY <1>a, <3>3, GotoFields
    <3>4. CASE row.db # None
               /\ work' = [work EXCEPT ![p].step = "openAccess", ![p].g = row.group]
      <4>1. work'[p] = new
        BY <1>a, <3>4
      <4>2. new.step = "openAccess" /\ new.path = w.path
        BY <1>a DEF Work
      <4> QED BY <3>4, <4>1, <4>2
    <3> QED BY <3>1, <3>2, <3>3, <3>4
  <2>2. UNCHANGED <<row, database>> /\ Live' = Live
    BY <1>c, <1>4 DEF OpenRead, postgres, metabase
  <2>3. w.path = "add"
    BY <1>f, <1>4 DEF OpenRead, At, AddSteps
  <2>4. RowAgrees(work[p])'
    BY <2>1, <2>2 DEF RowAgrees, HasDatabase
  <2> QED BY <1>d, <1>g, <2>1, <2>2, <2>3, <2>4
<1>5. CASE SetOpen(p)
  <2>1. work'[p].step = "grant" /\ work'[p].path = w.path /\ w.path = "add"
    BY <1>a, <1>f, <1>5 DEF SetOpen, At, AddSteps, Work
  <2>2. database' = database /\ Live' = Live
    BY <1>c, <1>5 DEF SetOpen, metabase
  <2>3. row # None /\ row'.db = row.db /\ row'.synced = row.synced
    BY <1>b, <1>5 DEF SetOpen, Row
  <2>4. RowInv'
    BY <1>b, <2>2, <2>3 DEF RowInv, SyncedIsCreated
  <2>5. RowAgrees(work[p])'
    BY <2>1 DEF RowAgrees, HasDatabase
  <2> QED BY <1>g, <2>1, <2>4, <2>5
<1>6. CASE OpenAccess(p)
  <2>1. PICK t \in {"dropGroup"} : Goto(p, t)
    BY <1>6 DEF OpenAccess
  <2>2. work'[p].step = t /\ work'[p].path = w.path /\ work'[p].d = w.d /\ w.path = "add"
    BY <1>a, <1>f, <1>6, <2>1, GotoFields DEF OpenAccess, At, AddSteps
  <2>3. UNCHANGED <<row, database>> /\ Live' = Live
    BY <1>c, <1>6 DEF OpenAccess, postgres, metabase
  <2>4. RowAgrees(work[p])'
    BY <1>a, <1>6, <2>1, <2>2, <2>3 DEF OpenAccess, At, RowAgrees, HasDatabase
  <2> QED BY <1>d, <1>g, <2>2, <2>3, <2>4
<1>7. CASE SetGroupOpen(p)
  <2>1. PICK t \in {"setSynced"} : Goto(p, t)
    BY <1>7 DEF SetGroupOpen
  <2>2. work'[p].step = t /\ work'[p].path = w.path /\ work'[p].d = w.d /\ w.path = "add"
    BY <1>a, <1>f, <1>7, <2>1, GotoFields DEF SetGroupOpen, At, AddSteps
  <2>3. database' = database /\ Live' = Live
    BY <1>c, <1>7 DEF SetGroupOpen, metabase
  <2>4. row' # None => row # None /\ row'.db = row.db /\ row'.synced = row.synced
    BY <1>b, <1>7 DEF SetGroupOpen, Row
  <2>5. RowInv'
    BY <1>b, <2>3, <2>4 DEF RowInv, SyncedIsCreated
  <2>6. RowAgrees(work[p])'
    BY <1>a, <1>7, <2>1, <2>2, <2>3, <2>4 DEF SetGroupOpen, At, RowAgrees, HasDatabase
  <2> QED BY <1>g, <2>2, <2>5, <2>6
<1>8. CASE RestrictedRead(p)
  <2>1. PICK t \in {"createRead", "restoreGrant", "addMembers"} :
          work'[p].step = t /\ work'[p].path = w.path /\ (t # "createRead" => row.db # None)
    <3>1. CASE row.db = None
      <4>1. Goto(p, "createRead")
        BY <1>8, <3>1 DEF RestrictedRead
      <4> QED BY <1>a, <4>1, GotoFields
    <3>2. CASE row.db # None /\ row.deleted
      <4>1. work' = [work EXCEPT ![p].step = "restoreGrant", ![p].sa = row.sa]
        BY <1>8, <3>2 DEF RestrictedRead
      <4>2. work'[p].step = "restoreGrant" /\ work'[p].path = w.path
        BY <1>a, <4>1 DEF Work
      <4> QED BY <3>2, <4>2
    <3>3. CASE row.db # None /\ ~ row.deleted
      <4>1. Goto(p, "addMembers")
        BY <1>8, <3>3 DEF RestrictedRead
      <4>2. work'[p].step = "addMembers" /\ work'[p].path = w.path
        BY <1>a, <4>1, GotoFields
      <4> QED BY <3>3, <4>2
    <3> QED BY <3>1, <3>2, <3>3
  <2>2. UNCHANGED <<row, database>> /\ Live' = Live
    BY <1>c, <1>8 DEF RestrictedRead, postgres, metabase
  <2>3. w.path = "add"
    BY <1>f, <1>8 DEF RestrictedRead, At, AddSteps
  <2>4. RowAgrees(work[p])'
    BY <2>1, <2>2 DEF RowAgrees, HasDatabase
  <2> QED BY <1>d, <1>g, <2>1, <2>2, <2>3, <2>4
<1>9. CASE RestoreGrant(p)
  <2>1. PICK t \in {"restoreRow"} : Goto(p, t)
    BY <1>9 DEF RestoreGrant
  <2>2. work'[p].step = t /\ work'[p].path = w.path /\ work'[p].d = w.d /\ w.path = "add"
    BY <1>a, <1>f, <1>9, <2>1, GotoFields DEF RestoreGrant, At, AddSteps
  <2>3. UNCHANGED <<row, database>> /\ Live' = Live
    BY <1>c, <1>9 DEF RestoreGrant, postgres, metabase
  <2>4. RowAgrees(work[p])'
    BY <1>a, <1>9, <2>1, <2>2, <2>3 DEF RestoreGrant, At, RowAgrees, HasDatabase
  <2> QED BY <1>d, <1>g, <2>2, <2>3, <2>4
<1>10. CASE RestoreRow(p)
  <2>1. PICK t \in {"addMembers"} : Goto(p, t)
    BY <1>10 DEF RestoreRow
  <2>2. work'[p].step = t /\ work'[p].path = w.path /\ work'[p].d = w.d /\ w.path = "add"
    BY <1>a, <1>f, <1>10, <2>1, GotoFields DEF RestoreRow, At, AddSteps
  <2>3. database' = database /\ Live' = Live
    BY <1>c, <1>10 DEF RestoreRow, metabase
  <2>4. row' # None => row # None /\ row'.db = row.db /\ row'.synced = row.synced
    BY <1>b, <1>10 DEF RestoreRow, Row
  <2>5. RowInv'
    BY <1>b, <2>3, <2>4 DEF RowInv, SyncedIsCreated
  <2>6. RowAgrees(work[p])'
    BY <1>a, <1>10, <2>1, <2>2, <2>3, <2>4 DEF RestoreRow, At, RowAgrees, HasDatabase
  <2> QED BY <1>g, <2>2, <2>5, <2>6
<1>11. CASE AddMembers(p)
  <2>1. PICK t \in {"setSynced"} : Goto(p, t)
    BY <1>11 DEF AddMembers
  <2>2. work'[p].step = t /\ work'[p].path = w.path /\ work'[p].d = w.d /\ w.path = "add"
    BY <1>a, <1>f, <1>11, <2>1, GotoFields DEF AddMembers, At, AddSteps
  <2>3. UNCHANGED <<row, database>> /\ Live' = Live
    BY <1>c, <1>11 DEF AddMembers, postgres, metabase
  <2>4. RowAgrees(work[p])'
    BY <1>a, <1>11, <2>1, <2>2, <2>3 DEF AddMembers, At, RowAgrees, HasDatabase
  <2> QED BY <1>d, <1>g, <2>2, <2>3, <2>4
<1>12. CASE CreateRead(p)
  <2>1. PICK t \in {"getGroup", "createCollection", "ensureAccount"} :
          work'[p].step = t /\ work'[p].path = w.path
    <3>1. CASE row.group = None
      <4>1. Goto(p, "getGroup")
        BY <1>12, <3>1 DEF CreateRead
      <4> QED BY <1>a, <4>1, GotoFields
    <3>2. CASE row.group # None
      <4>1. PICK t \in {"createCollection", "ensureAccount"} :
              work' = [work EXCEPT ![p].step = t, ![p].g = row.group]
        BY <1>12, <3>2 DEF CreateRead, AfterGroup
      <4>2. work'[p].step = t /\ work'[p].path = w.path
        BY <1>a, <4>1 DEF Work
      <4> QED BY <4>2
    <3> QED BY <3>1, <3>2
  <2>2. UNCHANGED <<row, database>>
    BY <1>12 DEF CreateRead, postgres, metabase
  <2>3. w.path = "add"
    BY <1>f, <1>12 DEF CreateRead, At, AddSteps
  <2>4. RowAgrees(work[p])'
    BY <2>1 DEF RowAgrees, HasDatabase
  <2> QED BY <1>d, <1>g, <2>1, <2>2, <2>3, <2>4
<1>13. CASE GetOrCreatePermissionGroup(p)
  <2>1. work'[p].step = "setGroup" /\ work'[p].path = w.path /\ w.path = "add"
    <3>1. PICK g : work' = [work EXCEPT ![p].step = "setGroup", ![p].g = g]
      BY <1>13 DEF GetOrCreatePermissionGroup
    <3>2. work'[p].step = "setGroup" /\ work'[p].path = w.path
      BY <1>a, <3>1 DEF Work
    <3> QED BY <1>f, <1>13, <3>2 DEF GetOrCreatePermissionGroup, At, AddSteps
  <2>2. UNCHANGED <<row, database>> /\ Live' = Live
    BY <1>c, <1>13 DEF GetOrCreatePermissionGroup, postgres, metabase
  <2>3. RowAgrees(work[p])'
    BY <1>a, <1>13, <2>1, <2>2 DEF GetOrCreatePermissionGroup, At, RowAgrees, HasDatabase
  <2> QED BY <1>d, <1>g, <2>1, <2>2, <2>3
<1>14. CASE SetGroup(p)
  <2>1. PICK t \in {"createCollection", "ensureAccount"} : Goto(p, t)
    BY <1>14 DEF SetGroup, AfterGroup
  <2>2. work'[p].step = t /\ work'[p].path = w.path /\ work'[p].d = w.d /\ w.path = "add"
    BY <1>a, <1>f, <1>14, <2>1, GotoFields DEF SetGroup, At, AddSteps
  <2>3. database' = database /\ Live' = Live
    BY <1>c, <1>14 DEF SetGroup, metabase
  <2>4. row' # None => row # None /\ row'.db = row.db /\ row'.synced = row.synced
    BY <1>b, <1>14 DEF SetGroup, Row
  <2>5. RowInv'
    BY <1>b, <2>3, <2>4 DEF RowInv, SyncedIsCreated
  <2>6. RowAgrees(work[p])'
    BY <1>a, <1>14, <2>1, <2>2, <2>3, <2>4 DEF SetGroup, AfterGroup, At, RowAgrees, HasDatabase
  <2> QED BY <1>g, <2>2, <2>5, <2>6
<1>15. CASE CreateCollectionWithAccess(p)
  <2>1. work'[p].step = "setCollection" /\ work'[p].path = w.path /\ w.path = "add"
    <3>1. PICK c : work' = [work EXCEPT ![p].step = "setCollection", ![p].c = c]
      BY <1>15 DEF CreateCollectionWithAccess
    <3>2. work'[p].step = "setCollection" /\ work'[p].path = w.path
      BY <1>a, <3>1 DEF Work
    <3> QED BY <1>f, <1>15, <3>2 DEF CreateCollectionWithAccess, At, AddSteps
  <2>2. UNCHANGED <<row, database>> /\ Live' = Live
    BY <1>c, <1>15 DEF CreateCollectionWithAccess, postgres, metabase
  <2>3. RowAgrees(work[p])'
    BY <1>a, <1>15, <2>1, <2>2 DEF CreateCollectionWithAccess, At, RowAgrees, HasDatabase
  <2> QED BY <1>d, <1>g, <2>1, <2>2, <2>3
<1>16. CASE SetCollection(p)
  <2>1. PICK t \in {"ensureAccount"} : Goto(p, t)
    BY <1>16 DEF SetCollection
  <2>2. work'[p].step = t /\ work'[p].path = w.path /\ work'[p].d = w.d /\ w.path = "add"
    BY <1>a, <1>f, <1>16, <2>1, GotoFields DEF SetCollection, At, AddSteps
  <2>3. database' = database /\ Live' = Live
    BY <1>c, <1>16 DEF SetCollection, metabase
  <2>4. row' # None => row # None /\ row'.db = row.db /\ row'.synced = row.synced
    BY <1>b, <1>16 DEF SetCollection, Row
  <2>5. RowInv'
    BY <1>b, <2>3, <2>4 DEF RowInv, SyncedIsCreated
  <2>6. RowAgrees(work[p])'
    BY <1>a, <1>16, <2>1, <2>2, <2>3, <2>4 DEF SetCollection, At, RowAgrees, HasDatabase
  <2> QED BY <1>g, <2>2, <2>5, <2>6
<1>17. CASE EnsureAccount(p)
  <2>1. PICK t \in {"setAccount"} : Goto(p, t)
    BY <1>17 DEF EnsureAccount
  <2>2. work'[p].step = t /\ work'[p].path = w.path /\ work'[p].d = w.d /\ w.path = "add"
    BY <1>a, <1>f, <1>17, <2>1, GotoFields DEF EnsureAccount, At, AddSteps
  <2>3. UNCHANGED <<row, database>> /\ Live' = Live
    BY <1>c, <1>17 DEF EnsureAccount, postgres, metabase
  <2>4. RowAgrees(work[p])'
    BY <1>a, <1>17, <2>1, <2>2, <2>3 DEF EnsureAccount, At, RowAgrees, HasDatabase
  <2> QED BY <1>d, <1>g, <2>2, <2>3, <2>4
<1>18. CASE SetAccount(p)
  <2>1. work'[p].step = "grant" /\ work'[p].path = w.path /\ w.path = "add"
    BY <1>a, <1>f, <1>18 DEF SetAccount, At, AddSteps, Work
  <2>2. database' = database /\ Live' = Live
    BY <1>c, <1>18 DEF SetAccount, metabase
  <2>3. row # None /\ row'.db = row.db /\ row'.synced = row.synced
    BY <1>b, <1>18 DEF SetAccount, Row
  <2>4. RowInv'
    BY <1>b, <2>2, <2>3 DEF RowInv, SyncedIsCreated
  <2>5. RowAgrees(work[p])'
    BY <2>1 DEF RowAgrees, HasDatabase
  <2> QED BY <1>g, <2>1, <2>4, <2>5
<1>19. CASE Grant(p)
  <2>1. PICK t \in {"createReread"} : Goto(p, t)
    BY <1>19 DEF Grant
  <2>2. work'[p].step = t /\ work'[p].path = w.path /\ work'[p].d = w.d /\ w.path = "add"
    BY <1>a, <1>f, <1>19, <2>1, GotoFields DEF Grant, At, AddSteps
  <2>3. UNCHANGED <<row, database>> /\ Live' = Live
    BY <1>c, <1>19 DEF Grant, postgres, metabase
  <2>4. RowAgrees(work[p])'
    BY <1>a, <1>19, <2>1, <2>2, <2>3 DEF Grant, At, RowAgrees, HasDatabase
  <2> QED BY <1>d, <1>g, <2>2, <2>3, <2>4
<1>20. CASE CreateReread(p)
  <2>1. PICK t \in {"listDatabases", "setSynced"} : Goto(p, t)
    BY <1>20 DEF CreateReread
  <2>2. work'[p].step = t /\ work'[p].path = w.path /\ work'[p].d = w.d /\ w.path = "add"
    BY <1>a, <1>f, <1>20, <2>1, GotoFields DEF CreateReread, At, AddSteps
  <2>3. UNCHANGED <<row, database>> /\ Live' = Live
    BY <1>c, <1>20 DEF CreateReread, postgres, metabase
  <2>4. RowAgrees(work[p])'
    <3>1. t = "setSynced" <=> row.db # None
      BY <1>a, <1>20, <2>2, GotoFields DEF CreateReread
    <3> QED BY <2>1, <2>2, <2>3, <3>1 DEF RowAgrees, HasDatabase
  <2> QED BY <1>d, <1>g, <2>2, <2>3, <2>4
<1>21. CASE ListDatabases(p)
  <2>1. PICK t \in {"postDatabase", "wait"} :
          /\ work'[p].step = t /\ work'[p].path = w.path
          /\ t = "postDatabase" => Live = {}
          /\ t = "wait" => work'[p].d \in Live
    <3>1. CASE Live = {}
      <4>1. Goto(p, "postDatabase")
        BY <1>21, <3>1 DEF ListDatabases
      <4>2. work'[p].step = "postDatabase" /\ work'[p].path = w.path
        BY <1>a, <4>1, GotoFields
      <4> QED BY <3>1, <4>2
    <3>2. CASE Live # {}
      <4>1. PICK d \in Live : work' = [work EXCEPT ![p].step = "wait", ![p].d = d]
        BY <1>21, <3>2 DEF ListDatabases
      <4>2. work'[p].step = "wait" /\ work'[p].path = w.path /\ work'[p].d = d
        BY <1>a, <4>1 DEF Work
      <4> QED BY <4>2
    <3> QED BY <3>1, <3>2
  <2>2. UNCHANGED <<row, database>> /\ Live' = Live
    BY <1>c, <1>21 DEF ListDatabases, postgres, metabase
  <2>3. w.path = "add"
    BY <1>f, <1>21 DEF ListDatabases, At, AddSteps
  <2>4. row # None => row.db = None
    BY <1>a, <1>21 DEF ListDatabases, At, RowAgrees
  <2>5. \A d \in Live : d # None /\ Live \subseteq {d}
    BY <1>b, IdsAssumption DEF RowInv, Live
  <2>6. RowAgrees(work[p])'
    BY <2>1, <2>2, <2>4, <2>5 DEF RowAgrees, HasDatabase
  <2> QED BY <1>d, <1>g, <2>1, <2>2, <2>3, <2>6
<1>22. CASE PostDatabase(p)
  <2>1. PICK d \in Databases :
          /\ work'[p].step = "wait" /\ work'[p].path = w.path /\ work'[p].d = d
          /\ database' = [database EXCEPT ![d] = w.sa]
    <3>1. PICK d \in Databases : /\ work' = [work EXCEPT ![p].step = "wait", ![p].d = d]
                                 /\ database' = [database EXCEPT ![d] = w.sa]
      BY <1>22 DEF PostDatabase, FreshDatabases
    <3>2. work'[p].step = "wait" /\ work'[p].path = w.path /\ work'[p].d = d
      BY <1>a, <3>1 DEF Work
    <3> QED BY <3>1, <3>2
  <2>2. Live = {} /\ (row # None => row.db = None)
    BY <1>a, <1>22 DEF PostDatabase, At, RowAgrees
  <2>3. Live' \subseteq {d} /\ d # None
    BY <1>a, <2>1, <2>2, IdsAssumption DEF Live, TypeOK
  <2>4. w.path = "add" /\ row' = row
    BY <1>f, <1>22 DEF PostDatabase, At, AddSteps, postgres
  <2>5. RowInv'
    BY <1>b, <2>2, <2>3, <2>4 DEF RowInv, SyncedIsCreated
  <2>6. RowAgrees(work[p])'
    BY <2>1, <2>2, <2>3, <2>4 DEF RowAgrees, HasDatabase
  <2> QED BY <1>g, <2>1, <2>4, <2>5, <2>6
<1>23. CASE WaitForDatabase(p)
  <2>1. PICK t \in {"setDatabase"} : Goto(p, t)
    BY <1>23 DEF WaitForDatabase
  <2>2. work'[p].step = t /\ work'[p].path = w.path /\ work'[p].d = w.d /\ w.path = "add"
    BY <1>a, <1>f, <1>23, <2>1, GotoFields DEF WaitForDatabase, At, AddSteps
  <2>3. UNCHANGED <<row, database>> /\ Live' = Live
    BY <1>c, <1>23 DEF WaitForDatabase, postgres, metabase
  <2>4. RowAgrees(work[p])'
    BY <1>a, <1>23, <2>1, <2>2, <2>3 DEF WaitForDatabase, At, RowAgrees, HasDatabase
  <2> QED BY <1>d, <1>g, <2>2, <2>3, <2>4
<1>24. CASE TimesOut(p)
  <2>1. work'[p].step = "dropDatabase" /\ work'[p].path = "cleanup"
    BY <1>a, <1>24 DEF TimesOut, Work
  <2>2. UNCHANGED <<row, database>>
    BY <1>24 DEF TimesOut, postgres, metabase
  <2>3. RowAgrees(work[p])' /\ Taken(work[p])'
    BY <2>1 DEF RowAgrees, HasDatabase, Taken
  <2> QED BY <1>d, <2>2, <2>3
<1>25. CASE SetDatabase(p)
  <2>1. Goto(p, "setSynced") /\ row # None /\ row' = [row EXCEPT !.db = w.d]
        /\ database' = database
    BY <1>25 DEF SetDatabase, metabase
  <2>2. work'[p].step = "setSynced" /\ work'[p].path = w.path /\ w.path = "add"
    BY <1>a, <1>f, <1>25, <2>1, GotoFields DEF SetDatabase, At, AddSteps
  <2>3. w.d # None /\ Live \subseteq {w.d}
    BY <1>a, <1>25 DEF SetDatabase, At, RowAgrees
  <2>4. row'.db = w.d
    BY <1>b, <2>1 DEF Row
  <2>5. RowInv'
    BY <1>b, <1>c, <2>1, <2>3, <2>4 DEF RowInv, SyncedIsCreated
  <2>6. RowAgrees(work[p])'
    BY <2>2, <2>3, <2>4 DEF RowAgrees, HasDatabase
  <2> QED BY <1>g, <2>2, <2>5, <2>6
<1>26. CASE SetSynced(p)
  <2>1. work'[p].step = "idle" /\ work'[p].path = "add"
    BY <1>a, <1>26, StartFields DEF SetSynced
  <2>2. row # None => row.db # None
    BY <1>a, <1>26 DEF SetSynced, At, RowAgrees, HasDatabase
  <2>3. row' # None => row # None /\ row'.db = row.db
    BY <1>b, <1>26 DEF SetSynced, Row
  <2>4. RowInv'
    BY <1>b, <1>c, <1>26, <2>2, <2>3 DEF SetSynced, metabase, RowInv, SyncedIsCreated
  <2>5. RowAgrees(work[p])' /\ Taken(work[p])'
    BY <2>1 DEF RowAgrees, HasDatabase, Taken
  <2> QED BY <2>4, <2>5
<1> QED
    BY <1>1, <1>2, <1>3, <1>4, <1>5, <1>6, <1>7, <1>8, <1>9, <1>10,
       <1>11, <1>12, <1>13, <1>14, <1>15, <1>16, <1>17, <1>18, <1>19, <1>20,
       <1>21, <1>22, <1>23, <1>24, <1>25, <1>26 DEF Add

\* Every step of a removal or a clean-up keeps the invariant.
LEMMA RemoveKeeps ==
    ASSUME MapperInv, NEW p \in Pods, Remove(p)
    PROVE  RowInv' /\ RowAgrees(work[p])' /\ Taken(work[p])'
<1> DEFINE w == work[p]
<1>a. /\ TypeOK /\ w \in Work /\ Fits(w)
      /\ RowAgrees(w) /\ Taken(w)
      /\ work \in [Pods -> Work]
    BY DEF MapperInv, TypeInv, TypeOK
<1>b. RowInv
    BY DEF MapperInv
<1>c. database' = database => Live' = Live
    BY DEF Live
<1>d. ASSUME UNCHANGED <<row, database>>
      PROVE  RowInv'
    BY <1>b, <1>c, <1>d DEF RowInv, SyncedIsCreated
<1>e. ASSUME Done(p)
      PROVE  RowAgrees(work[p])' /\ Taken(work[p])'
    BY <1>a, <1>e, StartFields DEF RowAgrees, Taken, HasDatabase
<1>f. ASSUME MapDataset(p, "remove")
      PROVE  RowAgrees(work[p])' /\ Taken(work[p])'
    BY <1>a, <1>f, StartFields DEF RowAgrees, Taken, HasDatabase, RemoveSteps
<1>g. None \notin Groups \cup Collections \cup Databases
    BY IdsAssumption
<1>1. CASE RemoveRead(p)
  <2>1. UNCHANGED <<row, database, groups, archived, account, iam>>
    BY <1>1 DEF RemoveRead, postgres, metabase, google
  <2>2. w.path = "remove" /\ w.c = None
    BY <1>a, <1>1 DEF RemoveRead, At, Fits, FitsStep, Taken
  <2>3. CASE row = None
    BY <1>d, <1>e, <1>1, <2>1, <2>3 DEF RemoveRead
  <2>4. CASE row # None /\ isRestrictedDatabase(row)
    <3>1. /\ work'[p].step = "revokeIam" /\ work'[p].path = w.path /\ work'[p].sa = row.sa
          /\ work'[p].g = row.group /\ work'[p].c = row.coll /\ work'[p].d = row.db
      <4>1. work' = [work EXCEPT ![p].step = "revokeIam", ![p].sa = row.sa,
                          ![p].g = row.group, ![p].c = row.coll, ![p].d = row.db]
        BY <1>1, <2>4 DEF RemoveRead
      <4> QED BY <1>a, <4>1 DEF Work
    <3>2. RowAgrees(work[p])' /\ Taken(work[p])'
      BY <2>1, <2>4, <3>1 DEF RowAgrees, HasDatabase, Taken, RemoveSteps, isRestrictedDatabase
    <3> QED BY <1>d, <2>1, <3>2
  <2>5. CASE row # None /\ ~ isRestrictedDatabase(row)
    <3>1. /\ work'[p].step = "dropDatabase" /\ work'[p].path = w.path
          /\ work'[p].c = w.c /\ work'[p].d = row.db
      <4>1. work' = [work EXCEPT ![p].step = "dropDatabase", ![p].d = row.db]
        BY <1>1, <2>5 DEF RemoveRead
      <4> QED BY <1>a, <4>1 DEF Work
    <3>2. RowAgrees(work[p])' /\ Taken(work[p])'
      BY <2>1, <2>2, <2>5, <3>1 DEF RowAgrees, HasDatabase, Taken, RemoveSteps, isRestrictedDatabase
    <3> QED BY <1>d, <2>1, <3>2
  <2> QED BY <2>3, <2>4, <2>5
<1>2. CASE RevokeIam(p)
  <2>1. UNCHANGED <<row, database, groups, archived, account>>
    BY <1>2 DEF RevokeIam, postgres, metabase
  <2>2. /\ work'[p].step = "dropAccount" /\ work'[p].path = w.path /\ work'[p].sa = w.sa
        /\ work'[p].g = w.g /\ work'[p].c = w.c /\ work'[p].d = w.d
    BY <1>a, <1>2, GotoFields DEF RevokeIam
  <2>3. RowAgrees(work[p])' /\ Taken(work[p])'
    BY <1>a, <1>2, <2>1, <2>2 DEF RevokeIam, At, RowAgrees, HasDatabase, Taken, RemoveSteps,
                                  isRestrictedDatabase
  <2> QED BY <1>d, <2>1, <2>3
<1>3. CASE DropAccount(p)
  <2>1. UNCHANGED <<row, database, groups, archived>>
    BY <1>3 DEF DropAccount, postgres, metabase
  <2>2. CASE w.path = "cleanup"
    BY <1>d, <1>f, <1>3, <2>1, <2>2 DEF DropAccount
  <2>3. CASE w.path # "cleanup"
    <3>1. /\ work'[p].step = "dropGroup" /\ work'[p].path = w.path /\ work'[p].sa = w.sa
          /\ work'[p].g = w.g /\ work'[p].c = w.c /\ work'[p].d = w.d
      BY <1>a, <1>3, <2>3, GotoFields DEF DropAccount
    <3>2. w.path # "add"
      BY <1>a, <1>3 DEF DropAccount, At, Fits, FitsStep
    <3>3. w.sa = "own" => ~ account' /\ "own" \notin iam'
      BY <1>3 DEF DropAccount
    <3>4. RowAgrees(work[p])' /\ Taken(work[p])'
      BY <1>a, <1>3, <2>1, <3>1, <3>2, <3>3 DEF DropAccount, At, RowAgrees, HasDatabase, Taken,
                                    RemoveSteps, isRestrictedDatabase
    <3> QED BY <1>d, <2>1, <3>4
  <2> QED BY <2>2, <2>3
<1>4. CASE DropGroup(p)
  <2>1. UNCHANGED <<row, database, archived, account, iam>> /\ groups' = groups \ {w.g}
    BY <1>4 DEF DropGroup, postgres, google
  <2>2. PICK t \in {"setGroupOpen", "archive"} :
          Goto(p, t) /\ (t = "setGroupOpen" <=> w.path = "add")
    BY <1>4 DEF DropGroup
  <2>3. /\ work'[p].step = t /\ work'[p].path = w.path /\ work'[p].sa = w.sa
        /\ work'[p].g = w.g /\ work'[p].c = w.c /\ work'[p].d = w.d
    BY <1>a, <2>2, GotoFields
  <2>4. RowAgrees(work[p])'
    BY <1>a, <1>4, <2>1, <2>2, <2>3 DEF DropGroup, At, RowAgrees, HasDatabase
  <2>5. Taken(work[p])'
    BY <1>a, <1>4, <2>1, <2>2, <2>3 DEF DropGroup, At, Taken, RemoveSteps, isRestrictedDatabase
  <2> QED BY <1>d, <2>1, <2>4, <2>5
<1>5. CASE ArchiveCollection(p)
  <2>1. UNCHANGED <<row, database, groups, account, iam>> /\ archived' = archived \cup {w.c}
    BY <1>5 DEF ArchiveCollection, postgres, google
  <2>2. PICK t \in {"dropAccount", "dropDatabase"} :
          Goto(p, t) /\ (t = "dropAccount" <=> w.path = "cleanup")
    BY <1>5 DEF ArchiveCollection
  <2>3. /\ work'[p].step = t /\ work'[p].path = w.path /\ work'[p].sa = w.sa
        /\ work'[p].g = w.g /\ work'[p].c = w.c /\ work'[p].d = w.d
    BY <1>a, <2>2, GotoFields
  <2>4. RowAgrees(work[p])'
    BY <2>2, <2>3 DEF RowAgrees, HasDatabase
  <2>5. Taken(work[p])'
    BY <1>a, <1>5, <2>1, <2>2, <2>3 DEF ArchiveCollection, At, Taken, RemoveSteps,
                                        isRestrictedDatabase
  <2> QED BY <1>d, <2>1, <2>4, <2>5
<1>6. CASE DropDatabase(p)
  <2>1. UNCHANGED <<row, groups, archived, account, iam>>
    BY <1>6 DEF DropDatabase, postgres, google
  <2>2. Live' \subseteq Live /\ w.d \notin Live'
    BY <1>6 DEF DropDatabase, Live
  <2>3. RowInv'
    BY <1>b, <2>1, <2>2 DEF RowInv, SyncedIsCreated
  <2>4. CASE w.path = "cleanup"
    <3>1. CASE w.c = 0
      BY <1>f, <1>6, <2>3, <2>4, <3>1 DEF DropDatabase
    <3>2. CASE w.c # 0
      <4>1. work'[p].step = "dropGroup" /\ work'[p].path = w.path
        BY <1>a, <1>6, <2>4, <3>2, GotoFields DEF DropDatabase
      <4>2. RowAgrees(work[p])' /\ Taken(work[p])'
        BY <2>4, <4>1 DEF RowAgrees, HasDatabase, Taken
      <4> QED BY <2>3, <4>2
    <3> QED BY <3>1, <3>2
  <2>5. CASE w.path # "cleanup"
    <3>1. Goto(p, IF w.c = None THEN "deleteRow" ELSE "readMapping")
      BY <1>6, <2>5 DEF DropDatabase
    <3>2. /\ work'[p].step = IF w.c = None THEN "deleteRow" ELSE "readMapping"
          /\ work'[p].path = w.path /\ work'[p].sa = w.sa
          /\ work'[p].g = w.g /\ work'[p].c = w.c /\ work'[p].d = w.d
      BY <1>a, <3>1, GotoFields
    <3>3. RowAgrees(work[p])'
      BY <3>2 DEF RowAgrees, HasDatabase
    <3>4. Taken(work[p])'
      BY <1>a, <1>6, <2>1, <2>2, <3>2 DEF DropDatabase, At, Taken, RemoveSteps, isRestrictedDatabase
    <3> QED BY <2>3, <3>3, <3>4
  <2> QED BY <2>4, <2>5
<1>7. CASE ReadMapping(p)
  <2>1. UNCHANGED <<row, database, groups, archived, account, iam>> /\ Live' = Live
    BY <1>c, <1>7 DEF ReadMapping, postgres, metabase, google
  <2>2. /\ work'[p].step = "deleteRow" /\ work'[p].path = w.path /\ work'[p].sa = w.sa
        /\ work'[p].g = w.g /\ work'[p].c = w.c /\ work'[p].d = w.d
    BY <1>a, <1>7 DEF ReadMapping, Work
  <2>3. RowAgrees(work[p])' /\ Taken(work[p])'
    BY <1>a, <1>7, <2>1, <2>2 DEF ReadMapping, At, RowAgrees, HasDatabase, Taken, RemoveSteps,
                                  isRestrictedDatabase
  <2> QED BY <1>d, <2>1, <2>3
<1>8. CASE DeleteRow(p)
  <2>1. row' = None /\ Live' = Live /\ Done(p)
    BY <1>c, <1>8 DEF DeleteRow
  <2>2. RowInv'
    BY <1>b, <2>1 DEF RowInv, SyncedIsCreated
  <2> QED BY <1>e, <2>1, <2>2
<1> QED BY <1>1, <1>2, <1>3, <1>4, <1>5, <1>6, <1>7, <1>8 DEF Remove

\* The access of all users changes only whether a row is soft-deleted, and
\* takes grants away.
LEMMA AccessKeeps ==
    ASSUME MapperInv, AccessOfAllUsers
    PROVE  RowInv' /\ \A p \in Pods : RowAgrees(work[p])' /\ Taken(work[p])'
<1>1. /\ UNCHANGED <<database, groups, archived, account, work>>
      /\ row' = row \/ (row # None /\ row' = [row EXCEPT !.deleted = TRUE])
      /\ iam' \subseteq iam
    BY DEF AccessOfAllUsers, AllUsersGranted, RevokeAllUsers, AllUsersExpires,
       RevokeMetabaseAccess, SoftRevokeIam, SoftDelete, RevokeRow, JobFails, postgres, metabase,
       google
<1>2. Live' = Live
    BY <1>1 DEF Live
<1>3. row # None => row \in Row
    BY DEF MapperInv, TypeInv, TypeOK
<1>4. /\ (row' = None) = (row = None)
      /\ row # None => /\ row'.db = row.db /\ row'.synced = row.synced /\ row'.coll = row.coll
                       /\ row'.group = row.group /\ row'.sa = row.sa
    <2>1. CASE row' = row
      BY <2>1
    <2>2. CASE row # None /\ row' = [row EXCEPT !.deleted = TRUE]
      <3>1. row' \in Row
        BY <1>3, <2>2, RowTyped
      <3>2. None \notin Row
        BY RowAssumption
      <3> QED BY <1>3, <2>2, <3>1, <3>2 DEF Row
    <2> QED BY <1>1, <2>1, <2>2
<1>5. RowInv'
    BY <1>2, <1>4 DEF MapperInv, RowInv, SyncedIsCreated
<1>6. ASSUME NEW p \in Pods
      PROVE  RowAgrees(work[p])' /\ Taken(work[p])'
  <2>1. RowAgrees(work[p]) /\ Taken(work[p])
    BY DEF MapperInv
  <2> QED BY <1>1, <1>2, <1>4, <2>1 DEF RowAgrees, Taken, isRestrictedDatabase
<1> QED BY <1>5, <1>6

\* Requests, and work that begins or ends early, change nothing that a mapper
\* has seen.
LEMMA OthersKeep ==
    ASSUME MapperInv,
           \/ \E p \in Pods, m \in BOOLEAN : CreateMappingRequest(p, m) \/ TakeWork(p, m)
           \/ \E p \in Pods : Tick(p) \/ MapperFails(p) \/ Crash(p)
    PROVE  RowInv' /\ \A p \in Pods : RowAgrees(work[p])' /\ Taken(work[p])'
<1>1. UNCHANGED <<row, database, groups, archived, account, iam>>
    BY DEF CreateMappingRequest, TakeWork, Tick, MapperFails, Crash, postgres, metabase, google
<1>2. Live' = Live
    BY <1>1 DEF Live
<1>3. RowInv'
    BY <1>1, <1>2 DEF MapperInv, RowInv, SyncedIsCreated
<1>4. ASSUME NEW p \in Pods
      PROVE  \/ work'[p] = work[p]
             \/ work'[p].step \in {"idle", "start"} /\ (work'[p].path = "remove" => work'[p].c = None)
  <2>1. TypeOK /\ work \in [Pods -> Work]
    BY DEF MapperInv, TypeInv, TypeOK
  <2>2. PICK q \in Pods : \/ work' = work
                         \/ work' = [work EXCEPT ![q] = Idle]
                         \/ MapDataset(q, "add") \/ MapDataset(q, "remove")
    BY DEF CreateMappingRequest, TakeWork, Tick, MapperFails, Crash, Done
  <2>3. CASE q # p
    BY <2>1, <2>2, <2>3 DEF MapDataset
  <2>4. CASE q = p
    <3>1. CASE work' = [work EXCEPT ![p] = Idle]
      BY <2>1, <3>1 DEF Idle
    <3>2. CASE MapDataset(p, "add") \/ MapDataset(p, "remove")
      BY <2>1, <3>2, StartFields
    <3> QED BY <2>2, <2>4, <3>1, <3>2
  <2> QED BY <2>3, <2>4
<1>5. ASSUME NEW p \in Pods
      PROVE  RowAgrees(work[p])' /\ Taken(work[p])'
  <2>1. RowAgrees(work[p]) /\ Taken(work[p])
    BY DEF MapperInv
  <2>2. CASE work'[p] = work[p]
    BY <1>1, <1>2, <2>1, <2>2 DEF RowAgrees, Taken, isRestrictedDatabase
  <2>3. CASE work'[p].step \in {"idle", "start"} /\ (work'[p].path = "remove" => work'[p].c = None)
    BY <2>3 DEF RowAgrees, Taken, HasDatabase, RemoveSteps
  <2> QED BY <1>4, <2>2, <2>3
<1> QED BY <1>3, <1>5

\* Every step keeps the invariant of a single mapper.
LEMMA MapperStep ==
    ASSUME OneMapper, MapperInv, Next \/ UNCHANGED vars
    PROVE  MapperInv'
<1>1. TypeInv'
    BY TypeStep DEF MapperInv
<1>2. CASE UNCHANGED vars
  <2>1. UNCHANGED <<row, database, groups, archived, account, iam, work>> /\ Live' = Live
    BY <1>2 DEF vars, postgres, metabase, google, Live
  <2>2. RowInv'
    BY <2>1 DEF MapperInv, RowInv, SyncedIsCreated
  <2>3. \A p \in Pods : RowAgrees(work[p])' /\ Taken(work[p])'
    BY <2>1 DEF MapperInv, RowAgrees, Taken, isRestrictedDatabase
  <2> QED BY <1>1, <2>2, <2>3 DEF MapperInv
<1>3. ASSUME NEW p \in Pods, Add(p) \/ Remove(p)
      PROVE  MapperInv'
  <2>1. RowInv' /\ RowAgrees(work[p])' /\ Taken(work[p])'
    BY <1>3, AddKeeps, RemoveKeeps
  <2>2. \A q \in Pods : RowAgrees(work[q])' /\ Taken(work[q])'
    <3>1. \A q \in Pods : q = p
      BY DEF OneMapper
    <3> QED BY <2>1, <3>1
  <2> QED BY <1>1, <2>1, <2>2 DEF MapperInv
<1>4. CASE AccessOfAllUsers
    BY <1>1, <1>4, AccessKeeps DEF MapperInv
<1>5. CASE \/ \E p \in Pods, m \in BOOLEAN : CreateMappingRequest(p, m) \/ TakeWork(p, m)
           \/ \E p \in Pods : Tick(p) \/ MapperFails(p) \/ Crash(p)
    BY <1>1, <1>5, OthersKeep DEF MapperInv
<1> QED BY <1>2, <1>3, <1>4, <1>5 DEF Next

\* Before the first request there is neither row nor database.
LEMMA MapperInit == Init => MapperInv
<1> SUFFICES ASSUME Init PROVE MapperInv
    OBVIOUS
<1>1. Live = {} /\ row = None
    BY DEF Init, Live
<1>2. RowInv
    BY <1>1 DEF RowInv, SyncedIsCreated
<1>3. ASSUME NEW p \in Pods
      PROVE  RowAgrees(work[p]) /\ Taken(work[p])
  <2>1. work[p].step = "idle" /\ work[p].path = "add"
    BY DEF Init, Idle
  <2> QED BY <2>1 DEF RowAgrees, Taken, HasDatabase
<1> QED BY <1>2, <1>3, TypeInit DEF MapperInv

\* What a single mapper keeps, however its attempts end and wherever the next
\* begins.
THEOREM Invariant == OneMapper => (Spec => []MapperInv)
<1>1. ASSUME OneMapper PROVE Spec => []MapperInv
  <2>1. MapperInv /\ [Next]_vars => MapperInv'
    BY <1>1, MapperStep
  <2> QED BY <2>1, MapperInit, PTL DEF Spec
<1> QED BY <1>1

\* A row that is synced names a database.
THEOREM SyncedNamesDatabase == OneMapper => (Spec => []SyncedIsCreated)
<1>1. MapperInv => SyncedIsCreated
    BY DEF MapperInv, RowInv
<1> QED BY <1>1, Invariant, PTL

\* The dataset has one database at most in Metabase, and none beside the one
\* that its row names.
THEOREM OneDatabaseEver == OneMapper => (Spec => []OneDatabase)
<1>1. ASSUME MapperInv PROVE OneDatabase
  <2>1. /\ \A d, e \in Live : d = e
        /\ (row # None /\ row.db # None) => Live \subseteq {row.db}
    BY <1>1 DEF MapperInv, RowInv
  <2>2. CASE Live = {}
    BY <2>1, <2>2, FS_EmptySet DEF OneDatabase
  <2>3. CASE Live # {}
    <3>1. PICK d : Live = {d}
      BY <2>1, <2>3
    <3>2. Cardinality(Live) = 1
      BY <3>1, FS_Singleton
    <3> QED BY <2>1, <3>2 DEF OneDatabase
  <2> QED BY <2>2, <2>3
<1> QED BY <1>1, Invariant, PTL

\* Only the last step of a removal makes a row go away.
LEMMA OnlyDeleteRowDeletes ==
    ASSUME TypeInv, Next, row # None, row' = None
    PROVE  \E p \in Pods : DeleteRow(p)
<1>a. row \in Row
    BY DEF TypeInv, TypeOK
<1>1. CASE \E p \in Pods : Add(p)
  <2>1. PICK p \in Pods : Add(p)
    BY <1>1
  <2>2. /\ work[p].g \in Groups \cup {0, None} /\ work[p].c \in Collections \cup {0, None}
        /\ work[p].d \in Databases \cup {None}
    BY DEF TypeInv, TypeOK, Work
  <2>3. \/ row' = row
        \/ row' = [row EXCEPT !.coll = 0]
        \/ row' = [row EXCEPT !.group = 0]
        \/ row' = [row EXCEPT !.deleted = FALSE]
        \/ row' = [row EXCEPT !.synced = TRUE]
        \/ row' = [row EXCEPT !.sa = "own"]
        \/ row' = [row EXCEPT !.group = work[p].g]
        \/ row' = [row EXCEPT !.coll = work[p].c]
        \/ row' = [row EXCEPT !.db = work[p].d]
    BY <2>1 DEF Add, Start, InsertRow, ChoosePath, OpenRead, SetOpen, OpenAccess,
       SetGroupOpen, RestrictedRead, RestoreGrant, RestoreRow, AddMembers, CreateRead,
       GetOrCreatePermissionGroup, SetGroup, CreateCollectionWithAccess, SetCollection,
       EnsureAccount, SetAccount, Grant, CreateReread, ListDatabases, PostDatabase,
       WaitForDatabase, TimesOut, SetDatabase, SetSynced, postgres
  <2>4. row' \in Row
    BY <1>a, <2>2, <2>3, RowTyped
  <2> QED BY <2>4, RowAssumption
<1>2. CASE \E p \in Pods : Remove(p)
    BY <1>2 DEF Remove, RemoveRead, RevokeIam, DropAccount, DropGroup, ArchiveCollection,
       DropDatabase, ReadMapping, postgres
<1>3. CASE AccessOfAllUsers
  <2>1. row' = row \/ row' = [row EXCEPT !.deleted = TRUE]
    BY <1>3 DEF AccessOfAllUsers, AllUsersGranted, RevokeAllUsers, AllUsersExpires,
       RevokeMetabaseAccess, SoftRevokeIam, SoftDelete, RevokeRow, JobFails, postgres
  <2>2. row' \in Row
    BY <1>a, <2>1, RowTyped
  <2> QED BY <2>2, RowAssumption
<1>4. CASE \/ \E p \in Pods, m \in BOOLEAN : CreateMappingRequest(p, m) \/ TakeWork(p, m)
           \/ \E p \in Pods : Tick(p) \/ MapperFails(p) \/ Crash(p)
    BY <1>4 DEF CreateMappingRequest, TakeWork, Tick, MapperFails, Crash, postgres
<1> QED BY <1>1, <1>2, <1>3, <1>4 DEF Next

\* When the row of a restricted database goes away, all that it names is gone.
THEOREM RemovalLeavesNothing == OneMapper => (Spec => RemovalIsComplete)
<1> DEFINE Complete ==
      (row # None /\ isRestrictedDatabase(row) /\ row' = None) =>
          /\ row.db # None => row.db \notin Live
          /\ row.group \notin groups
          /\ row.coll \in archived
          /\ row.sa = "own" => ~ account /\ "own" \notin iam
<1>1. ASSUME MapperInv, [Next]_vars
      PROVE  [Complete]_vars
  <2> SUFFICES ASSUME Next, row # None, isRestrictedDatabase(row), row' = None
               PROVE  /\ row.db # None => row.db \notin Live
                      /\ row.group \notin groups
                      /\ row.coll \in archived
                      /\ row.sa = "own" => ~ account /\ "own" \notin iam
    BY <1>1
  <2>1. PICK p \in Pods : DeleteRow(p)
    BY <1>1, OnlyDeleteRowDeletes DEF MapperInv
  <2>2. work[p].step = "deleteRow" /\ work[p].path = "remove" /\ Taken(work[p])
    BY <1>1, <2>1 DEF DeleteRow, At, MapperInv, TypeInv, Fits, FitsStep
  <2>3. work[p].c = row.coll /\ work[p].c # None
    BY <2>2 DEF Taken, RemoveSteps, isRestrictedDatabase
  <2> QED BY <2>2, <2>3 DEF Taken, RemoveSteps
<1> QED BY <1>1, Invariant, PTL DEF Spec, RemovalIsComplete
-----------------------------------------------------------------------------
(* What a synced dataset can be queried by *)

\* No removal has taken anything away from the database that is there.
Standing == excuses \cap {"removal", "orphan"} = {}

\* An account may read the table, but for a revocation that was not restored.
MayQuery(a) == a \in iam \/ (a = "own" /\ "revoked" \in excuses)

\* The steps between the grant and the database, and those that hold a database
Granting == {"createReread", "listDatabases", "postDatabase"}
Holding == {"wait", "setDatabase"}

\* Until a removal begins, the row's database is there, and so is the one that a
\* mapper has found or made; each may be queried, and the next one will.
WorksInv == Standing =>
    /\ (row # None /\ row.db # None) => row.db \in Live
    /\ \A d \in Live : MayQuery(database[d])
    /\ \A p \in Pods : /\ work[p].step \in Granting => MayQuery(work[p].sa)
                       /\ work[p].step \in Holding => work[p].d \in Live

\* What a step that makes no database and takes none away does to WorksInv
LEMMA WorksKept ==
    ASSUME WorksInv, Standing' => Standing, Live' = Live,
           \A d \in Live : database'[d] = database[d],
           \A a \in {"own", "shared"} : MayQuery(a) => MayQuery(a)',
           \A d \in Live : database[d] \in {"own", "shared"},
           (row' # None /\ row'.db # None) => \/ row # None /\ row'.db = row.db
                                              \/ row'.db \in Live,
           \A p \in Pods :
               /\ work'[p].step \in Granting =>
                     \/ work[p].step \in Granting /\ work'[p].sa = work[p].sa
                        /\ work[p].sa \in {"own", "shared"}
                     \/ MayQuery(work[p].sa)'
               /\ work'[p].step \in Holding =>
                     \/ work[p].step \in Holding /\ work'[p].d = work[p].d
                     \/ work'[p].d \in Live
    PROVE  WorksInv'
<1> SUFFICES ASSUME Standing'
             PROVE  /\ (row' # None /\ row'.db # None) => row'.db \in Live
                    /\ \A d \in Live : MayQuery(database[d])'
                    /\ \A p \in Pods : /\ work'[p].step \in Granting => MayQuery(work[p].sa)'
                                       /\ work'[p].step \in Holding => work'[p].d \in Live
    BY DEF WorksInv
<1>1. /\ (row # None /\ row.db # None) => row.db \in Live
      /\ \A d \in Live : MayQuery(database[d])
      /\ \A p \in Pods : /\ work[p].step \in Granting => MayQuery(work[p].sa)
                         /\ work[p].step \in Holding => work[p].d \in Live
    BY DEF WorksInv
<1>2. \A d \in Live : MayQuery(database[d])'
    <2>1. ASSUME NEW d \in Live PROVE MayQuery(database[d])'
      <3>1. PICK a \in {"own", "shared"} : database[d] = a
        OBVIOUS
      <3>2. MayQuery(a)'
        BY <1>1, <3>1
      <3> QED BY <3>1, <3>2
    <2> QED BY <2>1
<1>3. ASSUME NEW p \in Pods, work'[p].step \in Granting
      PROVE  MayQuery(work[p].sa)'
    <2>1. CASE /\ work[p].step \in Granting /\ work'[p].sa = work[p].sa
               /\ work[p].sa \in {"own", "shared"}
      <3>1. PICK a \in {"own", "shared"} : work[p].sa = a
        BY <2>1
      <3>2. MayQuery(a)'
        BY <1>1, <2>1, <3>1
      <3> QED BY <2>1, <3>1, <3>2
    <2> QED BY <1>3, <2>1
<1> QED BY <1>1, <1>2, <1>3
\* Every step of a mapping keeps WorksInv.
LEMMA AddWorks ==
    ASSUME OneMapper, MapperInv, WorksInv, NEW p \in Pods, Add(p)
    PROVE  WorksInv'
<1> DEFINE w == work[p]
<1>a. /\ TypeOK /\ w \in Work /\ Fits(w) /\ RowAgrees(w)
      /\ work \in [Pods -> Work]
      /\ row # None => row \in Row
    BY DEF MapperInv, TypeInv, TypeOK
<1>b. \A q \in Pods : q = p
    BY DEF OneMapper
<1>w. \A v : work' = [work EXCEPT ![p] = v] => work'[p] = v
    BY <1>a
<1>c. \A d \in Live : database[d] \in {"own", "shared"}
    BY <1>a DEF TypeOK, Live, Accounts
<1>d. ASSUME UNCHANGED <<database, iam, excuses>>,
             (row' # None /\ row'.db # None) => row # None /\ row'.db = row.db,
             \/ work'[p].step \notin Granting \cup Holding
             \/ /\ work[p].step \in Granting /\ work'[p].step \in Granting
                /\ work'[p].sa = work[p].sa /\ work[p].sa \in {"own", "shared"}
             \/ /\ work'[p].step \in Holding
                /\ \/ work[p].step \in Holding /\ work'[p].d = work[p].d
                   \/ work'[p].d \in Live
      PROVE  WorksInv'
  <2>1. (Standing' => Standing) /\ Live' = Live
    BY <1>d DEF Standing, Live
  <2>2. \A a \in {"own", "shared"} : MayQuery(a) => MayQuery(a)'
    BY <1>d DEF MayQuery
  <2>3. Granting \cap Holding = {}
    BY DEF Granting, Holding
  <2>4. \A q \in Pods :
            /\ work'[q].step \in Granting =>
                  \/ work[q].step \in Granting /\ work'[q].sa = work[q].sa
                     /\ work[q].sa \in {"own", "shared"}
                  \/ MayQuery(work[q].sa)'
            /\ work'[q].step \in Holding =>
                  \/ work[q].step \in Holding /\ work'[q].d = work[q].d
                  \/ work'[q].d \in Live
    BY <1>b, <1>d, <2>3
  <2> QED BY <1>c, <1>d, <2>1, <2>2, <2>4, WorksKept
<1>1. CASE Start(p) \/ ChoosePath(p) \/ OpenAccess(p) \/ AddMembers(p) \/ EnsureAccount(p)
  <2>1. UNCHANGED <<row, database, iam, excuses>>
    BY <1>1 DEF Start, ChoosePath, OpenAccess, AddMembers, EnsureAccount, postgres, metabase, google
  <2>2. work'[p].step \notin Granting \cup Holding
    BY <1>1, <1>a, GotoFields DEF Start, ChoosePath, OpenAccess, AddMembers, EnsureAccount,
       FirstStep, Granting, Holding
  <2> QED BY <1>d, <2>1, <2>2
<1>2. CASE OpenRead(p) \/ RestrictedRead(p) \/ CreateRead(p)
  <2>1. UNCHANGED <<row, database, iam, excuses>>
    BY <1>2 DEF OpenRead, RestrictedRead, CreateRead, postgres, metabase, google
  <2>2. work'[p].step \notin Granting \cup Holding
    <3>1. CASE OpenRead(p)
      <4>1. \/ Goto(p, "setOpen") \/ Goto(p, "setSynced")
            \/ work' = [work EXCEPT ![p] = [w EXCEPT !.step = "openAccess", !.g = row.group]]
        BY <3>1 DEF OpenRead
      <4>2. work'[p].step \in {"setOpen", "setSynced", "openAccess"}
        BY <1>a, <1>w, <4>1, GotoFields DEF Work
      <4> QED BY <4>2 DEF Granting, Holding
    <3>2. CASE RestrictedRead(p)
      <4>1. \/ Goto(p, "createRead") \/ Goto(p, "addMembers")
            \/ work' = [work EXCEPT ![p] = [w EXCEPT !.step = "restoreGrant", !.sa = row.sa]]
        BY <3>2 DEF RestrictedRead
      <4>2. work'[p].step \in {"createRead", "addMembers", "restoreGrant"}
        BY <1>a, <1>w, <4>1, GotoFields DEF Work
      <4> QED BY <4>2 DEF Granting, Holding
    <3>3. CASE CreateRead(p)
      <4>1. \/ Goto(p, "getGroup")
            \/ work' = [work EXCEPT ![p] = [w EXCEPT !.step = AfterGroup(row), !.g = row.group]]
        BY <3>3 DEF CreateRead
      <4>2. work'[p].step \in {"getGroup", "createCollection", "ensureAccount"}
        BY <1>a, <1>w, <4>1, GotoFields DEF Work, AfterGroup
      <4> QED BY <4>2 DEF Granting, Holding
    <3> QED BY <1>2, <3>1, <3>2, <3>3
  <2> QED BY <1>d, <2>1, <2>2
<1>3. CASE GetOrCreatePermissionGroup(p) \/ CreateCollectionWithAccess(p)
  <2>1. UNCHANGED <<row, database, iam, excuses>>
    BY <1>3 DEF GetOrCreatePermissionGroup, CreateCollectionWithAccess, postgres, google
  <2>2. work'[p].step \in {"setGroup", "setCollection"}
    <3>1. CASE GetOrCreatePermissionGroup(p)
      <4>1. PICK g : work' = [work EXCEPT ![p] = [w EXCEPT !.step = "setGroup", !.g = g]]
        BY <3>1 DEF GetOrCreatePermissionGroup
      <4> QED BY <1>a, <1>w, <4>1 DEF Work
    <3>2. CASE CreateCollectionWithAccess(p)
      BY <3>2, <1>a DEF CreateCollectionWithAccess, Work
    <3> QED BY <1>3, <3>1, <3>2
  <2>3. work'[p].step \notin Granting \cup Holding
    BY <2>2 DEF Granting, Holding
  <2> QED BY <1>d, <2>1, <2>3
<1>4. CASE InsertRow(p)
  <2>1. row' = NewRow /\ UNCHANGED <<database, iam, excuses>>
    BY <1>4 DEF InsertRow, metabase, google
  <2>2. work'[p].step \notin Granting \cup Holding
    BY <1>4, <1>a, GotoFields DEF InsertRow, FirstStep, Granting, Holding
  <2>3. row'.db = None
    BY <2>1 DEF NewRow
  <2> QED BY <1>d, <2>1, <2>2, <2>3
<1>5. CASE SetOpen(p) \/ SetGroupOpen(p) \/ RestoreRow(p) \/ SetGroup(p) \/ SetCollection(p)
           \/ SetAccount(p) \/ SetSynced(p)
  <2>1. UNCHANGED <<database, iam, excuses>>
    BY <1>5 DEF SetOpen, SetGroupOpen, RestoreRow, SetGroup, SetCollection, SetAccount,
       SetSynced, metabase, google
  <2>2. (row' # None /\ row'.db # None) => row # None /\ row'.db = row.db
    BY <1>5, <1>a DEF SetOpen, SetGroupOpen, RestoreRow, SetGroup, SetCollection, SetAccount,
       SetSynced, Row
  <2>3. work'[p].step \notin Granting \cup Holding
    <3>1. CASE SetOpen(p)
      BY <3>1, <1>a DEF SetOpen, Granting, Holding, Work
    <3>2. CASE SetAccount(p)
      BY <3>2, <1>a DEF SetAccount, Granting, Holding, Work
    <3>3. CASE SetSynced(p)
      BY <3>3, <1>a, StartFields DEF SetSynced, Granting, Holding
    <3>4. CASE SetGroupOpen(p) \/ RestoreRow(p) \/ SetGroup(p) \/ SetCollection(p)
      BY <3>4, <1>a, GotoFields DEF SetGroupOpen, RestoreRow, SetGroup, SetCollection, AfterGroup,
         Granting, Holding
    <3> QED BY <1>5, <3>1, <3>2, <3>3, <3>4
  <2> QED BY <1>d, <2>1, <2>2, <2>3
<1>6. CASE CreateReread(p)
  <2>1. UNCHANGED <<row, database, iam, excuses>>
    BY <1>6 DEF CreateReread, postgres, metabase, google
  <2>2. w.step = "createReread" /\ w.sa \in {"own", "shared"}
    BY <1>6, <1>a DEF CreateReread, At, Fits, FitsStep, CreateSteps, Accounts
  <2>3. work'[p].step \in {"listDatabases", "setSynced"} /\ work'[p].sa = w.sa
    BY <1>6, <1>a, GotoFields DEF CreateReread
  <2>4. \/ work'[p].step \notin Granting \cup Holding
        \/ w.step \in Granting /\ work'[p].step \in Granting
    BY <2>2, <2>3 DEF Granting, Holding
  <2> QED BY <1>d, <2>1, <2>2, <2>3, <2>4
<1>7. CASE ListDatabases(p)
  <2>1. UNCHANGED <<row, database, iam, excuses>>
    BY <1>7 DEF ListDatabases, postgres, metabase, google
  <2>2. w.step = "listDatabases" /\ w.sa \in {"own", "shared"}
    BY <1>7, <1>a DEF ListDatabases, At, Fits, FitsStep, CreateSteps, Accounts
  <2>3. \/ work'[p].step = "postDatabase" /\ work'[p].sa = w.sa
        \/ work'[p].step = "wait" /\ work'[p].d \in Live
    <3>1. CASE Goto(p, "postDatabase")
      BY <1>a, <3>1, GotoFields
    <3>2. CASE \E d \in Live : work' = [work EXCEPT ![p].step = "wait", ![p].d = d]
      <4>1. PICK d \in Live : work' = [work EXCEPT ![p] = [w EXCEPT !.step = "wait", !.d = d]]
        BY <3>2
      <4> QED BY <1>a, <1>w, <4>1 DEF Work
    <3> QED BY <1>7, <3>1, <3>2 DEF ListDatabases
  <2>4. \/ w.step \in Granting /\ work'[p].step \in Granting /\ work'[p].sa = w.sa
        \/ work'[p].step \in Holding /\ work'[p].d \in Live
    BY <2>2, <2>3 DEF Granting, Holding
  <2> QED BY <1>d, <2>1, <2>2, <2>4
<1>8. CASE WaitForDatabase(p) \/ TimesOut(p)
  <2>1. UNCHANGED <<row, database, iam, excuses>>
    BY <1>8 DEF WaitForDatabase, TimesOut, postgres, metabase, google
  <2>2. w.step = "wait" /\ work'[p].step \in {"setDatabase", "dropDatabase"} /\ work'[p].d = w.d
    <3>1. CASE WaitForDatabase(p)
      BY <1>a, <3>1, GotoFields DEF WaitForDatabase, At
    <3>2. CASE TimesOut(p)
      <4>1. work' = [work EXCEPT ![p] = [w EXCEPT !.step = "dropDatabase", !.path = "cleanup"]]
        BY <3>2 DEF TimesOut
      <4>2. work'[p] = [w EXCEPT !.step = "dropDatabase", !.path = "cleanup"]
        BY <1>w, <4>1
      <4>3. work'[p].step = "dropDatabase" /\ work'[p].d = w.d
        BY <1>a, <4>2 DEF Work
      <4> QED BY <3>2, <4>3 DEF TimesOut, At
    <3> QED BY <1>8, <3>1, <3>2
  <2>3. \/ work'[p].step \notin Granting \cup Holding
        \/ w.step \in Holding /\ work'[p].step \in Holding
    BY <2>2 DEF Granting, Holding
  <2> QED BY <1>d, <2>1, <2>2, <2>3
<1>9. CASE RestoreGrant(p)
  <2>1. /\ UNCHANGED <<row, database>> /\ iam' = iam \cup {"own"}
        /\ excuses' = excuses \ {"revoked"}
    BY <1>9 DEF RestoreGrant, postgres, metabase
  <2>2. (Standing' => Standing) /\ Live' = Live
    BY <2>1 DEF Standing, Live
  <2>3. \A a \in {"own", "shared"} : MayQuery(a) => MayQuery(a)'
    BY <2>1 DEF MayQuery
  <2>4. \A q \in Pods : work'[q].step \notin Granting \cup Holding
    BY <1>9, <1>a, <1>b, GotoFields DEF RestoreGrant, Granting, Holding
  <2> QED BY <1>c, <2>1, <2>2, <2>3, <2>4, WorksKept
<1>10. CASE Grant(p)
  <2>1. UNCHANGED <<row, database, excuses>> /\ iam' = iam \cup {w.sa}
    BY <1>10 DEF Grant, postgres, metabase
  <2>2. (Standing' => Standing) /\ Live' = Live
    BY <2>1 DEF Standing, Live
  <2>3. \A a \in {"own", "shared"} : MayQuery(a) => MayQuery(a)'
    BY <2>1 DEF MayQuery
  <2>4. work'[p].step = "createReread" /\ work'[p].sa = w.sa
    BY <1>10, <1>a, GotoFields DEF Grant
  <2>5. \A q \in Pods : work'[q].step \notin Holding /\ MayQuery(work[q].sa)'
    BY <1>b, <2>1, <2>4 DEF Holding, MayQuery
  <2> QED BY <1>c, <2>1, <2>2, <2>3, <2>5, WorksKept
<1>11. CASE SetDatabase(p)
  <2>1. UNCHANGED <<database, iam, excuses>> /\ row # None /\ row' = [row EXCEPT !.db = w.d]
    BY <1>11 DEF SetDatabase, metabase, google
  <2>2. w.step = "setDatabase" /\ row'.db = w.d
    BY <1>11, <1>a, <2>1 DEF SetDatabase, At, Row
  <2>3. (Standing' <=> Standing) /\ Live' = Live
    BY <2>1 DEF Standing, Live
  <2>4. \A q \in Pods : work'[q].step \notin Granting \cup Holding
    BY <1>11, <1>a, <1>b, GotoFields DEF SetDatabase, Granting, Holding
  <2>5. Standing => w.d \in Live /\ \A d \in Live : MayQuery(database[d])
    BY <2>2 DEF WorksInv, Holding
  <2>6. \A d \in Live : MayQuery(database[d])' = MayQuery(database[d])
    BY <2>1 DEF MayQuery
  <2> QED BY <2>2, <2>3, <2>4, <2>5, <2>6 DEF WorksInv
<1>12. CASE PostDatabase(p)
  <2>1. PICK d \in FreshDatabases :
            /\ database' = [database EXCEPT ![d] = w.sa]
            /\ work' = [work EXCEPT ![p].step = "wait", ![p].d = d]
    BY <1>12 DEF PostDatabase
  <2>2. UNCHANGED <<row, iam, excuses>>
    BY <1>12 DEF PostDatabase, postgres, google
  <2>3. w.step = "postDatabase" /\ w.sa \in {"own", "shared"}
    BY <1>12, <1>a DEF PostDatabase, At, Fits, FitsStep, CreateSteps, Accounts
  <2>4. Live' = Live \cup {d} /\ database'[d] = w.sa /\ d \in Databases
    BY <1>a, <2>1, <2>3 DEF Live, TypeOK, FreshDatabases
  <2>5. \A e \in Live : database'[e] = database[e]
    BY <1>a, <2>1 DEF Live, TypeOK, FreshDatabases
  <2>6. \A q \in Pods : work'[q].step = "wait" /\ work'[q].d = d
    BY <1>a, <1>b, <2>1 DEF Work
  <2>7. Standing' <=> Standing
    BY <2>2 DEF Standing
  <2>8. \A a \in {"own", "shared"} : MayQuery(a)' = MayQuery(a)
    BY <2>2 DEF MayQuery
  <2>9. ASSUME Standing
        PROVE  /\ (row' # None /\ row'.db # None) => row'.db \in Live'
               /\ \A e \in Live' : MayQuery(database[e])'
    <3>1. /\ (row # None /\ row.db # None) => row.db \in Live
          /\ \A e \in Live : MayQuery(database[e])
          /\ MayQuery(w.sa)
      BY <2>3, <2>9 DEF WorksInv, Granting
    <3>2. ASSUME NEW e \in Live' PROVE MayQuery(database[e])'
      <4>1. database'[e] \in {"own", "shared"} /\ MayQuery(database'[e])
        BY <1>c, <2>3, <2>4, <2>5, <3>1
      <4>2. PICK a \in {"own", "shared"} : database'[e] = a
        BY <4>1
      <4>3. MayQuery(a)'
        BY <2>8, <4>1, <4>2
      <4> QED BY <4>2, <4>3
    <3> QED BY <2>2, <2>4, <3>1, <3>2
  <2> QED BY <2>4, <2>6, <2>7, <2>9 DEF WorksInv, Granting, Holding
<1> QED BY <1>1, <1>2, <1>3, <1>4, <1>5, <1>6, <1>7, <1>8, <1>9, <1>10, <1>11, <1>12
    DEF Add
\* So does every step that takes something away: it says so, until the row goes.
LEMMA RemoveWorks ==
    ASSUME OneMapper, MapperInv, WorksInv, NEW p \in Pods, Remove(p)
    PROVE  WorksInv'
<1> DEFINE w == work[p]
<1>a. /\ TypeOK /\ w \in Work /\ Fits(w)
      /\ work \in [Pods -> Work]
    BY DEF MapperInv, TypeInv, TypeOK
<1>b. \A q \in Pods : q = p
    BY DEF OneMapper
<1>c. \A d \in Live : database[d] \in {"own", "shared"}
    BY <1>a DEF TypeOK, Live, Accounts
<1>w. \A v : work' = [work EXCEPT ![p] = v] => work'[p] = v
    BY <1>a
<1>d. ASSUME UNCHANGED <<row, database, iam, excuses>>,
             work'[p].step \notin Granting \cup Holding
      PROVE  WorksInv'
  <2>1. (Standing' => Standing) /\ Live' = Live
    BY <1>d DEF Standing, Live
  <2>2. \A a \in {"own", "shared"} : MayQuery(a) => MayQuery(a)'
    BY <1>d DEF MayQuery
  <2> QED BY <1>b, <1>c, <1>d, <2>1, <2>2, WorksKept
<1>e. ASSUME "removal" \in excuses'
      PROVE  WorksInv'
    BY <1>e DEF WorksInv, Standing
<1>1. CASE RevokeIam(p) \/ DropAccount(p) \/ ArchiveCollection(p) \/ DropDatabase(p)
    BY <1>1, <1>e DEF RevokeIam, DropAccount, ArchiveCollection, DropDatabase
<1>2. CASE DropGroup(p)
  <2>1. CASE w.path = "add"
    <3>1. UNCHANGED <<row, database, iam, excuses>>
      BY <1>2, <2>1 DEF DropGroup, postgres, google
    <3>2. work'[p].step = "setGroupOpen"
      BY <1>2, <1>a, <2>1, GotoFields DEF DropGroup
    <3> QED BY <1>d, <3>1, <3>2 DEF Granting, Holding
  <2>2. CASE w.path # "add"
    BY <1>2, <1>e, <2>2 DEF DropGroup
  <2> QED BY <2>1, <2>2
<1>3. CASE RemoveRead(p)
  <2>1. UNCHANGED <<row, database, iam, excuses>>
    BY <1>3 DEF RemoveRead, postgres, metabase, google
  <2>2. work'[p].step \in {"idle", "revokeIam", "dropDatabase"}
    <3>1. \/ Done(p)
          \/ work' = [work EXCEPT ![p] = [w EXCEPT !.step = "revokeIam", !.sa = row.sa,
                          !.g = row.group, !.c = row.coll, !.d = row.db]]
          \/ work' = [work EXCEPT ![p] = [w EXCEPT !.step = "dropDatabase", !.d = row.db]]
      BY <1>3 DEF RemoveRead
    <3>2. CASE Done(p)
      BY <1>a, <3>2, StartFields
    <3>3. CASE \E v \in {[w EXCEPT !.step = "revokeIam", !.sa = row.sa,
                          !.g = row.group, !.c = row.coll, !.d = row.db],
                        [w EXCEPT !.step = "dropDatabase", !.d = row.db]} :
                 work' = [work EXCEPT ![p] = v]
      <4>1. work'[p] \in {[w EXCEPT !.step = "revokeIam", !.sa = row.sa,
                          !.g = row.group, !.c = row.coll, !.d = row.db],
                        [w EXCEPT !.step = "dropDatabase", !.d = row.db]}
        BY <1>w, <3>3
      <4> QED BY <1>a, <4>1 DEF Work
    <3> QED BY <3>1, <3>2, <3>3
  <2> QED BY <1>d, <2>1, <2>2 DEF Granting, Holding
<1>4. CASE ReadMapping(p)
  <2>1. UNCHANGED <<row, database, iam, excuses>>
    BY <1>4 DEF ReadMapping, postgres, metabase, google
  <2>2. work' = [work EXCEPT ![p] = [w EXCEPT !.step = "deleteRow", !.mapped = mapped]]
    BY <1>4 DEF ReadMapping
  <2>3. work'[p].step = "deleteRow"
    BY <1>a, <1>w, <2>2 DEF Work
  <2> QED BY <1>d, <2>1, <2>3 DEF Granting, Holding
<1>5. CASE DeleteRow(p)
  <2>1. row' = None /\ excuses' = (IF Live = {} THEN {} ELSE {"orphan"}) /\ Live' = Live
    BY <1>5 DEF DeleteRow, Live
  <2>2. \A q \in Pods : work'[q].step = "idle"
    BY <1>5, <1>a, <1>b, StartFields DEF DeleteRow
  <2> QED BY <2>1, <2>2 DEF WorksInv, Standing, Granting, Holding
<1> QED BY <1>1, <1>2, <1>3, <1>4, <1>5 DEF Remove

\* A revocation of access of all users says what it has revoked; requests and
\* attempts that begin or end change nothing.
LEMMA OthersWork ==
    ASSUME MapperInv, WorksInv,
           \/ AccessOfAllUsers
           \/ \E p \in Pods, m \in BOOLEAN : CreateMappingRequest(p, m) \/ TakeWork(p, m)
           \/ \E p \in Pods : Tick(p) \/ MapperFails(p) \/ Crash(p)
           \/ UNCHANGED vars
    PROVE  WorksInv'
<1>a. TypeOK /\ work \in [Pods -> Work] /\ (row # None => row \in Row)
    BY DEF MapperInv, TypeInv, TypeOK
<1>c. \A d \in Live : database[d] \in {"own", "shared"}
    BY <1>a DEF TypeOK, Live, Accounts
<1>1. database' = database /\ Live' = Live
    BY DEF AccessOfAllUsers, AllUsersGranted, RevokeAllUsers, AllUsersExpires,
       RevokeMetabaseAccess, SoftRevokeIam, SoftDelete, RevokeRow, JobFails,
       CreateMappingRequest, TakeWork, Tick, MapperFails, Crash, vars, metabase, Live
<1>2. (row' # None /\ row'.db # None) => row # None /\ row'.db = row.db
  <2>1. row' = row \/ (row # None /\ row' = [row EXCEPT !.deleted = TRUE])
    BY DEF AccessOfAllUsers, AllUsersGranted, RevokeAllUsers, AllUsersExpires,
       RevokeMetabaseAccess, SoftRevokeIam, SoftDelete, RevokeRow, JobFails,
       CreateMappingRequest, TakeWork, Tick, MapperFails, Crash, vars, postgres
  <2> QED BY <1>a, <2>1 DEF Row
<1>3. \/ UNCHANGED <<iam, excuses>>
      \/ iam' = iam \ {"own"} /\ excuses' = excuses \cup {"revoked"}
    BY DEF AccessOfAllUsers, AllUsersGranted, RevokeAllUsers, AllUsersExpires,
       RevokeMetabaseAccess, SoftRevokeIam, SoftDelete, RevokeRow, JobFails,
       CreateMappingRequest, TakeWork, Tick, MapperFails, Crash, vars, google
<1>4. Standing' => Standing
    BY <1>3 DEF Standing
<1>5. \A a \in {"own", "shared"} : MayQuery(a) => MayQuery(a)'
    BY <1>3 DEF MayQuery
<1>6. ASSUME NEW p \in Pods
      PROVE  work'[p] = work[p] \/ work'[p].step \in {"idle", "start"}
  <2>1. CASE work' = work
    BY <2>1
  <2>2. CASE \E q \in Pods : Done(q) \/ MapDataset(q, "add") \/ MapDataset(q, "remove")
    <3>1. PICK q \in Pods : Done(q) \/ MapDataset(q, "add") \/ MapDataset(q, "remove")
      BY <2>2
    <3>2. CASE q = p
      BY <1>a, <3>1, <3>2, StartFields
    <3>3. CASE q # p
      BY <1>a, <3>1, <3>3 DEF Done, MapDataset
    <3> QED BY <3>2, <3>3
  <2> QED BY <2>1, <2>2 DEF AccessOfAllUsers, AllUsersGranted, RevokeAllUsers, AllUsersExpires,
       RevokeMetabaseAccess, SoftRevokeIam, SoftDelete, RevokeRow, JobFails,
       CreateMappingRequest, TakeWork, Tick, MapperFails, Crash, Done, vars
<1>7. ASSUME NEW p \in Pods
      PROVE  /\ work'[p].step \in Granting =>
                   \/ work[p].step \in Granting /\ work'[p].sa = work[p].sa
                      /\ work[p].sa \in {"own", "shared"}
                   \/ MayQuery(work[p].sa)'
             /\ work'[p].step \in Holding =>
                   \/ work[p].step \in Holding /\ work'[p].d = work[p].d
                   \/ work'[p].d \in Live
  <2>1. CASE work'[p].step \in {"idle", "start"}
    BY <2>1 DEF Granting, Holding
  <2>2. CASE work'[p] = work[p]
    <3>1. work[p].step \in Granting => work[p].sa \in {"own", "shared"}
      BY DEF MapperInv, TypeInv, Fits, FitsStep, Granting, CreateSteps, Accounts
    <3> QED BY <2>2, <3>1
  <2> QED BY <1>6, <2>1, <2>2
<1> QED BY <1>1, <1>2, <1>4, <1>5, <1>7, <1>c, WorksKept

\* A single mapper, however its attempts end, keeps the database that it made
\* in working order until it begins to remove it.
THEOREM DatabaseStands == OneMapper => (Spec => []WorksInv)
<1>1. ASSUME OneMapper PROVE Spec => []WorksInv
  <2>1. Init => WorksInv
    <3> SUFFICES ASSUME Init PROVE WorksInv
        OBVIOUS
    <3>1. Live = {} /\ row = None
      BY DEF Init, Live
    <3>2. \A p \in Pods : work[p].step = "idle"
      BY DEF Init, Idle
    <3> QED BY <3>1, <3>2 DEF WorksInv, Granting, Holding
  <2>2. MapperInv /\ WorksInv /\ [Next]_vars => WorksInv'
    <3> SUFFICES ASSUME MapperInv, WorksInv, [Next]_vars PROVE WorksInv'
        OBVIOUS
    <3>1. CASE \E p \in Pods : Add(p) \/ Remove(p)
      BY <1>1, <3>1, AddWorks, RemoveWorks
    <3>2. CASE \/ AccessOfAllUsers
               \/ \E p \in Pods, m \in BOOLEAN : CreateMappingRequest(p, m) \/ TakeWork(p, m)
               \/ \E p \in Pods : Tick(p) \/ MapperFails(p) \/ Crash(p)
               \/ UNCHANGED vars
      BY <3>2, OthersWork
    <3> QED BY <3>1, <3>2 DEF Next
  <2>3. Spec => []MapperInv
    BY <1>1, Invariant
  <2> QED BY <2>1, <2>2, <2>3, PTL DEF Spec
<1> QED BY <1>1

\* A dataset that has been synced, and from which nothing was taken away, can
\* be queried.
THEOREM SyncedCanBeQueried == OneMapper => (Spec => []SyncedWorks)
<1>1. ASSUME OneMapper PROVE Spec => []SyncedWorks
  <2>1. ASSUME MapperInv, WorksInv PROVE SyncedWorks
    <3> SUFFICES ASSUME row # None, row.synced, excuses = {}
                 PROVE  row.db \in Live /\ database[row.db] \in iam
        BY DEF SyncedWorks
    <3>1. row.db # None
      BY <2>1 DEF MapperInv, RowInv, SyncedIsCreated
    <3>2. Standing
      BY DEF Standing
    <3>3. row.db \in Live /\ MayQuery(database[row.db])
      BY <2>1, <3>1, <3>2 DEF WorksInv
    <3> QED BY <3>3 DEF MayQuery
  <2>2. Spec => []MapperInv
    BY <1>1, Invariant
  <2>3. Spec => []WorksInv
    BY <1>1, DatabaseStands
  <2> QED BY <2>1, <2>2, <2>3, PTL
<1> QED BY <1>1
=============================================================================
