------------------------- MODULE AccessGrantsProofs -------------------------
(* Theorems about AccessGrants, for every value of its constants. *)
EXTENDS AccessGrants, TLAPS

USE LowerAssumption, ActorsAssumption, TimeAssumption, NoneAssumption

(***************************************************************************)
(* What the table and job operators do, field by field.                    *)
(***************************************************************************)

\* Where the fields of a job, an access and a request lie.
LEMMA RecordFields ==
  /\ \A j \in Job : /\ j.step \in Steps /\ j.exp \in Expiries
                    /\ j.acc \in Accesses \cup {None} /\ j.req \in Requests \cup {None}
  /\ \A x \in AccessRow : /\ x.exp \in Expiries /\ x.req \in Requests \cup {None}
                          /\ x.ds \in Datasets \cup {None}
                          /\ x.sub \in Subjects \cup {None}
  /\ \A x \in RequestRow : /\ x.exp \in Expiries /\ x.ds \in Datasets \cup {None}
                           /\ x.sub \in Subjects \cup {None}
  BY DEF Job, AccessRow, RequestRow

\* Revoking a row changes its status and nothing else, and no other row.
LEMMA RevokedRows ==
  ASSUME NEW f \in [Accesses -> AccessRow], NEW r \in Accesses \cup {None}
  PROVE  /\ Revoked(f, r) \in [Accesses -> AccessRow]
         /\ \A x \in Accesses :
              /\ Revoked(f, r)[x].ds = f[x].ds
              /\ Revoked(f, r)[x].sub = f[x].sub
              /\ Revoked(f, r)[x].exp = f[x].exp
              /\ Revoked(f, r)[x].req = f[x].req
              /\ (Revoked(f, r)[x].status = "free") <=> (f[x].status = "free")
              /\ (Revoked(f, r)[x].status = "deleted") <=> (f[x].status = "deleted")
              /\ (Revoked(f, r)[x].status = "active") <=> (f[x].status = "active" /\ x # r)
<1> DEFINE row == [f[r] EXCEPT !.status = "revoked"]
<1>1. CASE r # None /\ f[r].status = "active"
  <2>1. r \in Accesses /\ f[r] \in AccessRow
    BY <1>1
  <2>2. /\ row \in AccessRow
        /\ row.ds = f[r].ds /\ row.sub = f[r].sub /\ row.exp = f[r].exp
        /\ row.req = f[r].req /\ row.status = "revoked"
    BY <2>1 DEF AccessRow
  <2>3. Revoked(f, r) = [f EXCEPT ![r] = row]
    BY <1>1 DEF Revoked
  <2> QED
    BY <1>1, <2>1, <2>2, <2>3
<1>2. CASE ~ (r # None /\ f[r].status = "active")
  BY <1>2 DEF Revoked
<1> QED
  BY <1>1, <1>2

\* An inserted row holds what was inserted; the others stay as they are.
LEMMA InsertedRows ==
  ASSUME NEW f \in [Accesses -> AccessRow], NEW r \in Accesses,
         NEW d \in Datasets, NEW s \in Subjects, NEW e \in Expiries,
         NEW q \in Requests \cup {None}
  PROVE  /\ Insert(f, r, d, s, e, q) \in [Accesses -> AccessRow]
         /\ \A x \in Accesses : x # r => Insert(f, r, d, s, e, q)[x] = f[x]
         /\ Insert(f, r, d, s, e, q)[r].status = "active"
         /\ Insert(f, r, d, s, e, q)[r].ds = d
         /\ Insert(f, r, d, s, e, q)[r].sub = s
         /\ Insert(f, r, d, s, e, q)[r].exp = e
         /\ Insert(f, r, d, s, e, q)[r].req = q
  BY DEF Insert, AccessRow

\* A handler that goes on keeps all but its step.
LEMMA ContinuedJob ==
  ASSUME job \in [Threads -> Job], NEW t \in Threads,
         NEW from \in Steps, NEW to \in Steps, Continue(t, from, to)
  PROVE  /\ job' \in [Threads -> Job]
         /\ \A u \in Threads : u # t => job'[u] = job[u]
         /\ job[t].step = from
         /\ job'[t].step = to
         /\ job'[t].ds = job[t].ds /\ job'[t].sub = job[t].sub
         /\ job'[t].exp = job[t].exp /\ job'[t].acc = job[t].acc
         /\ job'[t].req = job[t].req
<1> DEFINE j == [job[t] EXCEPT !.step = to]
<1>1. /\ j \in Job /\ j.step = to /\ j.ds = job[t].ds /\ j.sub = job[t].sub
      /\ j.exp = job[t].exp /\ j.acc = job[t].acc /\ j.req = job[t].req
  BY DEF Job
<1>2. job' = [job EXCEPT ![t] = j] /\ job[t].step = from
  BY DEF Continue
<1> QED
  BY <1>1, <1>2

\* A handler that finishes is idle; the others stay as they are.
LEMMA FinishedJob ==
  ASSUME job \in [Threads -> Job], NEW t \in Threads, Finish(t)
  PROVE  /\ job' \in [Threads -> Job]
         /\ \A u \in Threads : u # t => job'[u] = job[u]
         /\ job'[t] = Idle
         /\ job'[t].step = "idle"
  BY DEF Finish, Job, Idle, Steps, Expiries

\* A direct grant goes on with nothing to renew or with a renewable row.
LEMMA LookedUpJob ==
  ASSUME job \in [Threads -> Job], NEW t \in Threads, GrantLookup(t)
  PROVE  /\ job' \in [Threads -> Job]
         /\ \A u \in Threads : u # t => job'[u] = job[u]
         /\ job[t].step = "grantLookup"
         /\ job'[t].step = "grantStore"
         /\ job'[t].ds = job[t].ds /\ job'[t].sub = job[t].sub
         /\ job'[t].acc # None => job'[t].acc \in Renewable(t)
         /\ job'[t].acc = None => Renewable(t) = {}
<1>1. PICK r \in Accesses \cup {None} :
        /\ IF Renewable(t) = {} THEN r = None ELSE r \in Renewable(t)
        /\ job' = [job EXCEPT ![t].step = "grantStore", ![t].acc = r]
  BY DEF GrantLookup
<1> DEFINE j == [job[t] EXCEPT !.step = "grantStore", !.acc = r]
<1>2. /\ j \in Job /\ j.step = "grantStore" /\ j.ds = job[t].ds
      /\ j.sub = job[t].sub /\ j.acc = r
  BY ZenonT(60) DEF Job, Steps, StoreSteps
<1>3. job' = [job EXCEPT ![t] = j]
  BY <1>1 DEF Job
<1>4. job[t].step = "grantLookup"
  BY DEF GrantLookup
<1>5. (r # None => r \in Renewable(t)) /\ (r = None => Renewable(t) = {})
  BY <1>1 DEF Renewable
<1>6. /\ job' \in [Threads -> Job]
      /\ \A u \in Threads : u # t => job'[u] = job[u]
      /\ job'[t] = j
  BY <1>2, <1>3
<1> HIDE DEF j
<1> QED
  BY <1>2, <1>4, <1>5, <1>6

\* A new status of a request leaves its dataset and subject alone.
LEMMA RequestStatus ==
  ASSUME request \in [Requests -> RequestRow], NEW q \in Requests,
         NEW s \in {"pending", "approved", "denied", "deleted"},
         SetStatus(q, s)
  PROVE  /\ request' \in [Requests -> RequestRow]
         /\ \A x \in Requests : x # q => request'[x] = request[x]
         /\ request'[q].status = s
         /\ request'[q].ds = request[q].ds
         /\ request'[q].sub = request[q].sub
<1> DEFINE row == [request[q] EXCEPT !.status = s]
<1>1. row \in RequestRow /\ row.status = s /\ row.ds = request[q].ds
      /\ row.sub = request[q].sub
  BY DEF RequestRow
<1>2. request' = [request EXCEPT ![q] = row]
  BY DEF SetStatus
<1> QED
  BY <1>1, <1>2

\* The initial states have the right types.
THEOREM TypeInit == Init => TypeOK
  BY DEF Init, TypeOK, RowsOK, JobsOK, AccessRow, RequestRow, Job, Pass, Idle,
         NoPass, FreeAccess, FreeRequest, PiiLevels, Expiries, Steps

\* Every handler, ensurer, clock tick and crash preserves the types.
THEOREM TypeStep == TypeOK /\ [Next]_vars => TypeOK'
<1> SUFFICES ASSUME TypeOK, Next \/ UNCHANGED vars PROVE TypeOK'
  OBVIOUS
<1>t. /\ access \in [Accesses -> AccessRow] /\ request \in [Requests -> RequestRow]
      /\ job \in [Threads -> Job]
  BY DEF TypeOK
<1>1. CASE Tick
  BY <1>1 DEF TypeOK, RowsOK, JobsOK, table, history,
      Tick
<1>2. ASSUME NEW t \in Threads, NEW d \in Datasets, NEW pii \in PiiLevels,
             CreateDataset(t, d, pii)
      PROVE  TypeOK'
  <2>1. CASE UNCHANGED <<access, job, unbacked>>
    BY <1>2, <2>1 DEF TypeOK, RowsOK, JobsOK, table, history,
        CreateDataset
  <2>2. ASSUME NEW r \in Accesses, access[r].status = "free",
               access' = Insert(access, r, d, AllUsers, None, None),
               unbacked' = unbacked \cup {r},
               \/ UNCHANGED job
               \/ Start(t, [Idle EXCEPT !.step = "createIam", !.ds = d,
                                        !.sub = AllUsers, !.acc = r])
        PROVE  TypeOK'
    <3>1. None \in Expiries /\ None \in Requests \cup {None} /\ AllUsers \in Subjects
      BY DEF Expiries
    <3>3. /\ access' \in [Accesses -> AccessRow]
          /\ \A x \in Accesses : x # r => access'[x] = access[x]
          /\ access'[r].ds = d /\ access'[r].sub = AllUsers /\ access'[r].status = "active"
      <4>1. access' = Insert(access, r, d, AllUsers, None, None)
        BY <2>2
      <4> QED
        BY <1>t, <3>1, <4>1 DEF Insert, AccessRow
    <3>4. RowsOK'
      BY <1>2, <3>1, <3>3 DEF TypeOK, RowsOK, JobsOK, table, history,
          CreateDataset
    <3>2. job' \in [Threads -> Job] /\ JobsOK'
      <4> DEFINE j == [Idle EXCEPT !.step = "createIam", !.ds = d,
                                   !.sub = AllUsers, !.acc = r]
      <4>1. /\ j \in Job /\ j.step = "createIam" /\ j.ds = d /\ j.sub = AllUsers
            /\ j.acc = r
        BY DEF Job, Idle, Expiries, Steps, IamSteps
      <4>2. UNCHANGED job \/ Start(t, j)
        BY <2>2
      <4> HIDE DEF j
      <4>3. CASE UNCHANGED job
        BY <4>3 DEF TypeOK, JobsOK
      <4>4. CASE job' = [job EXCEPT ![t] = j]
        BY <4>1, <4>4 DEF TypeOK, JobsOK
      <4> QED
        BY <4>2, <4>3, <4>4 DEF Start
    <3> QED
      BY <1>2, <2>2, <3>3, <3>4, <3>2 DEF TypeOK, RowsOK, JobsOK, table, history,
          CreateDataset
  <2> QED
    BY <1>2, <2>1, <2>2 DEF TypeOK, RowsOK, JobsOK, table, history,
        CreateDataset
<1>3. ASSUME NEW t \in Threads, CreateDatasetIam(t)
      PROVE  TypeOK'
  BY <1>3 DEF TypeOK, RowsOK, JobsOK, table, history,
      CreateDatasetIam, Finish, JobMember, Member,
       Job, Idle, Expiries, RevokeSteps, IamSteps, StoreSteps, Steps
<1>4. ASSUME NEW d \in Datasets, NEW pii \in PiiLevels, UpdateDataset(d, pii)
      PROVE  TypeOK'
  BY <1>4 DEF TypeOK, RowsOK, JobsOK, table, history,
      UpdateDataset
<1>5. ASSUME NEW d \in Datasets, DeleteDataset(d)
      PROVE  TypeOK'
  <2>1. access' \in [Accesses -> AccessRow] /\ request' \in [Requests -> RequestRow]
    <3>1. \A r \in Accesses : [access[r] EXCEPT !.status = "deleted"] \in AccessRow
      BY <1>t DEF AccessRow
    <3>2. \A q \in Requests : [request[q] EXCEPT !.status = "deleted"] \in RequestRow
      BY <1>t DEF RequestRow
    <3> QED
      BY <1>5, <1>t, <3>1, <3>2 DEF DeleteDataset
  <2>2. RowsOK'
    <3>1. \A r \in Accesses :
            /\ access'[r].ds = access[r].ds
            /\ access'[r].sub = access[r].sub
            /\ (access'[r].status = "free") <=> (access[r].status = "free")
      <4> SUFFICES ASSUME NEW r \in Accesses
                   PROVE  /\ access'[r].ds = access[r].ds
                          /\ access'[r].sub = access[r].sub
                          /\ (access'[r].status = "free") <=> (access[r].status = "free")
        OBVIOUS
      <4>1. CASE access[r].ds = d
        <5>1. access'[r] = [access[r] EXCEPT !.status = "deleted"]
          BY <1>5, <4>1 DEF DeleteDataset
        <5>2. access[r] \in AccessRow /\ access[r].status # "free"
          BY <1>t, <1>5, <4>1 DEF TypeOK, RowsOK
        <5> QED
          BY <5>1, <5>2 DEF AccessRow
      <4>2. CASE access[r].ds # d
        BY <1>5, <4>2 DEF DeleteDataset
      <4> QED
        BY <4>1, <4>2
    <3>2. \A q \in Requests :
            /\ request'[q].ds = request[q].ds
            /\ request'[q].sub = request[q].sub
            /\ (request'[q].status = "free") <=> (request[q].status = "free")
      <4> SUFFICES ASSUME NEW q \in Requests
                   PROVE  /\ request'[q].ds = request[q].ds
                          /\ request'[q].sub = request[q].sub
                          /\ (request'[q].status = "free") <=> (request[q].status = "free")
        OBVIOUS
      <4>1. CASE request[q].ds = d
        <5>1. request'[q] = [request[q] EXCEPT !.status = "deleted"]
          BY <1>5, <4>1 DEF DeleteDataset
        <5>2. request[q] \in RequestRow /\ request[q].status # "free"
          BY <1>t, <1>5, <4>1 DEF TypeOK, RowsOK
        <5> QED
          BY <5>1, <5>2 DEF RequestRow
      <4>2. CASE request[q].ds # d
        BY <1>5, <4>2 DEF DeleteDataset
      <4> QED
        BY <4>1, <4>2
    <3> QED
      BY <3>1, <3>2 DEF TypeOK, RowsOK
  <2> QED
    BY <1>5, <2>1, <2>2 DEF TypeOK, RowsOK, JobsOK, table, history,
        DeleteDataset
<1>6. ASSUME NEW q \in Requests, NEW d \in Datasets, NEW s \in Subjects,
             NEW e \in Expiries, CreateAccessRequest(q, d, s, e)
      PROVE  TypeOK'
  BY <1>6 DEF TypeOK, RowsOK, JobsOK, table, history,
      CreateAccessRequest,
       RequestRow
<1>7. ASSUME NEW q \in Requests, NEW e \in Expiries, UpdateAccessRequest(q, e)
      PROVE  TypeOK'
  BY <1>7 DEF TypeOK, RowsOK, JobsOK, table, history,
      UpdateAccessRequest, Filed,
       RequestRow
<1>8. ASSUME NEW q \in Requests, DeleteAccessRequest(q)
      PROVE  TypeOK'
  BY <1>8, RequestStatus DEF TypeOK, RowsOK, JobsOK, table, history,
      DeleteAccessRequest, Filed
<1>9. ASSUME NEW q \in Requests, DenyAccessRequest(q)
      PROVE  TypeOK'
  BY <1>9, RequestStatus DEF TypeOK, RowsOK, JobsOK, table, history,
      DenyAccessRequest, Filed
<1>10. ASSUME NEW t \in Threads, NEW q \in Requests, ApproveBegin(t, q)
       PROVE  TypeOK'
  BY <1>10 DEF TypeOK, RowsOK, JobsOK, table, history,
      ApproveBegin, Filed, Start,
       Job, Idle, RequestRow, Expiries, RevokeSteps, IamSteps, StoreSteps, Steps
<1>11. ASSUME NEW t \in Threads, ApproveIam(t)
       PROVE  TypeOK'
  <2>1. Continue(t, "approveIam", "approveStore") /\ "approveIam" \in Steps /\ "approveStore" \in Steps
    BY <1>11 DEF ApproveIam, Steps, IamSteps, StoreSteps
  <2>2. /\ job' \in [Threads -> Job]
        /\ \A u \in Threads : u # t => job'[u] = job[u]
        /\ job[t].step = "approveIam"
        /\ job'[t].step = "approveStore"
        /\ job'[t].ds = job[t].ds /\ job'[t].sub = job[t].sub
        /\ job'[t].acc = job[t].acc /\ job'[t].req = job[t].req
    BY <2>1, ContinuedJob DEF TypeOK
  <2>3. JobsOK'
    BY <2>2 DEF TypeOK, JobsOK, RevokeSteps
  <2>4. job[t].ds \in Datasets /\ job[t].sub \in Subjects
    BY <2>2 DEF TypeOK, JobsOK
  <2>6. RowsOK'
    BY <1>11 DEF TypeOK, RowsOK, ApproveIam, table
  <2>7. /\ iam' \subseteq Datasets \X Subjects
        /\ orphaned' \subseteq Datasets \X Subjects
        /\ unbacked' \subseteq Accesses
    BY <1>11, <2>4, LowerAssumption DEF TypeOK, ApproveIam, JobMember, Member, history
  <2> QED
    BY <1>11, <2>2, <2>3, <2>6, <2>7 DEF TypeOK, ApproveIam, table
<1>12. ASSUME NEW t \in Threads, ApproveStore(t)
       PROVE  TypeOK'
  <2>1. PICK r \in Accesses :
          /\ access[r].status = "free"
          /\ access' = Insert(access, r, job[t].ds, job[t].sub, job[t].exp, job[t].req)
    BY <1>12 DEF TypeOK, RowsOK, JobsOK, table, history,
        ApproveStore
  <2>2. job[t].ds \in Datasets /\ job[t].sub \in Subjects /\ job[t].req \in Requests
    BY <1>12 DEF TypeOK, RowsOK, JobsOK, table, history,
        ApproveStore
  <2>3. /\ access' \in [Accesses -> AccessRow]
        /\ \A x \in Accesses :
              /\ access'[x].status = "free" => access'[x].ds = None
              /\ access'[x].status # "free" => access'[x].ds \in Datasets
              /\ access'[x].status # "free" => access'[x].sub \in Subjects
    <3>1. job[t].exp \in Expiries /\ job[t].req \in Requests \cup {None}
      BY <1>t, RecordFields
    <3>2. /\ access' \in [Accesses -> AccessRow]
          /\ \A x \in Accesses : x # r => access'[x] = access[x]
          /\ access'[r].ds = job[t].ds /\ access'[r].sub = job[t].sub
          /\ access'[r].status = "active"
      BY <1>t, <2>1, <2>2, <3>1, InsertedRows
    <3> QED
      BY <2>2, <3>2 DEF TypeOK, RowsOK
  <2>4. /\ request' \in [Requests -> RequestRow]
        /\ \A x \in Requests :
              /\ request'[x].status = "free" => request'[x].ds = None
              /\ request'[x].status # "free" => request'[x].ds \in Datasets
              /\ request'[x].status # "free" => request'[x].sub \in Subjects
    <3>1. CASE Filed(job[t].req)
      BY <1>12, <1>t, <2>2, <3>1, RequestStatus DEF ApproveStore, TypeOK, RowsOK, Filed
    <3>2. CASE ~ Filed(job[t].req)
      BY <1>12, <1>t, <3>2 DEF ApproveStore, TypeOK, RowsOK
    <3> QED
      BY <3>1, <3>2
  <2>5. job' \in [Threads -> Job] /\ JobsOK'
    BY <1>12, FinishedJob DEF TypeOK, RowsOK, JobsOK, table, history,
        ApproveStore
  <2> QED
    BY <1>12, <2>3, <2>4, <2>5 DEF TypeOK, RowsOK, JobsOK, table, history,
        ApproveStore, JobMember, Member
<1>13. ASSUME NEW t \in Threads, NEW d \in Datasets, NEW s \in Subjects,
              NEW e \in Expiries, GrantBegin(t, d, s, e)
       PROVE  TypeOK'
  BY <1>13 DEF TypeOK, RowsOK, JobsOK, table, history,
      GrantBegin, Start,
       Job, Idle, Expiries, RevokeSteps, IamSteps, StoreSteps, Steps
<1>14. ASSUME NEW t \in Threads, GrantIam(t)
       PROVE  TypeOK'
  <2>1. Continue(t, "grantIam", "grantLookup") /\ "grantIam" \in Steps /\ "grantLookup" \in Steps
    BY <1>14 DEF GrantIam, Steps, IamSteps, StoreSteps
  <2>2. /\ job' \in [Threads -> Job]
        /\ \A u \in Threads : u # t => job'[u] = job[u]
        /\ job[t].step = "grantIam"
        /\ job'[t].step = "grantLookup"
        /\ job'[t].ds = job[t].ds /\ job'[t].sub = job[t].sub
        /\ job'[t].acc = job[t].acc /\ job'[t].req = job[t].req
    BY <2>1, ContinuedJob DEF TypeOK
  <2>3. JobsOK'
    BY <2>2 DEF TypeOK, JobsOK, RevokeSteps
  <2>4. job[t].ds \in Datasets /\ job[t].sub \in Subjects
    BY <2>2 DEF TypeOK, JobsOK
  <2>6. RowsOK'
    BY <1>14 DEF TypeOK, RowsOK, GrantIam, table
  <2>7. /\ iam' \subseteq Datasets \X Subjects
        /\ orphaned' \subseteq Datasets \X Subjects
        /\ unbacked' \subseteq Accesses
    BY <1>14, <2>4, LowerAssumption DEF TypeOK, GrantIam, JobMember, Member, history
  <2> QED
    BY <1>14, <2>2, <2>3, <2>6, <2>7 DEF TypeOK, GrantIam, table
<1>15. ASSUME NEW t \in Threads, GrantLookup(t)
       PROVE  TypeOK'
  BY <1>15, LookedUpJob DEF TypeOK, RowsOK, JobsOK, table, history,
      GrantLookup, RevokeSteps
<1>16. ASSUME NEW t \in Threads, GrantStore(t)
       PROVE  TypeOK'
  <2> DEFINE f == Revoked(access, job[t].acc)
  <2>1. PICK r \in Accesses :
          /\ access[r].status = "free"
          /\ access' = Insert(f, r, job[t].ds, Lower[job[t].sub], job[t].exp, None)
    BY <1>16 DEF TypeOK, RowsOK, JobsOK, table, history,
        GrantStore
  <2>2. job[t].ds \in Datasets /\ job[t].sub \in Subjects
    BY <1>16 DEF TypeOK, RowsOK, JobsOK, table, history,
        GrantStore
  <2>3. f \in [Accesses -> AccessRow]
        /\ \A x \in Accesses :
              /\ f[x].ds = access[x].ds
              /\ f[x].sub = access[x].sub
              /\ (f[x].status = "free") <=> (access[x].status = "free")
    <3>1. job[t].acc \in Accesses \cup {None}
      BY <1>t, RecordFields
    <3> QED
      BY <1>t, <3>1, RevokedRows, SMTT(60)
  <2> HIDE DEF f
  <2>4. /\ access' \in [Accesses -> AccessRow]
        /\ \A x \in Accesses :
              /\ access'[x].status = "free" => access'[x].ds = None
              /\ access'[x].status # "free" => access'[x].ds \in Datasets
              /\ access'[x].status # "free" => access'[x].sub \in Subjects
    <3>1. job[t].exp \in Expiries /\ Lower[job[t].sub] \in Subjects
      BY <1>t, <2>2, RecordFields
    <3>2. /\ access' \in [Accesses -> AccessRow]
          /\ \A x \in Accesses : x # r => access'[x] = f[x]
          /\ access'[r].ds = job[t].ds /\ access'[r].sub = Lower[job[t].sub]
          /\ access'[r].status = "active"
      BY <1>t, <2>1, <2>2, <2>3, <3>1, InsertedRows
    <3> QED
      BY <2>2, <2>3, <3>1, <3>2 DEF TypeOK, RowsOK
  <2>5. job' \in [Threads -> Job] /\ JobsOK'
    BY <1>16, FinishedJob DEF TypeOK, RowsOK, JobsOK, table, history,
        GrantStore
  <2> QED
    BY <1>16, <2>4, <2>5 DEF TypeOK, RowsOK, JobsOK, table, history,
        GrantStore, JobMember, Member
<1>17. ASSUME NEW t \in Threads, NEW u \in Callers, NEW r \in Accesses,
              RevokeBegin(t, u, r)
       PROVE  TypeOK'
  BY <1>17 DEF TypeOK, RowsOK, JobsOK, table, history,
      RevokeBegin, Start,
       Job, Idle, AccessRow, Expiries, RevokeSteps, IamSteps, StoreSteps, Steps
<1>18. ASSUME NEW t \in Threads, RevokeIam(t)
       PROVE  TypeOK'
  <2>1. Continue(t, "revokeIam", "revokeStore") /\ "revokeIam" \in Steps /\ "revokeStore" \in Steps
    BY <1>18 DEF RevokeIam, Steps, IamSteps, StoreSteps
  <2>2. /\ job' \in [Threads -> Job]
        /\ \A u \in Threads : u # t => job'[u] = job[u]
        /\ job[t].step = "revokeIam"
        /\ job'[t].step = "revokeStore"
        /\ job'[t].ds = job[t].ds /\ job'[t].sub = job[t].sub
        /\ job'[t].acc = job[t].acc /\ job'[t].req = job[t].req
    BY <2>1, ContinuedJob DEF TypeOK
  <2>3. JobsOK'
    BY <2>2 DEF TypeOK, JobsOK, RevokeSteps
  <2>4. job[t].ds \in Datasets /\ job[t].sub \in Subjects
    BY <2>2 DEF TypeOK, JobsOK
  <2>5. job[t].acc \in Accesses
    BY <2>2 DEF TypeOK, JobsOK, RevokeSteps
  <2>6. RowsOK'
    BY <1>18 DEF TypeOK, RowsOK, RevokeIam, table
  <2>7. /\ iam' \subseteq Datasets \X Subjects
        /\ orphaned' \subseteq Datasets \X Subjects
        /\ unbacked' \subseteq Accesses
    BY <1>18, <2>4, <2>5, LowerAssumption DEF TypeOK, RevokeIam, JobMember, Member, history
  <2> QED
    BY <1>18, <2>2, <2>3, <2>6, <2>7 DEF TypeOK, RevokeIam, table
<1>19. ASSUME NEW t \in Threads, RevokeStore(t)
       PROVE  TypeOK'
  <2>1. access' \in [Accesses -> AccessRow] /\ RowsOK'
    <3>1. job[t].acc \in Accesses \cup {None} /\ access' = Revoked(access, job[t].acc)
      BY <1>19, <1>t, RecordFields DEF RevokeStore
    <3>2. UNCHANGED request
      BY <1>19 DEF RevokeStore
    <3>3. /\ access' \in [Accesses -> AccessRow]
          /\ \A x \in Accesses :
                /\ access'[x].ds = access[x].ds
                /\ access'[x].sub = access[x].sub
                /\ (access'[x].status = "free") <=> (access[x].status = "free")
      BY <1>t, <3>1, RevokedRows
    <3> QED
      BY <3>2, <3>3 DEF TypeOK, RowsOK
  <2>2. job' \in [Threads -> Job] /\ JobsOK'
    BY <1>19, <1>t, FinishedJob DEF RevokeStore, TypeOK, JobsOK
  <2> QED
    BY <1>19, <2>1, <2>2 DEF RevokeStore, TypeOK, history
<1>20. ASSUME NEW t \in Threads, IamFails(t)
       PROVE  TypeOK'
  BY <1>20 DEF TypeOK, RowsOK, JobsOK, table, history,
      IamFails, Finish, JobMember, Member,
       Job, Idle, Expiries, RevokeSteps, IamSteps, StoreSteps, Steps
<1>21. ASSUME NEW t \in Threads, StoreFails(t)
       PROVE  TypeOK'
  BY <1>21 DEF TypeOK, RowsOK, JobsOK, table, history,
      StoreFails, Finish, JobMember, Member, Granting,
       Job, Idle, Expiries, RevokeSteps, IamSteps, StoreSteps, Steps
<1>22. ASSUME NEW p \in Pods, EnsurerTick(p)
       PROVE  TypeOK'
  BY <1>22 DEF TypeOK, RowsOK, JobsOK, table, history,
      EnsurerTick, ExpiredAccesses,
       Pass, NoPass
<1>23. ASSUME NEW p \in Pods, NEW r \in Accesses, EnsurerIam(p, r)
       PROVE  TypeOK'
  BY <1>23 DEF TypeOK, RowsOK, JobsOK, table, history,
      EnsurerIam,
       Pass
<1>24. ASSUME NEW p \in Pods, NEW r \in Accesses, EnsurerStore(p, r)
       PROVE  TypeOK'
  <2>1. access' \in [Accesses -> AccessRow] /\ RowsOK'
    <3>1. access' = Revoked(access, r) /\ UNCHANGED request
      BY <1>24 DEF EnsurerStore
    <3>3. /\ access' \in [Accesses -> AccessRow]
          /\ \A x \in Accesses :
                /\ access'[x].ds = access[x].ds
                /\ access'[x].sub = access[x].sub
                /\ (access'[x].status = "free") <=> (access[x].status = "free")
      BY <1>t, <3>1, RevokedRows
    <3> QED
      BY <3>1, <3>3 DEF TypeOK, RowsOK
  <2>2. ensurer' \in [Pods -> Pass]
    BY <1>24 DEF EnsurerStore, TypeOK, Pass
  <2> QED
    BY <1>24, <2>1, <2>2 DEF EnsurerStore, TypeOK, JobsOK, history
<1>25. ASSUME NEW p \in Pods, NEW r \in Accesses, EnsurerIamFails(p, r)
       PROVE  TypeOK'
  BY <1>25 DEF TypeOK, RowsOK, JobsOK, table, history,
      EnsurerIamFails,
       Pass
<1>26. ASSUME NEW p \in Pods, EnsurerStoreFails(p)
       PROVE  TypeOK'
  BY <1>26 DEF TypeOK, RowsOK, JobsOK, table, history,
      EnsurerStoreFails,
       Pass
<1>27. ASSUME NEW p \in Pods, Crash(p)
       PROVE  TypeOK'
  BY <1>27 DEF TypeOK, RowsOK, JobsOK, table, history,
      Crash, JobMember, Member, Granting,
       Job, Idle, Expiries, Pass, NoPass, RevokeSteps, IamSteps, StoreSteps, Steps
<1>28. CASE UNCHANGED vars
  BY <1>28 DEF TypeOK, RowsOK, JobsOK, table, history,
      vars
<1> QED
  BY <1>1, <1>2, <1>3, <1>4, <1>5, <1>6, <1>7, <1>8, <1>9, <1>10, <1>11,
     <1>12, <1>13, <1>14, <1>15, <1>16, <1>17, <1>18, <1>19, <1>20, <1>21,
     <1>22, <1>23, <1>24, <1>25, <1>26, <1>27, <1>28
     DEF Next, HandlerStarts, HandlerSteps, SingleCall, Ensurer

(***************************************************************************)
(* Rows are written once: a step may close a row, never rewrite or free it. *)
(***************************************************************************)

RowsKept ==
  /\ \A r \in Accesses : access[r].status # "free" =>
        /\ access'[r].status # "free"
        /\ access'[r].ds = access[r].ds
        /\ access'[r].sub = access[r].sub
        /\ access'[r].exp = access[r].exp
        /\ access'[r].req = access[r].req
        /\ access'[r].status = "active" => access[r].status = "active"
  /\ \A q \in Requests : request[q].status # "free" =>
        /\ request'[q].status # "free"
        /\ request'[q].ds = request[q].ds
        /\ request'[q].sub = request[q].sub
  /\ \A d \in Datasets : dataset[d] # "absent" => dataset'[d] # "absent"
  /\ now <= now'

\* No handler rewrites the dataset, subject or expiry of an access that exists,
\* reopens one that is closed, or turns the clock back.
THEOREM RowsAreKept == TypeOK /\ [Next]_vars => RowsKept
<1> SUFFICES ASSUME TypeOK, Next \/ UNCHANGED vars PROVE RowsKept
  OBVIOUS
<1>t. /\ access \in [Accesses -> AccessRow] /\ request \in [Requests -> RequestRow]
      /\ job \in [Threads -> Job] /\ now \in Nat
      /\ dataset \in [Datasets -> PiiLevels \cup {"absent", "deleted"}]
  BY DEF TypeOK
<1>1. CASE UNCHANGED <<dataset, access, request>> /\ now <= now'
  BY <1>1 DEF RowsKept
<1>2. ASSUME NEW t \in Threads, NEW d \in Datasets, NEW pii \in PiiLevels,
             CreateDataset(t, d, pii)
      PROVE  RowsKept
  <2>1. \A r \in Accesses : access[r].status # "free" => access'[r] = access[r]
    BY <1>2, <1>t DEF CreateDataset, Insert
  <2>2. UNCHANGED <<request, now>>
    BY <1>2 DEF CreateDataset
  <2>3. \A x \in Datasets : dataset[x] # "absent" => dataset'[x] # "absent"
    BY <1>2, <1>t DEF CreateDataset, PiiLevels
  <2> QED
    BY <1>t, <2>1, <2>2, <2>3 DEF RowsKept
<1>3. ASSUME NEW d \in Datasets, NEW pii \in PiiLevels, UpdateDataset(d, pii)
      PROVE  RowsKept
  BY <1>3, <1>t DEF UpdateDataset, RowsKept, PiiLevels
<1>4. ASSUME NEW d \in Datasets, DeleteDataset(d)
      PROVE  RowsKept
  <2>1. \A r \in Accesses :
           \/ access'[r] = access[r]
           \/ access'[r] = [access[r] EXCEPT !.status = "deleted"]
    BY <1>4 DEF DeleteDataset
  <2>2. \A q \in Requests :
           \/ request'[q] = request[q]
           \/ request'[q] = [request[q] EXCEPT !.status = "deleted"]
    BY <1>4 DEF DeleteDataset
  <2>3. \A r \in Accesses :
           LET x == [access[r] EXCEPT !.status = "deleted"]
           IN  /\ x.status = "deleted" /\ x.ds = access[r].ds /\ x.sub = access[r].sub
               /\ x.exp = access[r].exp /\ x.req = access[r].req
    BY <1>t DEF AccessRow
  <2>4. \A q \in Requests :
           LET x == [request[q] EXCEPT !.status = "deleted"]
           IN  x.status = "deleted" /\ x.ds = request[q].ds /\ x.sub = request[q].sub
    BY <1>t DEF RequestRow
  <2>5. \A x \in Datasets : dataset[x] # "absent" => dataset'[x] # "absent"
    BY <1>4, <1>t DEF DeleteDataset
  <2>6. now' = now
    BY <1>4 DEF DeleteDataset
  <2>7. \A r \in Accesses : access[r].status # "free" =>
            /\ access'[r].status # "free"
            /\ access'[r].ds = access[r].ds
            /\ access'[r].sub = access[r].sub
            /\ access'[r].exp = access[r].exp
            /\ access'[r].req = access[r].req
            /\ access'[r].status = "active" => access[r].status = "active"
    BY <2>1, <2>3
  <2>8. \A q \in Requests : request[q].status # "free" =>
            /\ request'[q].status # "free"
            /\ request'[q].ds = request[q].ds
            /\ request'[q].sub = request[q].sub
    BY <2>2, <2>4
  <2> QED
    BY <1>t, <2>5, <2>6, <2>7, <2>8 DEF RowsKept
<1>5. ASSUME NEW q \in Requests, NEW d \in Datasets, NEW s \in Subjects,
             NEW e \in Expiries, CreateAccessRequest(q, d, s, e)
      PROVE  RowsKept
  BY <1>5, <1>t DEF CreateAccessRequest, RowsKept
<1>6. ASSUME NEW q \in Requests, NEW e \in Expiries, UpdateAccessRequest(q, e)
      PROVE  RowsKept
  <2>1. LET x == [request[q] EXCEPT !.exp = e]
        IN  /\ x.status = request[q].status /\ x.ds = request[q].ds
            /\ x.sub = request[q].sub /\ request' = [request EXCEPT ![q] = x]
    BY <1>6, <1>t DEF UpdateAccessRequest, RequestRow
  <2> QED
    BY <1>6, <1>t, <2>1 DEF UpdateAccessRequest, RowsKept
<1>7. ASSUME NEW q \in Requests, DeleteAccessRequest(q) \/ DenyAccessRequest(q)
      PROVE  RowsKept
  BY <1>7, <1>t, RequestStatus DEF DeleteAccessRequest, DenyAccessRequest, RowsKept
<1>8. ASSUME NEW t \in Threads, ApproveStore(t)
      PROVE  RowsKept
  <2>1. \A r \in Accesses : access[r].status # "free" => access'[r] = access[r]
    BY <1>8, <1>t DEF ApproveStore, Insert
  <2>2. job[t].req \in Requests
    BY <1>8 DEF ApproveStore, TypeOK, JobsOK, StoreSteps
  <2>3. UNCHANGED request \/ SetStatus(job[t].req, "approved")
    BY <1>8 DEF ApproveStore
  <2>4. UNCHANGED <<dataset, now>>
    BY <1>8 DEF ApproveStore
  <2> QED
    BY <1>t, <2>1, <2>2, <2>3, <2>4, RequestStatus DEF RowsKept
<1>9. ASSUME NEW t \in Threads, GrantStore(t)
      PROVE  RowsKept
  <2> DEFINE f == Revoked(access, job[t].acc)
  <2>1. job[t].acc \in Accesses \cup {None}
    BY <1>t, RecordFields
  <2>2. /\ f \in [Accesses -> AccessRow]
        /\ \A x \in Accesses :
              /\ f[x].ds = access[x].ds
              /\ f[x].sub = access[x].sub
              /\ f[x].exp = access[x].exp
              /\ f[x].req = access[x].req
              /\ (f[x].status = "free") <=> (access[x].status = "free")
              /\ f[x].status = "active" => access[x].status = "active"
    BY <1>t, <2>1, RevokedRows
  <2>3. PICK r \in Accesses :
          /\ access[r].status = "free"
          /\ access' = Insert(f, r, job[t].ds, Lower[job[t].sub], job[t].exp, None)
    BY <1>9 DEF GrantStore
  <2> HIDE DEF f
  <2>4. \A x \in Accesses : x # r => access'[x] = f[x]
    BY <2>2, <2>3 DEF Insert
  <2>5. UNCHANGED <<dataset, request, now>>
    BY <1>9 DEF GrantStore
  <2> QED
    BY <1>t, <2>2, <2>3, <2>4, <2>5 DEF RowsKept
<1>10. ASSUME NEW r \in Accesses \cup {None}, access' = Revoked(access, r),
              UNCHANGED <<dataset, request, now>>
       PROVE  RowsKept
  <2>1. \A x \in Accesses :
           /\ access'[x].ds = access[x].ds
           /\ access'[x].sub = access[x].sub
           /\ access'[x].exp = access[x].exp
           /\ access'[x].req = access[x].req
           /\ (access'[x].status = "free") <=> (access[x].status = "free")
           /\ access'[x].status = "active" => access[x].status = "active"
    BY <1>t, <1>10, RevokedRows
  <2> QED
    BY <1>t, <1>10, <2>1 DEF RowsKept
<1>11. ASSUME NEW t \in Threads, RevokeStore(t)
       PROVE  RowsKept
  <2>1. job[t].acc \in Accesses \cup {None}
    BY <1>t, RecordFields
  <2> QED
    BY <1>10, <1>11, <2>1 DEF RevokeStore
<1>12. ASSUME NEW p \in Pods, NEW r \in Accesses, EnsurerStore(p, r)
       PROVE  RowsKept
  BY <1>10, <1>12 DEF EnsurerStore
<1>13. CASE Tick
  BY <1>1, <1>13, <1>t DEF Tick, table
<1>14. ASSUME NEW t \in Threads, UNCHANGED table /\ UNCHANGED now
       PROVE  RowsKept
  BY <1>1, <1>14, <1>t DEF table
<1>15. CASE UNCHANGED vars
  BY <1>1, <1>15, <1>t DEF vars, table
<1>16. ASSUME NEW t \in Threads, HandlerStarts(t)
       PROVE  RowsKept
  BY <1>2, <1>14, <1>16 DEF HandlerStarts, ApproveBegin, GrantBegin, RevokeBegin
<1>17. ASSUME NEW t \in Threads, HandlerSteps(t)
       PROVE  RowsKept
  BY <1>8, <1>9, <1>11, <1>14, <1>17
     DEF HandlerSteps, CreateDatasetIam, ApproveIam, GrantIam, GrantLookup, RevokeIam,
         IamFails, StoreFails
<1>18. ASSUME NEW p \in Pods, Ensurer(p) \/ Crash(p)
       PROVE  RowsKept
  <2>1. CASE \E r \in Accesses : EnsurerStore(p, r)
    BY <1>12, <2>1
  <2>2. CASE UNCHANGED table /\ UNCHANGED now
    BY <1>1, <1>t, <2>2 DEF table
  <2> QED
    BY <1>18, <2>1, <2>2
       DEF Ensurer, EnsurerTick, EnsurerIam, EnsurerIamFails, EnsurerStoreFails, Crash
<1>19. CASE SingleCall
  BY <1>3, <1>4, <1>5, <1>6, <1>7, <1>19 DEF SingleCall
<1> QED
  BY <1>13, <1>15, <1>16, <1>17, <1>18, <1>19 DEF Next

(***************************************************************************)
(* What a step may do to the handler t: it finishes, goes on with the same *)
(* task, or starts one.                                                    *)
(***************************************************************************)

SameTask(t) ==
  /\ job'[t].ds = job[t].ds /\ job'[t].sub = job[t].sub
  /\ job'[t].acc = job[t].acc /\ job'[t].req = job[t].req

GoesOn(t) ==
  /\ SameTask(t)
  /\ \/ job[t].step = "grantIam" /\ job'[t].step = "grantLookup"
     \/ job[t].step = "approveIam" /\ job'[t].step = "approveStore"
     \/ job[t].step = "revokeIam" /\ job'[t].step = "revokeStore"
  /\ IF job[t].step = "revokeIam" THEN JobMember(t) \notin iam' ELSE JobMember(t) \in iam'

LooksUp(t) ==
  /\ job[t].step = "grantLookup" /\ job'[t].step = "grantStore"
  /\ job'[t].ds = job[t].ds /\ job'[t].sub = job[t].sub
  /\ job'[t].acc # None => job'[t].acc \in Renewable(t)
  /\ job'[t].acc = None => Renewable(t) = {}

Starts(t) ==
  /\ job[t].step = "idle"
  /\ \/ job'[t].step = "grantIam" /\ dataset[job'[t].ds] # "absent"
     \/ /\ job'[t].step = "approveIam"
        /\ job'[t].req \in Requests
        /\ request[job'[t].req].status # "free"
        /\ request[job'[t].req].ds = job'[t].ds
        /\ request[job'[t].req].sub = job'[t].sub
     \/ /\ job'[t].step = "revokeIam"
        /\ job'[t].acc \in Accesses
        /\ access[job'[t].acc].status # "free"
        /\ access[job'[t].acc].ds = job'[t].ds
        /\ access[job'[t].acc].sub = job'[t].sub
     \/ /\ job'[t].step = "createIam"
        /\ job'[t].acc \in Accesses
        /\ access'[job'[t].acc].status # "free"
        /\ access'[job'[t].acc].ds = job'[t].ds
        /\ access'[job'[t].acc].sub = job'[t].sub
        /\ dataset'[job'[t].ds] # "absent"

Moves(t) ==
  \/ job'[t] = job[t]
  \/ job'[t].step = "idle"
  \/ GoesOn(t)
  \/ LooksUp(t)
  \/ Starts(t)

\* Only an idle handler starts.
LEMMA StartedJob ==
  ASSUME job \in [Threads -> Job], NEW t \in Threads, NEW j \in Job, Start(t, j)
  PROVE  /\ job[t].step = "idle"
         /\ job'[t] = j
         /\ \A u \in Threads : u # t => job'[u] = job[u]
  BY DEF Start, Idle

\* Every step moves every handler in one of these ways.
THEOREM HandlersMove == TypeOK /\ [Next]_vars => \A t \in Threads : Moves(t)
<1> SUFFICES ASSUME TypeOK, Next \/ UNCHANGED vars
             PROVE  \A t \in Threads : Moves(t)
  OBVIOUS
<1>t. /\ access \in [Accesses -> AccessRow] /\ request \in [Requests -> RequestRow]
      /\ job \in [Threads -> Job]
      /\ dataset \in [Datasets -> PiiLevels \cup {"absent", "deleted"}]
  BY DEF TypeOK
<1>1. CASE UNCHANGED job
  BY <1>1 DEF Moves
<1>2. ASSUME NEW t \in Threads, NEW d \in Datasets, NEW pii \in PiiLevels,
             CreateDataset(t, d, pii)
      PROVE  \A u \in Threads : Moves(u)
  <2>1. CASE \A r \in Accesses :
                ~ Start(t, [Idle EXCEPT !.step = "createIam", !.ds = d,
                                        !.sub = AllUsers, !.acc = r])
    BY <1>1, <1>2, <2>1 DEF CreateDataset
  <2>2. ASSUME NEW r \in Accesses, access[r].status = "free",
               access' = Insert(access, r, d, AllUsers, None, None),
               Start(t, [Idle EXCEPT !.step = "createIam", !.ds = d,
                                     !.sub = AllUsers, !.acc = r])
        PROVE  \A u \in Threads : Moves(u)
    <3> DEFINE j == [Idle EXCEPT !.step = "createIam", !.ds = d,
                                 !.sub = AllUsers, !.acc = r]
    <3>1. /\ j \in Job /\ j.step = "createIam" /\ j.ds = d /\ j.sub = AllUsers
          /\ j.acc = r
      BY DEF Job, Idle, Steps, IamSteps, Expiries
    <3>2. Start(t, j)
      BY <2>2
    <3> HIDE DEF j
    <3>3. /\ job[t].step = "idle" /\ job'[t] = j
          /\ \A u \in Threads : u # t => job'[u] = job[u]
      BY <1>t, <3>1, <3>2, StartedJob
    <3>4. /\ access'[r].status = "active" /\ access'[r].ds = d
          /\ access'[r].sub = AllUsers
      BY <1>t, <2>2 DEF Insert
    <3>5. dataset'[d] # "absent"
      BY <1>2, <1>t DEF CreateDataset, PiiLevels
    <3>6. Starts(t)
      BY <3>1, <3>3, <3>4, <3>5 DEF Starts
    <3> QED
      BY <3>3, <3>6 DEF Moves
  <2> QED
    BY <1>1, <1>2, <2>1, <2>2 DEF CreateDataset
<1>3. ASSUME NEW t \in Threads, NEW q \in Requests, ApproveBegin(t, q)
      PROVE  \A u \in Threads : Moves(u)
  <2> DEFINE j == [Idle EXCEPT !.step = "approveIam", !.ds = request[q].ds,
                               !.sub = request[q].sub, !.exp = request[q].exp,
                               !.req = q]
  <2>1. request[q].status # "free" /\ Start(t, j)
    BY <1>3 DEF ApproveBegin, Filed
  <2>2. /\ request[q].ds \in Datasets /\ request[q].sub \in Subjects
        /\ request[q].exp \in Expiries
    BY <1>t, <2>1, RecordFields DEF TypeOK, RowsOK
  <2>3. /\ j \in Job /\ j.step = "approveIam" /\ j.ds = request[q].ds
        /\ j.sub = request[q].sub /\ j.req = q
    BY <2>2 DEF Job, Idle, Steps, IamSteps
  <2> HIDE DEF j
  <2>4. /\ job[t].step = "idle" /\ job'[t] = j
        /\ \A u \in Threads : u # t => job'[u] = job[u]
    BY <1>t, <2>1, <2>3, StartedJob
  <2> QED
    BY <2>1, <2>3, <2>4 DEF Moves, Starts
<1>4. ASSUME NEW t \in Threads, NEW d \in Datasets, NEW s \in Subjects,
             NEW e \in Expiries, GrantBegin(t, d, s, e)
      PROVE  \A u \in Threads : Moves(u)
  <2> DEFINE j == [Idle EXCEPT !.step = "grantIam", !.ds = d, !.sub = s, !.exp = e]
  <2>1. dataset[d] # "absent" /\ Start(t, j)
    BY <1>4 DEF GrantBegin, Present, PiiLevels
  <2>2. j \in Job /\ j.step = "grantIam" /\ j.ds = d
    BY DEF Job, Idle, Steps, IamSteps
  <2> HIDE DEF j
  <2>3. /\ job[t].step = "idle" /\ job'[t] = j
        /\ \A u \in Threads : u # t => job'[u] = job[u]
    BY <1>t, <2>1, <2>2, StartedJob
  <2> QED
    BY <2>1, <2>2, <2>3 DEF Moves, Starts
<1>5. ASSUME NEW t \in Threads, NEW c \in Callers, NEW r \in Accesses,
             RevokeBegin(t, c, r)
      PROVE  \A u \in Threads : Moves(u)
  <2> DEFINE j == [Idle EXCEPT !.step = "revokeIam", !.ds = access[r].ds,
                               !.sub = access[r].sub, !.acc = r]
  <2>1. access[r].status # "free" /\ Start(t, j)
    BY <1>5 DEF RevokeBegin
  <2>2. access[r].ds \in Datasets /\ access[r].sub \in Subjects
    BY <1>t, <2>1 DEF TypeOK, RowsOK
  <2>3. /\ j \in Job /\ j.step = "revokeIam" /\ j.ds = access[r].ds
        /\ j.sub = access[r].sub /\ j.acc = r
    BY <2>2 DEF Job, Idle, Steps, IamSteps, Expiries
  <2> HIDE DEF j
  <2>4. /\ job[t].step = "idle" /\ job'[t] = j
        /\ \A u \in Threads : u # t => job'[u] = job[u]
    BY <1>t, <2>1, <2>3, StartedJob
  <2> QED
    BY <2>1, <2>3, <2>4 DEF Moves, Starts
<1>6. ASSUME NEW t \in Threads, ApproveIam(t) \/ GrantIam(t) \/ RevokeIam(t)
      PROVE  \A u \in Threads : Moves(u)
  <2>1. \/ Continue(t, "approveIam", "approveStore")
        \/ Continue(t, "grantIam", "grantLookup")
        \/ Continue(t, "revokeIam", "revokeStore")
    BY <1>6 DEF ApproveIam, GrantIam, RevokeIam
  <2>2. \A x \in {"approveIam", "grantIam", "revokeIam", "approveStore",
                  "grantLookup", "revokeStore"} : x \in Steps
    BY DEF Steps, IamSteps, StoreSteps
  <2>3. IF job[t].step = "revokeIam" THEN JobMember(t) \notin iam' ELSE JobMember(t) \in iam'
    BY <1>6 DEF ApproveIam, GrantIam, RevokeIam, Continue
  <2> QED
    BY <1>t, <2>1, <2>2, <2>3, ContinuedJob DEF Moves, GoesOn, SameTask
<1>7. ASSUME NEW t \in Threads, GrantLookup(t)
      PROVE  \A u \in Threads : Moves(u)
  BY <1>t, <1>7, LookedUpJob DEF Moves, LooksUp
<1>8. ASSUME NEW t \in Threads, Finish(t)
      PROVE  \A u \in Threads : Moves(u)
  BY <1>t, <1>8, FinishedJob DEF Moves
<1>9. ASSUME NEW p \in Pods, Crash(p)
      PROVE  \A u \in Threads : Moves(u)
  BY <1>9 DEF Crash, Moves, Idle
<1>10. ASSUME NEW t \in Threads, HandlerStarts(t)
       PROVE  \A u \in Threads : Moves(u)
  BY <1>2, <1>3, <1>4, <1>5, <1>10 DEF HandlerStarts
<1>11. ASSUME NEW t \in Threads, HandlerSteps(t)
       PROVE  \A u \in Threads : Moves(u)
  BY <1>6, <1>7, <1>8, <1>11
     DEF HandlerSteps, CreateDatasetIam, ApproveStore, GrantStore, RevokeStore,
         IamFails, StoreFails
<1>12. CASE SingleCall \/ Tick \/ UNCHANGED vars
  BY <1>1, <1>12
     DEF SingleCall, UpdateDataset, DeleteDataset, CreateAccessRequest,
         UpdateAccessRequest, DeleteAccessRequest, DenyAccessRequest, Tick, vars
<1>13. ASSUME NEW p \in Pods, Ensurer(p)
       PROVE  \A u \in Threads : Moves(u)
  BY <1>1, <1>13
     DEF Ensurer, EnsurerTick, EnsurerIam, EnsurerStore, EnsurerIamFails,
         EnsurerStoreFails
<1> QED
  BY <1>9, <1>10, <1>11, <1>12, <1>13 DEF Next

\* An ensurer takes up expired accesses only, drops the others, and comes to
\* mark a row as revoked by taking its member out of IAM.
EnsurerMoves(p) ==
  /\ \A r \in Accesses : r \in ensurer'[p].todo \/ r = ensurer'[p].at =>
        \/ r \in ensurer[p].todo \/ r = ensurer[p].at
        \/ r \in ExpiredAccesses
  /\ \A r \in Accesses : r = ensurer'[p].at =>
        r = ensurer[p].at \/ MemberOf(r) \notin iam'

\* Every step moves every ensurer in one of these ways.
LEMMA EnsurersMove ==
  ASSUME TypeOK, [Next]_vars
  PROVE  \A p \in Pods : EnsurerMoves(p)
<1> DEFINE Goal == \A p \in Pods : EnsurerMoves(p)
<1> SUFFICES ASSUME Next \/ UNCHANGED vars PROVE Goal
  OBVIOUS
<1>t. ensurer \in [Pods -> Pass]
  BY DEF TypeOK
<1>1. CASE UNCHANGED ensurer
  BY <1>1 DEF EnsurerMoves
<1>2. ASSUME NEW p \in Pods, Ensurer(p)
      PROVE  Goal
  <2>1. CASE EnsurerTick(p)
    <3>1. /\ ensurer'[p].todo = ExpiredAccesses /\ ensurer'[p].at = None
          /\ \A x \in Pods : x # p => ensurer'[x] = ensurer[x]
      BY <2>1, <1>t DEF EnsurerTick, NoPass, Pass
    <3> QED
      BY <3>1 DEF EnsurerMoves
  <2>2. ASSUME NEW r \in Accesses, EnsurerIam(p, r) \/ EnsurerIamFails(p, r)
        PROVE  Goal
    <3>1. /\ r \in ensurer[p].todo
          /\ ensurer'[p].todo \subseteq ensurer[p].todo
          /\ ensurer'[p].at = r \/ ensurer'[p].at = ensurer[p].at
          /\ \A x \in Pods : x # p => ensurer'[x] = ensurer[x]
      BY <2>2, <1>t DEF EnsurerIam, EnsurerIamFails, Pass
    <3>2. MemberOf(r) \notin iam' \/ ensurer'[p].at = ensurer[p].at
      BY <2>2, <1>t DEF EnsurerIam, EnsurerIamFails, Pass
    <3> QED
      BY <3>1, <3>2 DEF EnsurerMoves
  <2>3. CASE (\E r \in Accesses : EnsurerStore(p, r)) \/ EnsurerStoreFails(p)
    <3>1. /\ ensurer'[p].todo = ensurer[p].todo /\ ensurer'[p].at = None
          /\ \A x \in Pods : x # p => ensurer'[x] = ensurer[x]
      BY <2>3, <1>t DEF EnsurerStore, EnsurerStoreFails, Pass
    <3> QED
      BY <3>1 DEF EnsurerMoves
  <2> QED
    BY <1>2, <2>1, <2>2, <2>3 DEF Ensurer
<1>3. ASSUME NEW p \in Pods, Crash(p)
      PROVE  Goal
  BY <1>3, <1>t DEF Crash, NoPass, EnsurerMoves
<1>4. ASSUME NEW t \in Threads, HandlerStarts(t) \/ HandlerSteps(t)
      PROVE  Goal
  BY <1>1, <1>4
     DEF HandlerStarts, CreateDataset, ApproveBegin, GrantBegin, RevokeBegin,
         HandlerSteps, CreateDatasetIam, ApproveIam, ApproveStore, GrantIam,
         GrantLookup, GrantStore, RevokeIam, RevokeStore, IamFails, StoreFails
<1>5. CASE SingleCall \/ Tick \/ UNCHANGED vars
  BY <1>1, <1>5
     DEF SingleCall, UpdateDataset, DeleteDataset, CreateAccessRequest,
         UpdateAccessRequest, DeleteAccessRequest, DenyAccessRequest, Tick, vars
<1> QED
  BY <1>2, <1>3, <1>4, <1>5 DEF Next

\* Only rows that exist are noted as unbacked.
LEMMA UnbackedRows ==
  ASSUME TypeOK, [Next]_vars, HoldersMatchRows
  PROVE  \A r \in unbacked' : access'[r].status # "free"
<1> SUFFICES ASSUME Next \/ UNCHANGED vars
             PROVE  \A r \in unbacked' : access'[r].status # "free"
  OBVIOUS
<1>t. /\ access \in [Accesses -> AccessRow] /\ job \in [Threads -> Job]
      /\ ensurer \in [Pods -> Pass] /\ unbacked \subseteq Accesses
  BY DEF TypeOK
<1>k. \A r \in unbacked : access'[r].status # "free"
  BY <1>t, RowsAreKept DEF HoldersMatchRows, RowsKept
<1>1. CASE UNCHANGED unbacked
  BY <1>1, <1>k
<1>2. ASSUME NEW r \in Accesses, access[r].status # "free",
             unbacked' = unbacked \/ unbacked' = unbacked \cup {r}
      PROVE  \A x \in unbacked' : access'[x].status # "free"
  BY <1>2, <1>k, RowsAreKept DEF RowsKept
<1>3. ASSUME NEW t \in Threads, RevokeIam(t) \/ IamFails(t)
      PROVE  \A r \in unbacked' : access'[r].status # "free"
  <2>1. CASE job[t].step = "revokeIam"
    <3>1. job[t].acc \in Accesses /\ access[job[t].acc].status # "free"
      BY <2>1 DEF TypeOK, JobsOK, RevokeSteps, HoldersMatchRows, Bound
    <3>2. unbacked' = unbacked \/ unbacked' = unbacked \cup {job[t].acc}
      BY <1>3 DEF RevokeIam, IamFails, history
    <3> QED
      BY <1>2, <3>1, <3>2
  <2>2. CASE job[t].step # "revokeIam"
    BY <1>1, <1>3, <2>2 DEF RevokeIam, Continue, IamFails, history
  <2> QED
    BY <2>1, <2>2
<1>4. ASSUME NEW t \in Threads, NEW d \in Datasets, NEW pii \in PiiLevels,
             CreateDataset(t, d, pii)
      PROVE  \A r \in unbacked' : access'[r].status # "free"
  <2>1. ASSUME NEW r \in Accesses, unbacked' = unbacked \cup {r},
               access' = Insert(access, r, d, AllUsers, None, None)
        PROVE  \A x \in unbacked' : access'[x].status # "free"
    <3>1. access'[r].status = "active"
      BY <2>1, <1>t DEF Insert
    <3> QED
      BY <2>1, <3>1, <1>k
  <2> QED
    BY <1>1, <1>4, <2>1 DEF CreateDataset
<1>5. ASSUME NEW t \in Threads, CreateDatasetIam(t)
      PROVE  \A r \in unbacked' : access'[r].status # "free"
  BY <1>5, <1>k DEF CreateDatasetIam
<1>6. ASSUME NEW p \in Pods, Ensurer(p)
      PROVE  \A r \in unbacked' : access'[r].status # "free"
  BY <1>1, <1>2, <1>6
     DEF Ensurer, EnsurerTick, EnsurerIam, EnsurerStore, EnsurerIamFails,
         EnsurerStoreFails, HoldersMatchRows, history
<1>7. ASSUME NEW t \in Threads, HandlerStarts(t)
      PROVE  \A r \in unbacked' : access'[r].status # "free"
  BY <1>1, <1>4, <1>7 DEF HandlerStarts, ApproveBegin, GrantBegin, RevokeBegin, history
<1>8. ASSUME NEW t \in Threads, HandlerSteps(t)
      PROVE  \A r \in unbacked' : access'[r].status # "free"
  BY <1>1, <1>3, <1>5, <1>8
     DEF HandlerSteps, ApproveIam, ApproveStore, GrantIam, GrantLookup, GrantStore,
         RevokeStore, StoreFails, history
<1>9. CASE SingleCall \/ Tick \/ UNCHANGED vars \/ \E p \in Pods : Crash(p)
  BY <1>1, <1>9
     DEF SingleCall, UpdateDataset, DeleteDataset, CreateAccessRequest,
         UpdateAccessRequest, DeleteAccessRequest, DenyAccessRequest, Tick, vars,
         Crash, history
<1> QED
  BY <1>6, <1>7, <1>8, <1>9 DEF Next

\* Whoever holds the id of a row keeps holding the row it took up.
THEOREM HoldersStep == TypeOK /\ HoldersMatchRows /\ [Next]_vars => HoldersMatchRows'
<1> SUFFICES ASSUME TypeOK, HoldersMatchRows, [Next]_vars
             PROVE  HoldersMatchRows'
  OBVIOUS
<1>t. /\ access \in [Accesses -> AccessRow] /\ request \in [Requests -> RequestRow]
      /\ job \in [Threads -> Job] /\ now \in Nat
      /\ ensurer \in [Pods -> Pass] /\ TypeOK'
  BY TypeStep DEF TypeOK
<1>k. RowsKept
  BY RowsAreKept
<1>1. ASSUME NEW t \in Threads,
             \/ job'[t].step \in RevokeSteps \cup {"createIam"}
             \/ job'[t].step = "grantStore" /\ job'[t].acc # None
      PROVE  Bound(job[t].acc, job[t].ds, job[t].sub)'
  <2>1. Moves(t)
    BY HandlersMove
  <2>2. CASE job'[t] = job[t] \/ GoesOn(t)
    <3>1. /\ Bound(job[t].acc, job[t].ds, job[t].sub)
          /\ job[t].acc \in Accesses
      <4>1. \/ job[t].step \in RevokeSteps \cup {"createIam"}
            \/ job[t].step = "grantStore" /\ job[t].acc # None
        BY <1>1, <2>2 DEF GoesOn, SameTask, RevokeSteps
      <4>2. job[t].acc \in Accesses \cup {None}
        BY <1>t, RecordFields
      <4>3. job[t].acc \in Accesses
        BY <4>1, <4>2 DEF TypeOK, JobsOK, RevokeSteps
      <4> QED
        BY <4>1, <4>3 DEF HoldersMatchRows
    <3>2. /\ job'[t].acc = job[t].acc /\ job'[t].ds = job[t].ds
          /\ job'[t].sub = job[t].sub
      BY <2>2 DEF GoesOn, SameTask
    <3> QED
      BY <3>1, <3>2, <1>k DEF Bound, RowsKept
  <2>3. CASE LooksUp(t)
    <3>1. job'[t].acc \in Renewable(t)
      BY <1>1, <2>3 DEF LooksUp, RevokeSteps
    <3>2. /\ job'[t].acc \in Accesses
          /\ access[job'[t].acc].status # "free"
          /\ access[job'[t].acc].ds = job'[t].ds
          /\ access[job'[t].acc].sub = job'[t].sub
      BY <2>3, <3>1 DEF LooksUp, Renewable, InForce
    <3> QED
      BY <3>2, <1>k DEF Bound, RowsKept
  <2>4. CASE Starts(t)
    <3>1. /\ job'[t].acc \in Accesses
          /\ \/ /\ access[job'[t].acc].status # "free"
                /\ access[job'[t].acc].ds = job'[t].ds
                /\ access[job'[t].acc].sub = job'[t].sub
             \/ /\ access'[job'[t].acc].status # "free"
                /\ access'[job'[t].acc].ds = job'[t].ds
                /\ access'[job'[t].acc].sub = job'[t].sub
      BY <1>1, <2>4 DEF Starts, RevokeSteps
    <3> QED
      BY <3>1, <1>k DEF Bound, RowsKept
  <2>5. job'[t].step # "idle"
    BY <1>1 DEF RevokeSteps
  <2> QED
    BY <2>1, <2>2, <2>3, <2>4, <2>5 DEF Moves
<1>2. ASSUME NEW t \in Threads, job'[t].step \in {"approveIam", "approveStore"}
      PROVE  /\ request'[job'[t].req].status # "free"
             /\ request'[job'[t].req].ds = job'[t].ds
             /\ request'[job'[t].req].sub = job'[t].sub
  <2>1. Moves(t)
    BY HandlersMove
  <2>2. CASE job'[t] = job[t] \/ GoesOn(t)
    <3>1. /\ job[t].step \in {"approveIam", "approveStore"}
          /\ job'[t].req = job[t].req /\ job'[t].ds = job[t].ds
          /\ job'[t].sub = job[t].sub
      BY <1>2, <2>2 DEF GoesOn, SameTask
    <3>2. /\ request[job[t].req].status # "free"
          /\ request[job[t].req].ds = job[t].ds
          /\ request[job[t].req].sub = job[t].sub
          /\ job[t].req \in Requests
      BY <3>1 DEF HoldersMatchRows, TypeOK, JobsOK
    <3> QED
      BY <3>1, <3>2, <1>k DEF RowsKept
  <2>3. CASE Starts(t)
    BY <1>2, <2>3, <1>k DEF Starts, RowsKept
  <2> QED
    BY <1>2, <2>1, <2>2, <2>3 DEF Moves, LooksUp
<1>3. ASSUME NEW p \in Pods, NEW r \in Accesses,
             r \in ensurer'[p].todo \/ r = ensurer'[p].at
      PROVE  access'[r].status # "free" /\ Expired(access[r].exp)'
  <2>1. access[r].status # "free" /\ Expired(access[r].exp)
    BY <1>3, EnsurersMove DEF HoldersMatchRows, ExpiredAccesses, EnsurerMoves
  <2>2. access'[r].status # "free" /\ access'[r].exp = access[r].exp /\ now <= now'
    BY <2>1, <1>k DEF RowsKept
  <2>3. now' \in Nat /\ access[r].exp \in Deadlines \cup {None}
    BY <1>t, RecordFields DEF TypeOK, Expiries
  <2>4. access[r].exp # None /\ access[r].exp < now /\ access[r].exp \in Nat
    BY <2>1, <2>3 DEF Expired
  <2>5. access'[r].exp # None /\ access'[r].exp < now'
    BY <1>t, <2>2, <2>3, <2>4
  <2> QED
    BY <2>2, <2>5 DEF Expired
<1>4. \A r \in unbacked' : access'[r].status # "free"
  BY UnbackedRows
<1> QED
  BY <1>1, <1>2, <1>3, <1>4 DEF HoldersMatchRows

\* Only a handler that runs adds a member to IAM.
LEMMA IamGrows ==
  ASSUME TypeOK, [Next]_vars
  PROVE  \A m \in iam' : \/ m \in iam
                         \/ \E t \in Threads : job[t].step # "idle" /\ m = JobMember(t)
<1> DEFINE Goal == \A m \in iam' :
                     \/ m \in iam
                     \/ \E t \in Threads : job[t].step # "idle" /\ m = JobMember(t)
<1> SUFFICES ASSUME Next \/ UNCHANGED vars PROVE Goal
  OBVIOUS
<1>1. CASE iam' \subseteq iam
  BY <1>1
<1>2. ASSUME NEW t \in Threads, job[t].step # "idle", iam' \subseteq iam \cup {JobMember(t)}
      PROVE  Goal
  BY <1>2
<1>3. ASSUME NEW t \in Threads,
             CreateDatasetIam(t) \/ ApproveIam(t) \/ GrantIam(t) \/ IamFails(t)
      PROVE  Goal
  <2>1. job[t].step # "idle"
    BY <1>3 DEF CreateDatasetIam, ApproveIam, GrantIam, IamFails, Continue, IamSteps
  <2>2. iam' \subseteq iam \cup {JobMember(t)}
    BY <1>3 DEF CreateDatasetIam, ApproveIam, GrantIam, IamFails
  <2> QED
    BY <1>2, <2>1, <2>2
<1>4. ASSUME NEW t \in Threads, HandlerStarts(t) \/ HandlerSteps(t)
      PROVE  Goal
  BY <1>1, <1>3, <1>4
     DEF HandlerStarts, CreateDataset, ApproveBegin, GrantBegin, RevokeBegin,
         HandlerSteps, ApproveStore, GrantLookup, GrantStore, RevokeIam, RevokeStore,
         StoreFails
<1>5. ASSUME NEW p \in Pods, Ensurer(p) \/ Crash(p)
      PROVE  Goal
  BY <1>1, <1>5
     DEF Ensurer, EnsurerTick, EnsurerIam, EnsurerStore, EnsurerIamFails,
         EnsurerStoreFails, Crash
<1>6. CASE SingleCall \/ Tick \/ UNCHANGED vars
  BY <1>1, <1>6
     DEF SingleCall, UpdateDataset, DeleteDataset, CreateAccessRequest,
         UpdateAccessRequest, DeleteAccessRequest, DenyAccessRequest, Tick, vars
<1> QED
  BY <1>4, <1>5, <1>6 DEF Next

\* A row or a request that appears is for a dataset that is registered.
LEMMA FreshRows ==
  ASSUME TypeOK, [Next]_vars
  PROVE  /\ \A r \in Accesses : access'[r].status # "free" =>
              access[r].status # "free" \/ dataset'[access'[r].ds] # "absent"
         /\ \A q \in Requests : request'[q].status # "free" =>
              request[q].status # "free" \/ dataset'[request'[q].ds] # "absent"
<1> DEFINE A == \A r \in Accesses : access'[r].status # "free" =>
                   access[r].status # "free" \/ dataset'[access'[r].ds] # "absent"
           Q == \A q \in Requests : request'[q].status # "free" =>
                   request[q].status # "free" \/ dataset'[request'[q].ds] # "absent"
<1> SUFFICES ASSUME Next \/ UNCHANGED vars PROVE A /\ Q
  OBVIOUS
<1>t. /\ access \in [Accesses -> AccessRow] /\ request \in [Requests -> RequestRow]
      /\ job \in [Threads -> Job]
      /\ dataset \in [Datasets -> PiiLevels \cup {"absent", "deleted"}]
  BY DEF TypeOK
<1>1. ASSUME UNCHANGED access PROVE A
  BY <1>1
<1>2. ASSUME UNCHANGED request PROVE Q
  BY <1>2
<1>3. ASSUME NEW t \in Threads, NEW d \in Datasets, NEW pii \in PiiLevels,
             CreateDataset(t, d, pii)
      PROVE  A /\ Q
  <2>1. ASSUME NEW r \in Accesses,
               access' = Insert(access, r, d, AllUsers, None, None)
        PROVE  A
    <3>1. access'[r].ds = d /\ \A x \in Accesses : x # r => access'[x] = access[x]
      BY <1>t, <2>1 DEF Insert
    <3>2. dataset'[d] # "absent"
      BY <1>t, <1>3 DEF CreateDataset, PiiLevels
    <3> QED
      BY <3>1, <3>2
  <2> QED
    BY <1>1, <1>2, <1>3, <2>1 DEF CreateDataset
<1>4. ASSUME NEW d \in Datasets, DeleteDataset(d)
      PROVE  A /\ Q
  <2>1. \A r \in Accesses : access[r].status = "free" => access'[r] = access[r]
    BY <1>4, <1>t DEF DeleteDataset, TypeOK, RowsOK
  <2>2. \A q \in Requests : request[q].status = "free" => request'[q] = request[q]
    BY <1>4, <1>t DEF DeleteDataset, TypeOK, RowsOK
  <2> QED
    BY <2>1, <2>2
<1>5. ASSUME NEW q \in Requests, NEW d \in Datasets, NEW s \in Subjects,
             NEW e \in Expiries, CreateAccessRequest(q, d, s, e)
      PROVE  A /\ Q
  <2>1. dataset'[d] # "absent"
    BY <1>5 DEF CreateAccessRequest, Present, PiiLevels
  <2>2. request'[q].ds = d /\ \A x \in Requests : x # q => request'[x] = request[x]
    BY <1>5, <1>t DEF CreateAccessRequest
  <2> QED
    BY <1>1, <1>5, <2>1, <2>2 DEF CreateAccessRequest
<1>6. ASSUME NEW q \in Requests, NEW e \in Expiries, UpdateAccessRequest(q, e)
      PROVE  A /\ Q
  BY <1>1, <1>6, <1>t DEF UpdateAccessRequest, Filed
<1>7. ASSUME NEW q \in Requests, DeleteAccessRequest(q) \/ DenyAccessRequest(q)
      PROVE  A /\ Q
  BY <1>1, <1>7, <1>t DEF DeleteAccessRequest, DenyAccessRequest, Filed, SetStatus
<1>8. ASSUME NEW t \in Threads, ApproveStore(t)
      PROVE  A /\ Q
  <2>1. PICK r \in Accesses :
           access' = Insert(access, r, job[t].ds, job[t].sub, job[t].exp, job[t].req)
    BY <1>8 DEF ApproveStore
  <2>2. access'[r].ds = job[t].ds /\ \A x \in Accesses : x # r => access'[x] = access[x]
    BY <1>t, <2>1 DEF Insert
  <2>3. dataset'[job[t].ds] # "absent"
    BY <1>8 DEF ApproveStore, Present, PiiLevels
  <2>4. Q
    BY <1>8, <1>t, <1>2 DEF ApproveStore, Filed, SetStatus
  <2> QED
    BY <2>2, <2>3, <2>4
<1>9. ASSUME NEW t \in Threads, GrantStore(t)
      PROVE  A /\ Q
  <2> DEFINE f == Revoked(access, job[t].acc)
  <2>1. job[t].acc \in Accesses \cup {None}
    BY <1>t, RecordFields
  <2>2. /\ f \in [Accesses -> AccessRow]
        /\ \A x \in Accesses : (f[x].status = "free") <=> (access[x].status = "free")
    BY <1>t, <2>1, RevokedRows
  <2>3. PICK r \in Accesses :
           access' = Insert(f, r, job[t].ds, Lower[job[t].sub], job[t].exp, None)
    BY <1>9 DEF GrantStore
  <2> HIDE DEF f
  <2>4. access'[r].ds = job[t].ds /\ \A x \in Accesses : x # r => access'[x] = f[x]
    BY <2>2, <2>3 DEF Insert
  <2>5. dataset'[job[t].ds] # "absent"
    BY <1>9 DEF GrantStore, Present, PiiLevels
  <2>6. UNCHANGED request
    BY <1>9 DEF GrantStore
  <2> QED
    BY <1>2, <2>2, <2>4, <2>5, <2>6
<1>10. ASSUME NEW r \in Accesses \cup {None}, access' = Revoked(access, r)
       PROVE  A
  BY <1>t, <1>10, RevokedRows
<1>11. ASSUME NEW t \in Threads, RevokeStore(t)
       PROVE  A /\ Q
  <2>1. job[t].acc \in Accesses \cup {None}
    BY <1>t, RecordFields
  <2> QED
    BY <1>2, <1>10, <1>11, <2>1 DEF RevokeStore
<1>12. ASSUME NEW p \in Pods, NEW r \in Accesses, EnsurerStore(p, r)
       PROVE  A /\ Q
  BY <1>2, <1>10, <1>12 DEF EnsurerStore
<1>13. CASE UNCHANGED table
  BY <1>1, <1>2, <1>13 DEF table
<1>14. ASSUME NEW t \in Threads, HandlerStarts(t)
       PROVE  A /\ Q
  BY <1>3, <1>13, <1>14 DEF HandlerStarts, ApproveBegin, GrantBegin, RevokeBegin
<1>15. ASSUME NEW t \in Threads, HandlerSteps(t)
       PROVE  A /\ Q
  BY <1>8, <1>9, <1>11, <1>13, <1>15
     DEF HandlerSteps, CreateDatasetIam, ApproveIam, GrantIam, GrantLookup, RevokeIam,
         IamFails, StoreFails
<1>16. ASSUME NEW p \in Pods, Ensurer(p) \/ Crash(p)
       PROVE  A /\ Q
  BY <1>12, <1>13, <1>16
     DEF Ensurer, EnsurerTick, EnsurerIam, EnsurerIamFails, EnsurerStoreFails, Crash
<1>17. CASE SingleCall
  BY <1>1, <1>2, <1>4, <1>5, <1>6, <1>7, <1>17 DEF SingleCall, UpdateDataset
<1>18. CASE Tick \/ UNCHANGED vars
  BY <1>13, <1>18 DEF Tick, vars
<1> QED
  BY <1>14, <1>15, <1>16, <1>17, <1>18 DEF Next

\* Whatever refers to a dataset refers to one that was registered.
THEOREM DatasetsStep ==
  TypeOK /\ HoldersMatchRows /\ DatasetsKnown /\ [Next]_vars => DatasetsKnown'
<1> SUFFICES ASSUME TypeOK, HoldersMatchRows, DatasetsKnown, [Next]_vars
             PROVE  DatasetsKnown'
  OBVIOUS
<1>t. /\ access \in [Accesses -> AccessRow] /\ request \in [Requests -> RequestRow]
      /\ job \in [Threads -> Job] /\ iam \subseteq Datasets \X Subjects
      /\ TypeOK'
  BY TypeStep DEF TypeOK
<1>k. RowsKept
  BY RowsAreKept
<1>1. \A m \in iam' : dataset'[m[1]] # "absent"
  <2> SUFFICES ASSUME NEW m \in iam' PROVE dataset'[m[1]] # "absent"
    OBVIOUS
  <2>1. CASE m \in iam
    <3>1. m[1] \in Datasets /\ dataset[m[1]] # "absent"
      BY <1>t, <2>1 DEF DatasetsKnown
    <3> QED
      BY <1>k, <3>1 DEF RowsKept
  <2>2. ASSUME NEW t \in Threads, job[t].step # "idle", m = JobMember(t)
        PROVE  dataset'[m[1]] # "absent"
    <3>1. m[1] = job[t].ds
      BY <2>2 DEF JobMember, Member
    <3>2. job[t].ds \in Datasets /\ dataset[job[t].ds] # "absent"
      BY <2>2 DEF TypeOK, JobsOK, DatasetsKnown
    <3> QED
      BY <1>k, <3>1, <3>2 DEF RowsKept
  <2> QED
    BY <2>1, <2>2, IamGrows
<1>2. ASSUME NEW t \in Threads, job'[t].step # "idle"
      PROVE  dataset'[job'[t].ds] # "absent"
  <2>1. CASE job'[t] = job[t] \/ GoesOn(t) \/ LooksUp(t)
    <3>1. job'[t].ds = job[t].ds /\ job[t].step # "idle"
      BY <1>2, <2>1 DEF GoesOn, SameTask, LooksUp
    <3>2. job[t].ds \in Datasets /\ dataset[job[t].ds] # "absent"
      BY <3>1 DEF TypeOK, JobsOK, DatasetsKnown
    <3> QED
      BY <1>k, <3>1, <3>2 DEF RowsKept
  <2>2. CASE Starts(t)
    <3>1. job'[t].ds \in Datasets
      BY <1>2, <1>t DEF TypeOK, JobsOK
    <3>2. dataset[job'[t].ds] # "absent" \/ dataset'[job'[t].ds] # "absent"
      BY <2>2 DEF Starts, DatasetsKnown
    <3> QED
      BY <1>k, <3>1, <3>2 DEF RowsKept
  <2> QED
    BY <1>2, <2>1, <2>2, HandlersMove DEF Moves
<1>3. ASSUME NEW r \in Accesses, access'[r].status # "free"
      PROVE  dataset'[access'[r].ds] # "absent"
  <2>1. CASE access[r].status # "free"
    <3>1. access[r].ds \in Datasets /\ dataset[access[r].ds] # "absent"
      BY <2>1 DEF TypeOK, RowsOK, DatasetsKnown
    <3> QED
      BY <1>k, <2>1, <3>1 DEF RowsKept
  <2> QED
    BY <1>3, <2>1, FreshRows
<1>4. ASSUME NEW q \in Requests, request'[q].status # "free"
      PROVE  dataset'[request'[q].ds] # "absent"
  <2>1. CASE request[q].status # "free"
    <3>1. request[q].ds \in Datasets /\ dataset[request[q].ds] # "absent"
      BY <2>1 DEF TypeOK, RowsOK, DatasetsKnown
    <3> QED
      BY <1>k, <2>1, <3>1 DEF RowsKept
  <2> QED
    BY <1>4, <2>1, FreshRows
<1> QED
  BY <1>1, <1>2, <1>3, <1>4 DEF DatasetsKnown

(***************************************************************************)
(* What takes a member out of IAM leaves a note of the row it was for.     *)
(***************************************************************************)

\* A member that is backed stays so.
LEMMA BackedKept ==
  ASSUME TypeOK, HoldersMatchRows, [Next]_vars, NEW m, Backed(m)
  PROVE  Backed(m)'
<1> SUFFICES ASSUME Next \/ UNCHANGED vars PROVE Backed(m)'
  OBVIOUS
<1>t. job \in [Threads -> Job] /\ unbacked \subseteq Accesses
  BY DEF TypeOK
<1>k. \A r \in Accesses : access[r].status # "free" =>
         /\ access'[r].ds = access[r].ds /\ access'[r].sub = access[r].sub
  BY RowsAreKept DEF RowsKept
<1>1. ASSUME NEW r \in unbacked, MemberOf(r) = m, r \in unbacked'
      PROVE  Backed(m)'
  <2>1. access'[r].ds = access[r].ds /\ access'[r].sub = access[r].sub
    BY <1>t, <1>k DEF HoldersMatchRows
  <2> QED
    BY <1>1, <2>1 DEF Backed, MemberOf
<1>2. CASE iam \subseteq iam' /\ unbacked \subseteq unbacked'
  BY <1>1, <1>2 DEF Backed
<1>3. ASSUME NEW r \in Accesses, access[r].status # "free", UNCHANGED access,
             iam' = iam \ {MemberOf(r)}, unbacked' = unbacked \cup {r}
      PROVE  Backed(m)'
  BY <1>1, <1>3 DEF Backed, MemberOf
<1>4. ASSUME NEW t \in Threads, CreateDatasetIam(t)
      PROVE  Backed(m)'
  <2> DEFINE r == job[t].acc
  <2>1. r \in Accesses /\ access[r].ds = job[t].ds /\ access[r].sub = job[t].sub
    BY <1>4 DEF CreateDatasetIam, TypeOK, JobsOK, HoldersMatchRows, Bound
  <2>2. CASE m = MemberOf(r)
    BY <1>4, <2>1, <2>2 DEF CreateDatasetIam, Backed, MemberOf, JobMember
  <2>3. CASE m # MemberOf(r)
    BY <1>1, <1>4, <2>3 DEF CreateDatasetIam, Backed
  <2> QED
    BY <2>2, <2>3
<1>5. ASSUME NEW t \in Threads, RevokeIam(t) \/ (IamFails(t) /\ job[t].step = "revokeIam")
      PROVE  Backed(m)'
  <2>1. job[t].step = "revokeIam"
    BY <1>5 DEF RevokeIam, Continue
  <2>2. /\ job[t].acc \in Accesses /\ access[job[t].acc].status # "free"
        /\ MemberOf(job[t].acc) = JobMember(t)
    BY <2>1 DEF TypeOK, JobsOK, HoldersMatchRows, Bound, RevokeSteps, MemberOf, JobMember
  <2>3. UNCHANGED access
    BY <1>5 DEF RevokeIam, IamFails, table
  <2>4. CASE UNCHANGED <<iam, unbacked>>
    BY <1>2, <2>4
  <2>5. CASE /\ iam' = iam \ {JobMember(t)}
             /\ unbacked' = unbacked \cup {job[t].acc}
    BY <1>3, <2>2, <2>3, <2>5
  <2> QED
    BY <1>5, <2>1, <2>4, <2>5 DEF RevokeIam, IamFails, history
<1>6. ASSUME NEW p \in Pods, Ensurer(p) \/ Crash(p)
      PROVE  Backed(m)'
  <2>1. ASSUME NEW r \in Accesses, EnsurerIam(p, r) \/ EnsurerIamFails(p, r)
        PROVE  Backed(m)'
    <3>1. access[r].status # "free" /\ UNCHANGED access
      BY <2>1 DEF EnsurerIam, EnsurerIamFails, HoldersMatchRows, table
    <3>2. \/ UNCHANGED <<iam, unbacked>>
          \/ iam' = iam \ {MemberOf(r)} /\ unbacked' = unbacked \cup {r}
      BY <2>1 DEF EnsurerIam, EnsurerIamFails, history
    <3> QED
      BY <1>2, <1>3, <3>1, <3>2
  <2>2. CASE UNCHANGED <<iam, unbacked>>
    BY <1>2, <2>2
  <2> QED
    BY <1>6, <2>1, <2>2
       DEF Ensurer, EnsurerTick, EnsurerStore, EnsurerStoreFails, Crash, history
<1>7. ASSUME NEW t \in Threads, HandlerStarts(t)
      PROVE  Backed(m)'
  <2>1. iam \subseteq iam' /\ unbacked \subseteq unbacked'
    BY <1>7
       DEF HandlerStarts, CreateDataset, ApproveBegin, GrantBegin, RevokeBegin, history
  <2> QED
    BY <1>2, <2>1
<1>8. ASSUME NEW t \in Threads, HandlerSteps(t)
      PROVE  Backed(m)'
  <2>1. CASE IamFails(t) /\ job[t].step # "revokeIam"
    BY <1>2, <2>1 DEF IamFails, history
  <2>2. CASE \/ ApproveIam(t) \/ ApproveStore(t) \/ GrantIam(t) \/ GrantLookup(t)
             \/ GrantStore(t) \/ RevokeStore(t) \/ StoreFails(t)
    BY <1>2, <2>2
       DEF ApproveIam, ApproveStore, GrantIam, GrantLookup, GrantStore, RevokeStore,
           StoreFails, history
  <2> QED
    BY <1>4, <1>5, <1>8, <2>1, <2>2 DEF HandlerSteps
<1>9. CASE SingleCall \/ Tick \/ UNCHANGED vars
  BY <1>2, <1>9
     DEF SingleCall, UpdateDataset, DeleteDataset, CreateAccessRequest,
         UpdateAccessRequest, DeleteAccessRequest, DenyAccessRequest, Tick, vars, history
<1> QED
  BY <1>6, <1>7, <1>8, <1>9 DEF Next

\* What a handler has granted stays backed until it has recorded it.
THEOREM GrantsStep ==
  TypeOK /\ HoldersMatchRows /\ GrantsAreBacked /\ [Next]_vars => GrantsAreBacked'
<1> SUFFICES ASSUME TypeOK, HoldersMatchRows, GrantsAreBacked, [Next]_vars,
                    NEW t \in Threads, Granting(t)'
             PROVE  Backed(JobMember(t))'
  BY DEF GrantsAreBacked
<1>t. job \in [Threads -> Job]
  BY DEF TypeOK
<1>1. CASE Granting(t) /\ job'[t].ds = job[t].ds /\ job'[t].sub = job[t].sub
  <2>1. PICK m : m = JobMember(t)
    OBVIOUS
  <2>2. Backed(m)'
    BY <1>1, <2>1, BackedKept DEF GrantsAreBacked
  <2>3. JobMember(t)' = m
    BY <1>1, <2>1 DEF JobMember
  <2> QED
    BY <2>2, <2>3 DEF Backed
<1>2. CASE GoesOn(t) /\ job[t].step \in {"grantIam", "approveIam"}
  BY <1>2 DEF GoesOn, SameTask, JobMember, Backed
<1> QED
  BY <1>1, <1>2, HandlersMove DEF Moves, GoesOn, LooksUp, SameTask, Starts, Granting

\* An access that appears is for a member that is backed.
LEMMA FreshAccess ==
  ASSUME TypeOK, HoldersMatchRows, GrantsAreBacked, [Next]_vars,
         NEW r \in Accesses, access[r].status = "free", access'[r].status = "active"
  PROVE  Backed(MemberOf(r))'
<1> SUFFICES ASSUME Next \/ UNCHANGED vars PROVE Backed(MemberOf(r))'
  OBVIOUS
<1>t. access \in [Accesses -> AccessRow] /\ job \in [Threads -> Job]
  BY DEF TypeOK
<1>1. CASE UNCHANGED access
  BY <1>1
<1>2. ASSUME NEW t \in Threads, NEW d \in Datasets, NEW pii \in PiiLevels,
             CreateDataset(t, d, pii)
      PROVE  Backed(MemberOf(r))'
  <2>1. ASSUME NEW x \in Accesses, unbacked' = unbacked \cup {x},
               access' = Insert(access, x, d, AllUsers, None, None)
        PROVE  Backed(MemberOf(r))'
    <3>1. r = x
      BY <1>t, <2>1 DEF Insert
    <3> QED
      BY <2>1, <3>1 DEF Backed
  <2> QED
    BY <1>1, <1>2, <2>1 DEF CreateDataset
<1>3. ASSUME NEW t \in Threads, ApproveStore(t) \/ GrantStore(t), NEW f,
             f \in [Accesses -> AccessRow],
             \A x \in Accesses : (f[x].status = "free") <=> (access[x].status = "free"),
             NEW x \in Accesses, NEW s \in Subjects, NEW e \in Expiries,
             NEW q \in Requests \cup {None},
             access' = Insert(f, x, job[t].ds, s, e, q), Lower[s] = Lower[job[t].sub]
      PROVE  Backed(MemberOf(r))'
  <2>1. job[t].ds \in Datasets /\ Granting(t)
    BY <1>3 DEF ApproveStore, GrantStore, Granting, TypeOK, JobsOK
  <2>2. r = x
    BY <1>3, <1>t DEF Insert
  <2>3. access'[r].ds = job[t].ds /\ access'[r].sub = s
    BY <1>3, <2>1, <2>2, InsertedRows
  <2>4. MemberOf(r)' = JobMember(t)
    BY <1>3, <2>3 DEF MemberOf, JobMember, Member
  <2>5. PICK m : m = JobMember(t)
    OBVIOUS
  <2>6. Backed(m)'
    BY <2>1, <2>5, BackedKept DEF GrantsAreBacked
  <2> QED
    BY <2>4, <2>5, <2>6 DEF Backed
<1>4. ASSUME NEW t \in Threads, ApproveStore(t)
      PROVE  Backed(MemberOf(r))'
  <2>1. job[t].exp \in Expiries /\ job[t].req \in Requests /\ job[t].sub \in Subjects
    BY <1>4, <1>t, RecordFields DEF ApproveStore, TypeOK, JobsOK
  <2>2. PICK x \in Accesses :
           access' = Insert(access, x, job[t].ds, job[t].sub, job[t].exp, job[t].req)
    BY <1>4 DEF ApproveStore
  <2> QED
    BY <1>3, <1>4, <1>t, <2>1, <2>2
<1>5. ASSUME NEW t \in Threads, GrantStore(t)
      PROVE  Backed(MemberOf(r))'
  <2> DEFINE f == Revoked(access, job[t].acc)
  <2>1. /\ job[t].exp \in Expiries /\ job[t].sub \in Subjects
        /\ job[t].acc \in Accesses \cup {None} /\ Lower[job[t].sub] \in Subjects
    BY <1>5, <1>t, RecordFields DEF GrantStore, TypeOK, JobsOK
  <2>2. PICK x \in Accesses :
           access' = Insert(f, x, job[t].ds, Lower[job[t].sub], job[t].exp, None)
    BY <1>5 DEF GrantStore
  <2>3. /\ f \in [Accesses -> AccessRow]
        /\ \A y \in Accesses : (f[y].status = "free") <=> (access[y].status = "free")
    <3>1. job[t].acc \in Accesses \cup {None}
      BY <2>1
    <3>2. f \in [Accesses -> AccessRow]
      BY <1>t, <3>1, RevokedRows
    <3>3. \A y \in Accesses : (f[y].status = "free") <=> (access[y].status = "free")
      BY <1>t, <3>1, RevokedRows
    <3> QED
      BY <3>2, <3>3
  <2> HIDE DEF f
  <2>4. Lower[Lower[job[t].sub]] = Lower[job[t].sub]
    BY <2>1
  <2> QED
    BY <1>3, <1>5, <2>1, <2>2, <2>3, <2>4
<1>6. CASE \A x \in Accesses : access[x].status = "free" => access'[x] = access[x]
  BY <1>6
<1>7. ASSUME NEW d \in Datasets, DeleteDataset(d)
      PROVE  Backed(MemberOf(r))'
  BY <1>6, <1>7, <1>t DEF DeleteDataset, TypeOK, RowsOK
<1>8. ASSUME NEW x \in Accesses \cup {None}, access' = Revoked(access, x)
      PROVE  Backed(MemberOf(r))'
  BY <1>8, <1>t, RevokedRows
<1>9. ASSUME NEW t \in Threads, RevokeStore(t)
      PROVE  Backed(MemberOf(r))'
  <2>1. job[t].acc \in Accesses \cup {None}
    BY <1>t, RecordFields
  <2> QED
    BY <1>8, <1>9, <2>1 DEF RevokeStore
<1>10. ASSUME NEW t \in Threads, HandlerStarts(t)
       PROVE  Backed(MemberOf(r))'
  BY <1>1, <1>2, <1>10 DEF HandlerStarts, ApproveBegin, GrantBegin, RevokeBegin, table
<1>11. ASSUME NEW t \in Threads, HandlerSteps(t)
       PROVE  Backed(MemberOf(r))'
  BY <1>1, <1>4, <1>5, <1>9, <1>11
     DEF HandlerSteps, CreateDatasetIam, ApproveIam, GrantIam, GrantLookup, RevokeIam,
         IamFails, StoreFails, table
<1>12. ASSUME NEW p \in Pods, Ensurer(p) \/ Crash(p)
       PROVE  Backed(MemberOf(r))'
  BY <1>1, <1>8, <1>12
     DEF Ensurer, EnsurerTick, EnsurerIam, EnsurerStore, EnsurerIamFails,
         EnsurerStoreFails, Crash, table
<1>13. CASE SingleCall \/ Tick \/ UNCHANGED vars
  BY <1>1, <1>7, <1>13
     DEF SingleCall, UpdateDataset, CreateAccessRequest, UpdateAccessRequest,
         DeleteAccessRequest, DenyAccessRequest, Tick, vars, table
<1> QED
  BY <1>10, <1>11, <1>12, <1>13 DEF Next

\* An active access stays backed.
THEOREM AccessIsBackedStep ==
  TypeOK /\ HoldersMatchRows /\ GrantsAreBacked /\ AccessIsBacked /\ [Next]_vars
     => AccessIsBacked'
<1> SUFFICES ASSUME TypeOK, HoldersMatchRows, GrantsAreBacked, AccessIsBacked,
                    [Next]_vars, NEW r \in Accesses, access'[r].status = "active"
             PROVE  Backed(MemberOf(r))'
  BY DEF AccessIsBacked
<1>1. CASE access[r].status = "free"
  BY <1>1, FreshAccess
<1>2. CASE access[r].status # "free"
  <2>1. PICK m : m = MemberOf(r)
    OBVIOUS
  <2>2. /\ access[r].status = "active" /\ access'[r].ds = access[r].ds
        /\ access'[r].sub = access[r].sub
    BY <1>2, RowsAreKept DEF RowsKept
  <2>3. Backed(m)'
    BY <2>1, <2>2, BackedKept DEF AccessIsBacked
  <2>4. MemberOf(r)' = m
    BY <2>1, <2>2 DEF MemberOf
  <2> QED
    BY <2>3, <2>4 DEF Backed
<1> QED
  BY <1>1, <1>2

(***************************************************************************)
(* Every member in IAM is accounted for.  A row that stands for a member   *)
(* can stop standing in three ways, and each is answered:                  *)
(*   - somebody comes to close it: the member has just left IAM;           *)
(*   - a renewal replaces it: the new row stands;                          *)
(*   - the dataset goes.                                                   *)
(***************************************************************************)

\* Whoever comes to close a row has just taken its member out of IAM.
LEMMA NewlyDoomed ==
  ASSUME TypeOK, HoldersMatchRows, [Next]_vars,
         NEW r \in Accesses, access[r].status # "free", ~ Doomed(r), Doomed(r)'
  PROVE  MemberOf(r) \notin iam'
<1>1. ASSUME NEW t \in Threads, job'[t].step = "revokeStore", job'[t].acc = r
      PROVE  MemberOf(r) \notin iam'
  <2>1. GoesOn(t) /\ job[t].step = "revokeIam"
    BY <1>1, HandlersMove DEF Moves, GoesOn, LooksUp, Starts, Doomed
  <2>2. JobMember(t) \notin iam' /\ job[t].acc = r
    BY <1>1, <2>1 DEF GoesOn, SameTask
  <2>3. access[r].ds = job[t].ds /\ access[r].sub = job[t].sub
    BY <2>1, <2>2 DEF HoldersMatchRows, Bound, RevokeSteps
  <2> QED
    BY <2>2, <2>3 DEF MemberOf, JobMember
<1>2. ASSUME NEW p \in Pods, ensurer'[p].at = r
      PROVE  MemberOf(r) \notin iam'
  BY <1>2, EnsurersMove DEF EnsurerMoves, Doomed
<1> QED
  BY <1>1, <1>2 DEF Doomed

\* A row is closed by whoever came to close it, or by the renewal that
\* replaces it, or it goes with its dataset.
LEMMA RowCloses ==
  ASSUME TypeOK, [Next]_vars, NEW r \in Accesses,
         access[r].status = "active", access'[r].status # "active"
  PROVE  \/ Doomed(r)
         \/ ~ Present(access[r].ds)'
         \/ \E t \in Threads : GrantStore(t) /\ job[t].acc = r
<1> DEFINE Goal == \/ Doomed(r)
                   \/ ~ Present(access[r].ds)'
                   \/ \E t \in Threads : GrantStore(t) /\ job[t].acc = r
<1> SUFFICES ASSUME Next \/ UNCHANGED vars PROVE Goal
  OBVIOUS
<1>t. access \in [Accesses -> AccessRow] /\ job \in [Threads -> Job]
  BY DEF TypeOK
<1>1. CASE access'[r] = access[r]
  BY <1>1
<1>2. ASSUME NEW t \in Threads, NEW d \in Datasets, NEW pii \in PiiLevels,
             CreateDataset(t, d, pii)
      PROVE  Goal
  BY <1>1, <1>2, <1>t DEF CreateDataset, Insert
<1>3. ASSUME NEW d \in Datasets, DeleteDataset(d)
      PROVE  Goal
  <2>1. access'[r].ds = d
    BY <1>1, <1>3, RowsAreKept DEF DeleteDataset, RowsKept
  <2>2. dataset'[d] = "deleted"
    BY <1>3 DEF DeleteDataset, TypeOK
  <2> QED
    BY <2>1, <2>2 DEF Present, PiiLevels
<1>4. ASSUME NEW t \in Threads, ApproveStore(t)
      PROVE  Goal
  BY <1>1, <1>4, <1>t DEF ApproveStore, Insert
<1>5. ASSUME NEW t \in Threads, GrantStore(t)
      PROVE  Goal
  <2> DEFINE f == Revoked(access, job[t].acc)
  <2>1. job[t].acc \in Accesses \cup {None}
    BY <1>t, RecordFields
  <2>2. f \in [Accesses -> AccessRow]
    BY <1>t, <2>1, RevokedRows
  <2>3. job[t].acc # r => f[r].status = "active"
    BY <1>t, <2>1, RevokedRows
  <2>4. PICK x \in Accesses :
           /\ access[x].status = "free"
           /\ access' = Insert(f, x, job[t].ds, Lower[job[t].sub], job[t].exp, None)
    BY <1>5 DEF GrantStore
  <2> HIDE DEF f
  <2>5. access'[r] = f[r]
    BY <2>2, <2>4 DEF Insert
  <2> QED
    BY <1>5, <2>3, <2>5
<1>6. ASSUME NEW x \in Accesses \cup {None}, access' = Revoked(access, x)
      PROVE  x = r
  <2>1. (access'[r].status = "active") <=> (access[r].status = "active" /\ r # x)
    BY <1>6, <1>t, RevokedRows
  <2> QED
    BY <2>1
<1>7. ASSUME NEW t \in Threads, RevokeStore(t)
      PROVE  Goal
  <2>1. job[t].acc \in Accesses \cup {None}
    BY <1>t, RecordFields
  <2> QED
    BY <1>6, <1>7, <2>1 DEF RevokeStore, Doomed
<1>8. ASSUME NEW p \in Pods, NEW x \in Accesses, EnsurerStore(p, x)
      PROVE  Goal
  BY <1>6, <1>8 DEF EnsurerStore, Doomed
<1>9. ASSUME NEW t \in Threads, HandlerStarts(t)
      PROVE  Goal
  BY <1>1, <1>2, <1>9 DEF HandlerStarts, ApproveBegin, GrantBegin, RevokeBegin, table
<1>10. ASSUME NEW t \in Threads, HandlerSteps(t)
       PROVE  Goal
  BY <1>1, <1>4, <1>5, <1>7, <1>10
     DEF HandlerSteps, CreateDatasetIam, ApproveIam, GrantIam, GrantLookup, RevokeIam,
         IamFails, StoreFails, table
<1>11. ASSUME NEW p \in Pods, Ensurer(p) \/ Crash(p)
       PROVE  Goal
  BY <1>1, <1>8, <1>11
     DEF Ensurer, EnsurerTick, EnsurerIam, EnsurerIamFails, EnsurerStoreFails, Crash, table
<1>12. CASE SingleCall \/ Tick \/ UNCHANGED vars
  BY <1>1, <1>3, <1>12
     DEF SingleCall, UpdateDataset, CreateAccessRequest, UpdateAccessRequest,
         DeleteAccessRequest, DenyAccessRequest, Tick, vars, table
<1> QED
  BY <1>9, <1>10, <1>11, <1>12 DEF Next

\* An access that a handler stores stands for the member it granted.
LEMMA StoredAccessStands ==
  ASSUME TypeOK, HoldersMatchRows, NEW t \in Threads, ApproveStore(t) \/ GrantStore(t),
         NEW m, m = JobMember(t)
  PROVE  Standing(m)'
<1>t. access \in [Accesses -> AccessRow] /\ job \in [Threads -> Job]
  BY DEF TypeOK
<1>1. ASSUME NEW x \in Accesses, access[x].status = "free", access'[x].status = "active",
             access'[x].ds = job[t].ds, Lower[access'[x].sub] = Lower[job[t].sub]
      PROVE  Standing(m)'
  <2>1. \A u \in Threads : job'[u] = job[u] \/ job'[u].step = "idle"
    BY <1>t, FinishedJob DEF ApproveStore, GrantStore
  <2>2. UNCHANGED ensurer
    BY DEF ApproveStore, GrantStore
  <2>3. ~ Doomed(x)
    BY <1>1 DEF Doomed, HoldersMatchRows, Bound, RevokeSteps
  <2>4. ~ Doomed(x)'
    BY <2>1, <2>2, <2>3 DEF Doomed
  <2>5. MemberOf(x)' = m
    BY <1>1 DEF MemberOf, JobMember, Member
  <2> QED
    BY <1>1, <2>4, <2>5 DEF Standing
<1>2. CASE ApproveStore(t)
  <2>1. PICK x \in Accesses :
           /\ access[x].status = "free"
           /\ access' = Insert(access, x, job[t].ds, job[t].sub, job[t].exp, job[t].req)
    BY <1>2 DEF ApproveStore
  <2>2. /\ access'[x].status = "active" /\ access'[x].ds = job[t].ds
        /\ access'[x].sub = job[t].sub
    BY <1>t, <2>1 DEF Insert
  <2> QED
    BY <1>1, <2>1, <2>2
<1>3. CASE GrantStore(t)
  <2> DEFINE f == Revoked(access, job[t].acc)
  <2>1. job[t].acc \in Accesses \cup {None}
    BY <1>t, RecordFields
  <2>2. f \in [Accesses -> AccessRow]
    BY <1>t, <2>1, RevokedRows
  <2>3. PICK x \in Accesses :
           /\ access[x].status = "free"
           /\ access' = Insert(f, x, job[t].ds, Lower[job[t].sub], job[t].exp, None)
    BY <1>3 DEF GrantStore
  <2> HIDE DEF f
  <2>4. /\ access'[x].status = "active" /\ access'[x].ds = job[t].ds
        /\ access'[x].sub = Lower[job[t].sub]
    BY <2>2, <2>3 DEF Insert
  <2>5. Lower[Lower[job[t].sub]] = Lower[job[t].sub]
    BY <1>3 DEF GrantStore, TypeOK, JobsOK
  <2> QED
    BY <1>1, <2>3, <2>4, <2>5
<1> QED
  BY <1>2, <1>3

\* A member that stands and stays in IAM with its dataset goes on standing: its
\* row is not about to be closed, so only a renewal replaces it.
LEMMA StandingKept ==
  ASSUME TypeOK, HoldersMatchRows, [Next]_vars,
         NEW m, Standing(m), m \in iam', Present(m[1])'
  PROVE  Standing(m)'
<1>1. PICK r \in Accesses :
         access[r].status = "active" /\ MemberOf(r) = m /\ ~ Doomed(r)
  BY DEF Standing
<1>2. access'[r].ds = access[r].ds /\ access'[r].sub = access[r].sub
  BY <1>1, RowsAreKept DEF RowsKept
<1>3. CASE access'[r].status = "active"
  <2>1. ~ Doomed(r)'
    BY <1>1, NewlyDoomed
  <2>2. MemberOf(r)' = m
    BY <1>1, <1>2 DEF MemberOf
  <2> QED
    BY <1>3, <2>1, <2>2 DEF Standing
<1>4. CASE access'[r].status # "active"
  <2>1. m[1] = access[r].ds
    BY <1>1 DEF MemberOf, Member
  <2>2. Present(access[r].ds)'
    BY <1>2, <2>1 DEF Present
  <2>3. PICK t \in Threads : GrantStore(t) /\ job[t].acc = r
    BY <1>1, <1>4, <2>2, RowCloses
  <2>4. access[r].ds = job[t].ds /\ access[r].sub = job[t].sub
    BY <2>3 DEF GrantStore, HoldersMatchRows, Bound
  <2>5. m = JobMember(t)
    BY <1>1, <2>4 DEF MemberOf, JobMember
  <2> QED
    BY <2>3, <2>5, StoredAccessStands
<1> QED
  BY <1>3, <1>4

\* A handler that stops granting has stored its access, or leaves the member
\* on the list of orphans.
LEMMA GrantingKept ==
  ASSUME TypeOK, HoldersMatchRows, [Next]_vars,
         NEW t \in Threads, Granting(t), NEW m, m = JobMember(t)
  PROVE  AccountedFor(m)'
<1> SUFFICES ASSUME Next \/ UNCHANGED vars PROVE AccountedFor(m)'
  OBVIOUS
<1>t. job \in [Threads -> Job]
  BY DEF TypeOK
<1>1. CASE Granting(t)' /\ job'[t].ds = job[t].ds /\ job'[t].sub = job[t].sub
  BY <1>1 DEF AccountedFor, JobMember
<1>2. CASE ~ Granting(t)'
  <2>1. CASE ApproveStore(t) \/ GrantStore(t)
    BY <2>1, StoredAccessStands DEF AccountedFor
  <2>2. CASE StoreFails(t)
    BY <2>2 DEF StoreFails, AccountedFor
  <2>3. ASSUME NEW p \in Pods, Crash(p)
        PROVE  AccountedFor(m)'
    <3>1. PodOf[t] = p
      BY <1>2, <2>3 DEF Crash, Granting
    <3> QED
      BY <2>3, <3>1 DEF Crash, AccountedFor
  <2>4. CASE job'[t] = job[t]
    BY <1>2, <2>4 DEF Granting
  <2>5. ASSUME NEW u \in Threads, HandlerStarts(u)
        PROVE  job'[t] = job[t]
    <3>1. CASE UNCHANGED job
      BY <3>1
    <3>2. ASSUME NEW j, Start(u, j)
          PROVE  job'[t] = job[t]
      BY <3>2, <1>t DEF Start, Idle, Granting
    <3> QED
      BY <2>5, <3>1, <3>2
         DEF HandlerStarts, CreateDataset, ApproveBegin, GrantBegin, RevokeBegin
  <2>6. ASSUME NEW u \in Threads, u # t, HandlerSteps(u)
        PROVE  job'[t] = job[t]
    <3>1. CASE Finish(u)
      BY <1>t, <2>6, <3>1, FinishedJob
    <3>2. CASE GrantLookup(u)
      BY <1>t, <2>6, <3>2, LookedUpJob
    <3>3. ASSUME NEW from, NEW to, Continue(u, from, to)
          PROVE  job'[t] = job[t]
      BY <1>t, <2>6, <3>3 DEF Continue
    <3> QED
      BY <2>6, <3>1, <3>2, <3>3
         DEF HandlerSteps, CreateDatasetIam, ApproveIam, ApproveStore, GrantIam,
             GrantStore, RevokeIam, RevokeStore, IamFails, StoreFails
  <2>8. CASE HandlerSteps(t)
    <3>1. ~ GrantLookup(t)
      BY <1>2, <1>t, LookedUpJob DEF Granting
    <3> QED
      BY <2>1, <2>2, <2>8, <3>1
         DEF HandlerSteps, CreateDatasetIam, ApproveIam, GrantIam, RevokeIam,
             RevokeStore, IamFails, Continue, Granting, IamSteps
  <2>7. ASSUME SingleCall \/ Tick \/ UNCHANGED vars \/ \E p \in Pods : Ensurer(p)
        PROVE  job'[t] = job[t]
    BY <2>7
       DEF SingleCall, UpdateDataset, DeleteDataset, CreateAccessRequest,
           UpdateAccessRequest, DeleteAccessRequest, DenyAccessRequest, Tick, vars,
           Ensurer, EnsurerTick, EnsurerIam, EnsurerStore, EnsurerIamFails,
           EnsurerStoreFails
  <2> QED
    BY <2>1, <2>2, <2>3, <2>4, <2>5, <2>6, <2>7, <2>8 DEF Next
<1> QED
  BY <1>1, <1>2, HandlersMove DEF Moves, GoesOn, LooksUp, SameTask, Starts, Granting

\* An orphan leaves the list when its member leaves IAM or gets an access.
LEMMA OrphanedKept ==
  ASSUME TypeOK, HoldersMatchRows, [Next]_vars, NEW m \in orphaned, m \in iam'
  PROVE  AccountedFor(m)'
<1> SUFFICES ASSUME Next \/ UNCHANGED vars PROVE AccountedFor(m)'
  OBVIOUS
<1>1. CASE m \in orphaned'
  BY <1>1 DEF AccountedFor
<1>2. ASSUME NEW t \in Threads, ApproveStore(t) \/ GrantStore(t)
      PROVE  AccountedFor(m)'
  <2>1. CASE m = JobMember(t)
    BY <1>2, <2>1, StoredAccessStands DEF AccountedFor
  <2>2. CASE m # JobMember(t)
    BY <1>1, <1>2, <2>2 DEF ApproveStore, GrantStore
  <2> QED
    BY <2>1, <2>2
<1>3. ASSUME NEW t \in Threads, HandlerSteps(t)
      PROVE  AccountedFor(m)'
  <2>1. CASE RevokeIam(t) \/ IamFails(t)
    BY <1>1, <2>1 DEF RevokeIam, IamFails, history
  <2> QED
    BY <1>1, <1>2, <1>3, <2>1
       DEF HandlerSteps, CreateDatasetIam, ApproveIam, GrantIam, GrantLookup,
           RevokeStore, StoreFails, history
<1>4. ASSUME NEW p \in Pods, Ensurer(p) \/ Crash(p)
      PROVE  AccountedFor(m)'
  BY <1>1, <1>4
     DEF Ensurer, EnsurerTick, EnsurerIam, EnsurerStore, EnsurerIamFails,
         EnsurerStoreFails, Crash, history
<1>5. ASSUME NEW t \in Threads, HandlerStarts(t)
      PROVE  AccountedFor(m)'
  BY <1>1, <1>5
     DEF HandlerStarts, CreateDataset, ApproveBegin, GrantBegin, RevokeBegin, history
<1>6. CASE SingleCall \/ Tick \/ UNCHANGED vars
  BY <1>1, <1>6
     DEF SingleCall, UpdateDataset, DeleteDataset, CreateAccessRequest,
         UpdateAccessRequest, DeleteAccessRequest, DenyAccessRequest, Tick, vars, history
<1> QED
  BY <1>3, <1>4, <1>5, <1>6 DEF Next

\* A member that enters IAM enters on somebody's account.
LEMMA NewMember ==
  ASSUME TypeOK, HoldersMatchRows, [Next]_vars, NEW m, m \notin iam, m \in iam'
  PROVE  AccountedFor(m)'
<1> SUFFICES ASSUME Next \/ UNCHANGED vars PROVE AccountedFor(m)'
  OBVIOUS
<1>t. job \in [Threads -> Job] /\ access \in [Accesses -> AccessRow]
  BY DEF TypeOK
<1>1. CASE iam' \subseteq iam
  BY <1>1
<1>2. ASSUME NEW t \in Threads, ApproveIam(t) \/ GrantIam(t)
      PROVE  AccountedFor(m)'
  <2>1. m = JobMember(t)
    BY <1>2 DEF ApproveIam, GrantIam
  <2>2. \A x \in {"approveIam", "grantIam", "approveStore", "grantLookup"} : x \in Steps
    BY DEF Steps, IamSteps, StoreSteps
  <2>3. /\ job'[t].ds = job[t].ds /\ job'[t].sub = job[t].sub
        /\ job'[t].step \in {"approveStore", "grantLookup"}
    BY <1>2, <1>t, <2>2, ContinuedJob DEF ApproveIam, GrantIam
  <2> QED
    BY <2>1, <2>3 DEF AccountedFor, Granting, JobMember
<1>3. ASSUME NEW t \in Threads, CreateDatasetIam(t)
      PROVE  AccountedFor(m)'
  <2> DEFINE r == job[t].acc
  <2>1. m = JobMember(t)
    BY <1>3 DEF CreateDatasetIam
  <2>2. r \in Accesses /\ access[r].ds = job[t].ds /\ access[r].sub = job[t].sub
    BY <1>3 DEF CreateDatasetIam, TypeOK, JobsOK, HoldersMatchRows, Bound
  <2>3. CASE access[r].status # "active" \/ Doomed(r)
    BY <1>3, <2>1, <2>3 DEF CreateDatasetIam, AccountedFor
  <2>4. CASE access[r].status = "active" /\ ~ Doomed(r)
    <3>1. \A u \in Threads : job'[u] = job[u] \/ job'[u].step = "idle"
      BY <1>3, <1>t, FinishedJob DEF CreateDatasetIam
    <3>2. UNCHANGED <<access, ensurer>>
      BY <1>3 DEF CreateDatasetIam, table
    <3>3. \A x \in Accesses : ~ Doomed(x) => ~ Doomed(x)'
      BY <3>1, <3>2 DEF Doomed
    <3>4. \A x \in Accesses : MemberOf(x)' = MemberOf(x)
      BY <3>2 DEF MemberOf
    <3>5. MemberOf(r) = m
      BY <2>1, <2>2 DEF MemberOf, JobMember
    <3> HIDE DEF r
    <3>6. Standing(m)'
      BY <2>2, <2>4, <3>2, <3>3, <3>4, <3>5 DEF Standing
    <3> QED
      BY <3>6 DEF AccountedFor
  <2> QED
    BY <2>3, <2>4
<1>4. ASSUME NEW t \in Threads, IamFails(t)
      PROVE  AccountedFor(m)'
  BY <1>4 DEF IamFails, AccountedFor
<1>5. ASSUME NEW t \in Threads, HandlerStarts(t) \/ HandlerSteps(t)
      PROVE  AccountedFor(m)'
  BY <1>1, <1>2, <1>3, <1>4, <1>5
     DEF HandlerStarts, CreateDataset, ApproveBegin, GrantBegin, RevokeBegin,
         HandlerSteps, ApproveStore, GrantLookup, GrantStore, RevokeIam, RevokeStore,
         StoreFails
<1>6. ASSUME NEW p \in Pods, Ensurer(p) \/ Crash(p)
      PROVE  AccountedFor(m)'
  BY <1>1, <1>6
     DEF Ensurer, EnsurerTick, EnsurerIam, EnsurerStore, EnsurerIamFails,
         EnsurerStoreFails, Crash
<1>7. CASE SingleCall \/ Tick \/ UNCHANGED vars
  BY <1>1, <1>7
     DEF SingleCall, UpdateDataset, DeleteDataset, CreateAccessRequest,
         UpdateAccessRequest, DeleteAccessRequest, DenyAccessRequest, Tick, vars
<1> QED
  BY <1>5, <1>6, <1>7 DEF Next

\* A dataset that was registered is not registered anew.
LEMMA PresentBefore ==
  ASSUME TypeOK, [Next]_vars, NEW d \in Datasets, dataset[d] # "absent", Present(d)'
  PROVE  Present(d)
<1> SUFFICES ASSUME Next \/ UNCHANGED vars PROVE Present(d)
  OBVIOUS
<1>t. dataset \in [Datasets -> PiiLevels \cup {"absent", "deleted"}]
  BY DEF TypeOK
<1>1. CASE UNCHANGED dataset
  BY <1>1 DEF Present
<1>2. ASSUME NEW t \in Threads, NEW x \in Datasets, NEW pii \in PiiLevels,
             CreateDataset(t, x, pii)
      PROVE  Present(d)
  BY <1>2, <1>t DEF CreateDataset, Present, PiiLevels
<1>3. ASSUME NEW x \in Datasets, NEW pii \in PiiLevels, UpdateDataset(x, pii)
      PROVE  Present(d)
  BY <1>3, <1>t DEF UpdateDataset, Present
<1>4. ASSUME NEW x \in Datasets, DeleteDataset(x)
      PROVE  Present(d)
  BY <1>4, <1>t DEF DeleteDataset, Present, PiiLevels
<1>5. ASSUME NEW t \in Threads, HandlerStarts(t) \/ HandlerSteps(t)
      PROVE  Present(d)
  BY <1>1, <1>2, <1>5
     DEF HandlerStarts, ApproveBegin, GrantBegin, RevokeBegin,
         HandlerSteps, CreateDatasetIam, ApproveIam, ApproveStore, GrantIam, GrantLookup,
         GrantStore, RevokeIam, RevokeStore, IamFails, StoreFails, table
<1>6. ASSUME NEW p \in Pods, Ensurer(p) \/ Crash(p)
      PROVE  Present(d)
  BY <1>1, <1>6
     DEF Ensurer, EnsurerTick, EnsurerIam, EnsurerStore, EnsurerIamFails,
         EnsurerStoreFails, Crash, table
<1>7. CASE SingleCall \/ Tick \/ UNCHANGED vars
  BY <1>1, <1>3, <1>4, <1>7
     DEF SingleCall, CreateAccessRequest, UpdateAccessRequest, DeleteAccessRequest,
         DenyAccessRequest, Tick, vars, table
<1> QED
  BY <1>5, <1>6, <1>7 DEF Next

\* Every member in IAM of a registered dataset stays accounted for.
THEOREM IamIsAccountedForStep ==
  TypeOK /\ HoldersMatchRows /\ DatasetsKnown /\ IamIsAccountedFor /\ [Next]_vars
     => IamIsAccountedFor'
<1> SUFFICES ASSUME TypeOK, HoldersMatchRows, DatasetsKnown, IamIsAccountedFor,
                    [Next]_vars, NEW m \in iam', Present(m[1])'
             PROVE  AccountedFor(m)'
  BY DEF IamIsAccountedFor
<1>1. CASE m \notin iam
  BY <1>1, NewMember
<1>2. CASE m \in iam
  <2>1. m[1] \in Datasets /\ dataset[m[1]] # "absent"
    BY <1>2 DEF TypeOK, DatasetsKnown
  <2>2. AccountedFor(m)
    BY <1>2, <2>1, PresentBefore DEF IamIsAccountedFor
  <2>3. CASE m \in orphaned
    BY <2>3, OrphanedKept
  <2>4. CASE \E t \in Threads : Granting(t) /\ JobMember(t) = m
    BY <2>4, GrantingKept
  <2>5. CASE Standing(m)
    BY <2>5, StandingKept DEF AccountedFor
  <2> QED
    BY <2>2, <2>3, <2>4, <2>5 DEF AccountedFor
<1> QED
  BY <1>1, <1>2

(***************************************************************************)
(* Approving is all or nothing.                                            *)
(***************************************************************************)

\* A closed request stays closed, and only ApproveStore approves one.
RequestMoves(q) ==
  /\ request[q].status \notin {"free", "pending"} =>
        request'[q].status \notin {"free", "pending"}
  /\ request'[q].status = "approved" =>
        \/ request[q].status = "approved"
        \/ \E t \in Threads : ApproveStore(t) /\ job[t].req = q

\* Every step moves every request in one of these ways.
LEMMA RequestsMove ==
  ASSUME TypeOK, [Next]_vars
  PROVE  \A q \in Requests : RequestMoves(q)
<1> DEFINE Goal == \A q \in Requests : RequestMoves(q)
<1> SUFFICES ASSUME Next \/ UNCHANGED vars PROVE Goal
  OBVIOUS
<1>t. request \in [Requests -> RequestRow]
  BY DEF TypeOK
<1>1. CASE UNCHANGED request
  BY <1>1 DEF RequestMoves
<1>2. ASSUME NEW d \in Datasets, DeleteDataset(d)
      PROVE  Goal
  <2>1. \A q \in Requests :
           \/ request'[q] = request[q]
           \/ request'[q] = [request[q] EXCEPT !.status = "deleted"]
    BY <1>2 DEF DeleteDataset
  <2>2. \A q \in Requests : [request[q] EXCEPT !.status = "deleted"].status = "deleted"
    BY <1>t DEF RequestRow
  <2> QED
    BY <2>1, <2>2 DEF RequestMoves
<1>3. ASSUME NEW q \in Requests, NEW d \in Datasets, NEW s \in Subjects,
             NEW e \in Expiries, CreateAccessRequest(q, d, s, e)
      PROVE  Goal
  BY <1>3, <1>t DEF CreateAccessRequest, RequestMoves
<1>4. ASSUME NEW q \in Requests, NEW e \in Expiries, UpdateAccessRequest(q, e)
      PROVE  Goal
  <2>1. /\ request'[q].status = request[q].status
        /\ \A x \in Requests : x # q => request'[x] = request[x]
    BY <1>4, <1>t DEF UpdateAccessRequest, RequestRow
  <2> QED
    BY <2>1 DEF RequestMoves
<1>5. ASSUME NEW q \in Requests, DeleteAccessRequest(q) \/ DenyAccessRequest(q)
      PROVE  Goal
  <2>1. SetStatus(q, "deleted") \/ SetStatus(q, "denied")
    BY <1>5 DEF DeleteAccessRequest, DenyAccessRequest
  <2>2. /\ request'[q].status \in {"deleted", "denied"}
        /\ \A x \in Requests : x # q => request'[x] = request[x]
    BY <1>t, <2>1 DEF SetStatus, RequestRow
  <2> QED
    BY <2>2 DEF RequestMoves
<1>6. ASSUME NEW t \in Threads, ApproveStore(t)
      PROVE  Goal
  <2>1. CASE SetStatus(job[t].req, "approved")
    <3>1. job[t].req \in Requests
      BY <1>6 DEF ApproveStore, TypeOK, JobsOK
    <3>2. /\ request'[job[t].req].status = "approved"
          /\ \A x \in Requests : x # job[t].req => request'[x] = request[x]
      BY <1>t, <2>1, <3>1 DEF SetStatus, RequestRow
    <3> QED
      BY <1>6, <3>2 DEF RequestMoves
  <2> QED
    BY <1>1, <1>6, <2>1 DEF ApproveStore
<1>7. ASSUME NEW t \in Threads, HandlerStarts(t) \/ HandlerSteps(t)
      PROVE  Goal
  BY <1>1, <1>6, <1>7
     DEF HandlerStarts, CreateDataset, ApproveBegin, GrantBegin, RevokeBegin,
         HandlerSteps, CreateDatasetIam, ApproveIam, GrantIam, GrantLookup, GrantStore,
         RevokeIam, RevokeStore, IamFails, StoreFails, table
<1>8. ASSUME NEW p \in Pods, Ensurer(p) \/ Crash(p)
      PROVE  Goal
  BY <1>1, <1>8
     DEF Ensurer, EnsurerTick, EnsurerIam, EnsurerStore, EnsurerIamFails,
         EnsurerStoreFails, Crash, table
<1>9. CASE SingleCall \/ Tick \/ UNCHANGED vars
  BY <1>1, <1>2, <1>3, <1>4, <1>5, <1>9
     DEF SingleCall, UpdateDataset, Tick, vars, table
<1> QED
  BY <1>7, <1>8, <1>9 DEF Next

\* A row stays in the table until its dataset goes, and only ApproveStore
\* stores a row that names a request.
RowMoves(r) ==
  /\ access[r].status \in {"active", "revoked"} =>
        \/ access'[r].status \in {"active", "revoked"}
        \/ DeleteDataset(access[r].ds)
  /\ \/ access'[r].req = access[r].req
     \/ access'[r].req = None
     \/ \E t \in Threads : ApproveStore(t) /\ access'[r].req = job[t].req

\* Every step moves every access in one of these ways.
LEMMA RowsMove ==
  ASSUME TypeOK, [Next]_vars
  PROVE  \A r \in Accesses : RowMoves(r)
<1> DEFINE Goal == \A r \in Accesses : RowMoves(r)
<1> SUFFICES ASSUME Next \/ UNCHANGED vars PROVE Goal
  OBVIOUS
<1>t. access \in [Accesses -> AccessRow] /\ job \in [Threads -> Job]
  BY DEF TypeOK
<1>1. CASE UNCHANGED access
  BY <1>1 DEF RowMoves
<1>2. ASSUME NEW t \in Threads, NEW d \in Datasets, NEW pii \in PiiLevels,
             CreateDataset(t, d, pii)
      PROVE  Goal
  <2>1. ASSUME NEW x \in Accesses,
               access' = Insert(access, x, d, AllUsers, None, None)
        PROVE  Goal
    <3>1. /\ access'[x].status = "active" /\ access'[x].req = None
          /\ \A y \in Accesses : y # x => access'[y] = access[y]
      BY <1>t, <2>1 DEF Insert
    <3> QED
      BY <3>1 DEF RowMoves
  <2> QED
    BY <1>1, <1>2, <2>1 DEF CreateDataset
<1>3. ASSUME NEW d \in Datasets, DeleteDataset(d)
      PROVE  Goal
  <2>1. \A r \in Accesses :
           \/ access'[r] = access[r]
           \/ access[r].ds = d /\ access'[r] = [access[r] EXCEPT !.status = "deleted"]
    BY <1>3 DEF DeleteDataset
  <2>2. \A r \in Accesses :
           [access[r] EXCEPT !.status = "deleted"].req = access[r].req
    BY <1>t DEF AccessRow
  <2> QED
    BY <1>3, <2>1, <2>2 DEF RowMoves
<1>4. ASSUME NEW t \in Threads, ApproveStore(t)
      PROVE  Goal
  <2>1. PICK x \in Accesses :
           access' = Insert(access, x, job[t].ds, job[t].sub, job[t].exp, job[t].req)
    BY <1>4 DEF ApproveStore
  <2>2. /\ access'[x].status = "active" /\ access'[x].req = job[t].req
        /\ \A y \in Accesses : y # x => access'[y] = access[y]
    BY <1>t, <2>1 DEF Insert
  <2> QED
    BY <1>4, <2>2 DEF RowMoves
<1>5. ASSUME NEW r \in Accesses \cup {None}
      PROVE  \A x \in Accesses :
                /\ Revoked(access, r)[x].req = access[x].req
                /\ access[x].status \in {"active", "revoked"} =>
                      Revoked(access, r)[x].status \in {"active", "revoked"}
  <2>1. \A x \in Accesses : Revoked(access, r)[x].req = access[x].req
    BY <1>t, RevokedRows
  <2>2. Revoked(access, r) \in [Accesses -> AccessRow]
    BY <1>t, RevokedRows
  <2>3. \A x \in Accesses :
           (Revoked(access, r)[x].status = "free") <=> (access[x].status = "free")
    BY <1>t, RevokedRows
  <2>4. \A x \in Accesses :
           (Revoked(access, r)[x].status = "deleted") <=> (access[x].status = "deleted")
    BY <1>t, RevokedRows
  <2>5. \A x \in Accesses :
           Revoked(access, r)[x].status \in {"free", "active", "revoked", "deleted"}
    BY <2>2 DEF AccessRow
  <2> QED
    BY <2>1, <2>3, <2>4, <2>5
<1>6. ASSUME NEW t \in Threads, GrantStore(t)
      PROVE  Goal
  <2> DEFINE f == Revoked(access, job[t].acc)
  <2>1. job[t].acc \in Accesses \cup {None}
    BY <1>t, RecordFields
  <2>2. f \in [Accesses -> AccessRow]
    BY <1>t, <2>1, RevokedRows
  <2>3. \A x \in Accesses :
           /\ f[x].req = access[x].req
           /\ access[x].status \in {"active", "revoked"} =>
                 f[x].status \in {"active", "revoked"}
    BY <1>5, <2>1
  <2>4. PICK x \in Accesses :
           access' = Insert(f, x, job[t].ds, Lower[job[t].sub], job[t].exp, None)
    BY <1>6 DEF GrantStore
  <2> HIDE DEF f
  <2>5. /\ access'[x].status = "active" /\ access'[x].req = None
        /\ \A y \in Accesses : y # x => access'[y] = f[y]
    BY <2>2, <2>4 DEF Insert
  <2> QED
    BY <2>3, <2>5 DEF RowMoves
<1>7. ASSUME NEW t \in Threads, RevokeStore(t)
      PROVE  Goal
  <2>1. job[t].acc \in Accesses \cup {None}
    BY <1>t, RecordFields
  <2> QED
    BY <1>5, <1>7, <2>1 DEF RevokeStore, RowMoves
<1>8. ASSUME NEW p \in Pods, NEW r \in Accesses, EnsurerStore(p, r)
      PROVE  Goal
  BY <1>5, <1>8 DEF EnsurerStore, RowMoves
<1>9. ASSUME NEW t \in Threads, HandlerStarts(t) \/ HandlerSteps(t)
      PROVE  Goal
  BY <1>1, <1>2, <1>4, <1>6, <1>7, <1>9
     DEF HandlerStarts, ApproveBegin, GrantBegin, RevokeBegin,
         HandlerSteps, CreateDatasetIam, ApproveIam, GrantIam, GrantLookup,
         RevokeIam, IamFails, StoreFails, table
<1>10. ASSUME NEW p \in Pods, Ensurer(p) \/ Crash(p)
       PROVE  Goal
  BY <1>1, <1>8, <1>10
     DEF Ensurer, EnsurerTick, EnsurerIam, EnsurerIamFails, EnsurerStoreFails, Crash,
         table
<1>11. CASE SingleCall \/ Tick \/ UNCHANGED vars
  BY <1>1, <1>3, <1>11
     DEF SingleCall, UpdateDataset, CreateAccessRequest, UpdateAccessRequest,
         DeleteAccessRequest, DenyAccessRequest, Tick, vars, table
<1> QED
  BY <1>9, <1>10, <1>11 DEF Next

\* Approving stays all or nothing.
THEOREM ApprovedStep ==
  TypeOK /\ HoldersMatchRows /\ ApprovedMeansAccess /\ [Next]_vars
     => ApprovedMeansAccess'
<1> SUFFICES ASSUME TypeOK, HoldersMatchRows, ApprovedMeansAccess, [Next]_vars
             PROVE  ApprovedMeansAccess'
  OBVIOUS
<1>t. access \in [Accesses -> AccessRow] /\ request \in [Requests -> RequestRow]
  BY DEF TypeOK
<1>k. RowsKept
  BY RowsAreKept
<1>1. ASSUME NEW t \in Threads, ApproveStore(t)
      PROVE  /\ job[t].req \in Requests
             /\ request'[job[t].req].status \notin {"free", "pending"}
             /\ \E r \in Accesses :
                  /\ access'[r].status = "active"
                  /\ access'[r].req = job[t].req
                  /\ access'[r].ds = request'[job[t].req].ds
                  /\ access'[r].sub = request'[job[t].req].sub
  <2>1. job[t].req \in Requests /\ job[t].step = "approveStore"
    BY <1>1 DEF ApproveStore, TypeOK, JobsOK
  <2>2. /\ request[job[t].req].status # "free"
        /\ request'[job[t].req].ds = job[t].ds
        /\ request'[job[t].req].sub = job[t].sub
    BY <1>k, <2>1 DEF HoldersMatchRows, RowsKept
  <2>3. PICK x \in Accesses :
           access' = Insert(access, x, job[t].ds, job[t].sub, job[t].exp, job[t].req)
    BY <1>1 DEF ApproveStore
  <2>4. /\ access'[x].status = "active" /\ access'[x].req = job[t].req
        /\ access'[x].ds = job[t].ds /\ access'[x].sub = job[t].sub
    BY <1>t, <2>3 DEF Insert
  <2>5. request'[job[t].req].status \notin {"free", "pending"}
    <3>1. CASE Filed(job[t].req)
      BY <1>1, <1>t, <2>1, <3>1 DEF ApproveStore, SetStatus, RequestRow
    <3>2. CASE ~ Filed(job[t].req)
      BY <1>1, <2>2, <3>2 DEF ApproveStore, Filed
    <3> QED
      BY <3>1, <3>2
  <2> QED
    BY <2>1, <2>2, <2>4, <2>5
<1>2. ASSUME NEW q \in Requests, request'[q].status = "approved"
      PROVE  \E r \in Accesses :
                /\ access'[r].status \in {"active", "revoked"}
                /\ access'[r].req = q
                /\ access'[r].ds = request'[q].ds
                /\ access'[r].sub = request'[q].sub
  <2>1. CASE request[q].status = "approved"
    <3>1. PICK r \in Accesses :
             /\ access[r].status \in {"active", "revoked"}
             /\ access[r].req = q
             /\ access[r].ds = request[q].ds
             /\ access[r].sub = request[q].sub
      BY <2>1 DEF ApprovedMeansAccess
    <3>2. /\ access'[r].req = q /\ access'[r].ds = request'[q].ds
          /\ access'[r].sub = request'[q].sub
      BY <1>k, <2>1, <3>1 DEF RowsKept
    <3>3. ~ DeleteDataset(access[r].ds)
      <4>1. DeleteDataset(access[r].ds) => request'[q] = [request[q] EXCEPT !.status = "deleted"]
        BY <3>1 DEF DeleteDataset
      <4>2. [request[q] EXCEPT !.status = "deleted"].status = "deleted"
        BY <1>t DEF RequestRow
      <4> QED
        BY <1>2, <4>1, <4>2
    <3>4. access'[r].status \in {"active", "revoked"}
      BY <3>1, <3>3, RowsMove DEF RowMoves
    <3> QED
      BY <3>2, <3>4
  <2>2. CASE \E t \in Threads : ApproveStore(t) /\ job[t].req = q
    BY <1>1, <2>2
  <2> QED
    BY <1>2, <2>1, <2>2, RequestsMove DEF RequestMoves
<1>3. ASSUME NEW r \in Accesses, access'[r].req # None
      PROVE  request'[access'[r].req].status \notin {"free", "pending"}
  <2>1. CASE access'[r].req = access[r].req
    <3>1. /\ access[r].req \in Requests
          /\ request[access[r].req].status \notin {"free", "pending"}
      BY <1>3, <1>t, <2>1, RecordFields DEF ApprovedMeansAccess
    <3> QED
      BY <2>1, <3>1, RequestsMove DEF RequestMoves
  <2>2. CASE \E t \in Threads : ApproveStore(t) /\ access'[r].req = job[t].req
    BY <1>1, <2>2
  <2> QED
    BY <1>3, <2>1, <2>2, RowsMove DEF RowMoves
<1> QED
  BY <1>2, <1>3 DEF ApprovedMeansAccess

(***************************************************************************)
(* The theorems.                                                           *)
(***************************************************************************)

\* The invariant holds at the start.
THEOREM InvInit == Init => IInv
<1> SUFFICES ASSUME Init PROVE IInv
  OBVIOUS
<1>1. TypeOK
  BY TypeInit
<1>2. /\ \A t \in Threads : job[t].step = "idle" /\ job[t].acc = None
      /\ \A p \in Pods : ensurer[p].todo = {} /\ ensurer[p].at = None
      /\ \A r \in Accesses : access[r].status = "free" /\ access[r].req = None
      /\ \A q \in Requests : request[q].status = "free"
      /\ iam = {} /\ unbacked = {}
  BY DEF Init, Idle, NoPass, FreeAccess, FreeRequest
<1>3. HoldersMatchRows
  BY <1>2 DEF HoldersMatchRows, RevokeSteps
<1>4. DatasetsKnown /\ GrantsAreBacked /\ IamIsAccountedFor
  BY <1>2 DEF DatasetsKnown, GrantsAreBacked, Granting, IamIsAccountedFor
<1>5. AccessIsBacked /\ ApprovedMeansAccess
  BY <1>2 DEF AccessIsBacked, ApprovedMeansAccess
<1> QED
  BY <1>1, <1>3, <1>4, <1>5 DEF IInv

\* Every step keeps the invariant.
THEOREM InvStep == IInv /\ [Next]_vars => IInv'
  BY TypeStep, HoldersStep, DatasetsStep, GrantsStep, IamIsAccountedForStep,
     AccessIsBackedStep, ApprovedStep DEF IInv

\* Every variable keeps its type: jobs hold what their next call needs.
THEOREM TypeCorrect == Spec => []TypeOK
  BY TypeInit, TypeStep, PTL DEF Spec

\* The invariant holds in every reachable state.
THEOREM Invariant == Spec => []IInv
  BY InvInit, InvStep, PTL DEF Spec

\* Nobody keeps access to a table without the books knowing.
THEOREM IamAccounted == Spec => []IamIsAccountedFor
<1>1. IInv => IamIsAccountedFor
  BY DEF IInv
<1> QED
  BY <1>1, Invariant, PTL

\* An active access is in IAM, or somebody took its member out.
THEOREM AccessBacked == Spec => []AccessIsBacked
<1>1. IInv => AccessIsBacked
  BY DEF IInv
<1> QED
  BY <1>1, Invariant, PTL

\* Approving a request and storing its access is all or nothing.
THEOREM ApprovalIsAtomic == Spec => []ApprovedMeansAccess
<1>1. IInv => ApprovedMeansAccess
  BY DEF IInv
<1> QED
  BY <1>1, Invariant, PTL

\* No ensurer closes an access that has not expired, however old its list.
THEOREM ClosesExpired == Spec => EnsurerClosesExpired
<1> DEFINE A == \A r \in Accesses :
                   (access[r].status = "active" /\ access'[r].status = "revoked"
                      /\ job' = job) => Expired(access[r].exp)
<1>1. IInv /\ [Next]_vars => [A]_vars
  <2> SUFFICES ASSUME TypeOK, HoldersMatchRows, Next, NEW r \in Accesses,
                      access[r].status = "active", access'[r].status = "revoked",
                      job' = job
               PROVE  Expired(access[r].exp)
    BY DEF IInv
  <2>t. job \in [Threads -> Job] /\ access \in [Accesses -> AccessRow]
    BY DEF TypeOK
  <2>1. ASSUME NEW p \in Pods, NEW x \in Accesses, EnsurerStore(p, x)
        PROVE  Expired(access[r].exp)
    <3>1. (access'[r].status = "active") <=> (access[r].status = "active" /\ r # x)
      BY <2>t, <2>1, RevokedRows DEF EnsurerStore
    <3> QED
      BY <2>1, <3>1 DEF EnsurerStore, HoldersMatchRows
  <2>2. CASE UNCHANGED access
    BY <2>2
  <2>3. ASSUME NEW d \in Datasets, DeleteDataset(d)
        PROVE  FALSE
    <3>1. \/ access'[r] = access[r]
          \/ access'[r] = [access[r] EXCEPT !.status = "deleted"]
      BY <2>3 DEF DeleteDataset
    <3>2. [access[r] EXCEPT !.status = "deleted"].status = "deleted"
      BY <2>t DEF AccessRow
    <3> QED
      BY <3>1, <3>2
  <2>4. ASSUME NEW t \in Threads, Finish(t)
        PROVE  job[t].step = "idle"
    BY <2>t, <2>4, FinishedJob
  <2>5. ASSUME NEW t \in Threads, HandlerStarts(t)
        PROVE  Expired(access[r].exp)
    <3>1. ASSUME NEW d \in Datasets, NEW pii \in PiiLevels, CreateDataset(t, d, pii)
          PROVE  Expired(access[r].exp)
      BY <2>2, <2>t, <3>1 DEF CreateDataset, Insert
    <3> QED
      BY <2>2, <2>5, <3>1
         DEF HandlerStarts, ApproveBegin, GrantBegin, RevokeBegin, table
  <2>6. ASSUME NEW t \in Threads, HandlerSteps(t)
        PROVE  Expired(access[r].exp)
    BY <2>2, <2>4, <2>6
       DEF HandlerSteps, CreateDatasetIam, ApproveIam, ApproveStore, GrantIam,
           GrantLookup, GrantStore, RevokeIam, RevokeStore, IamFails, StoreFails, table
  <2>7. ASSUME NEW p \in Pods, Ensurer(p) \/ Crash(p)
        PROVE  Expired(access[r].exp)
    BY <2>1, <2>2, <2>7
       DEF Ensurer, EnsurerTick, EnsurerIam, EnsurerIamFails, EnsurerStoreFails, Crash,
           table
  <2>8. CASE SingleCall \/ Tick
    BY <2>2, <2>3, <2>8
       DEF SingleCall, UpdateDataset, CreateAccessRequest, UpdateAccessRequest,
           DeleteAccessRequest, DenyAccessRequest, Tick, table
  <2> QED
    BY <2>5, <2>6, <2>7, <2>8 DEF Next
<1> HIDE DEF A
<1>2. [][A]_vars => EnsurerClosesExpired
  BY DEF A, EnsurerClosesExpired
<1> QED
  BY <1>1, <1>2, Invariant, PTL DEF Spec

(***************************************************************************)
(* Direct grants that come one at a time                                   *)
(***************************************************************************)

\* One handler at a time, nobody asks for access, and one spelling of everyone:
\* each of the three is a way to a second access that is in force.
OneAtATime ==
  /\ \A t, u \in Threads : t = u
  /\ Requests = {}
  /\ \A s \in Subjects : Lower[s] = s

\* What a grant is about to store replaces the only access that is in force.
RenewsTheOnly(t) ==
  job[t].step = "grantStore" =>
     \A r \in Accesses : (InForce(r) /\ MemberOf(r) = JobMember(t)) => r = job[t].acc

SerialInv == OneAccessInForce /\ \A t \in Threads : RenewsTheOnly(t)

\* A new access r is the first of a new dataset, or is stored by a handler
\* that approves, or by one that closes the access it renews.
Stores(t, r) ==
  /\ GrantStore(t) /\ access[r].status = "free"
  /\ MemberOf(r)' = JobMember(t)
  /\ \A x \in Accesses \ {r} : access'[x].status = "active" =>
        access[x].status = "active" /\ x # job[t].acc

AccessAppears(r) ==
  \/ \E t \in Threads : ApproveStore(t)
  \/ /\ access'[r].ds \in Datasets /\ dataset[access'[r].ds] = "absent"
     /\ \A x \in Accesses \ {r} : access'[x] = access[x]
     /\ \A t \in Threads : job'[t] = job[t] \/ job'[t].step = "createIam"
  \/ \E t \in Threads : Stores(t, r)

LEMMA AccessesAppear ==
  ASSUME TypeOK, [Next]_vars, NEW r \in Accesses,
         access[r].status = "free", access'[r].status = "active"
  PROVE  AccessAppears(r)
<1> SUFFICES ASSUME Next \/ UNCHANGED vars PROVE AccessAppears(r)
  OBVIOUS
<1>t. access \in [Accesses -> AccessRow] /\ job \in [Threads -> Job]
  BY DEF TypeOK
<1>1. CASE UNCHANGED access
  BY <1>1
<1>2. ASSUME NEW t \in Threads, NEW d \in Datasets, NEW pii \in PiiLevels,
             CreateDataset(t, d, pii)
      PROVE  AccessAppears(r)
  <2>1. PICK x \in Accesses :
           /\ access' = Insert(access, x, d, AllUsers, None, None)
           /\ \/ UNCHANGED job
              \/ Start(t, [Idle EXCEPT !.step = "createIam", !.ds = d,
                                       !.sub = AllUsers, !.acc = x])
    BY <1>1, <1>2 DEF CreateDataset
  <2>2. /\ r = x /\ access'[r].ds = d
        /\ \A y \in Accesses \ {r} : access'[y] = access[y]
    BY <1>t, <2>1 DEF Insert
  <2>3. \A u \in Threads : job'[u] = job[u] \/ job'[u].step = "createIam"
    <3>1. [Idle EXCEPT !.step = "createIam", !.ds = d,
                       !.sub = AllUsers, !.acc = x].step = "createIam"
      BY DEF Idle
    <3> QED
      BY <1>t, <2>1, <3>1 DEF Start
  <2>4. dataset[d] = "absent"
    BY <1>2 DEF CreateDataset
  <2> QED
    BY <2>2, <2>3, <2>4 DEF AccessAppears
<1>3. ASSUME NEW t \in Threads, GrantStore(t)
      PROVE  AccessAppears(r)
  <2> DEFINE f == Revoked(access, job[t].acc)
  <2>1. /\ job[t].exp \in Expiries /\ job[t].sub \in Subjects /\ job[t].ds \in Datasets
        /\ job[t].acc \in Accesses \cup {None} /\ Lower[job[t].sub] \in Subjects
    BY <1>3, <1>t, RecordFields DEF GrantStore, TypeOK, JobsOK
  <2>2. f \in [Accesses -> AccessRow]
    BY <1>t, <2>1, RevokedRows
  <2>3. \A x \in Accesses : /\ (f[x].status = "free") <=> (access[x].status = "free")
                            /\ f[x].status = "active" =>
                                  access[x].status = "active" /\ x # job[t].acc
    <3>1. job[t].acc \in Accesses \cup {None}
      BY <2>1
    <3>2. \A x \in Accesses : (f[x].status = "free") <=> (access[x].status = "free")
      BY <1>t, <3>1, RevokedRows
    <3>3. \A x \in Accesses :
             (f[x].status = "active") <=> (access[x].status = "active" /\ x # job[t].acc)
      BY <1>t, <3>1, RevokedRows
    <3> QED
      BY <3>2, <3>3
  <2>4. PICK x \in Accesses :
           access' = Insert(f, x, job[t].ds, Lower[job[t].sub], job[t].exp, None)
    BY <1>3 DEF GrantStore
  <2> HIDE DEF f
  <2>5. /\ \A y \in Accesses : y # x => access'[y] = f[y]
        /\ access'[x].ds = job[t].ds /\ access'[x].sub = Lower[job[t].sub]
    BY <2>1, <2>2, <2>4, InsertedRows
  <2>6. r = x
    BY <2>3, <2>5
  <2>7. MemberOf(r)' = JobMember(t)
    BY <2>1, <2>5, <2>6 DEF MemberOf, JobMember, Member
  <2> QED
    BY <1>3, <2>3, <2>5, <2>6, <2>7 DEF AccessAppears, Stores
<1>4. CASE \A x \in Accesses : access[x].status = "free" => access'[x] = access[x]
  BY <1>4
<1>5. ASSUME NEW d \in Datasets, DeleteDataset(d)
      PROVE  AccessAppears(r)
  BY <1>4, <1>5, <1>t DEF DeleteDataset, TypeOK, RowsOK
<1>6. ASSUME NEW x \in Accesses \cup {None}, access' = Revoked(access, x)
      PROVE  AccessAppears(r)
  BY <1>6, <1>t, RevokedRows
<1>7. ASSUME NEW t \in Threads, RevokeStore(t)
      PROVE  AccessAppears(r)
  <2>1. job[t].acc \in Accesses \cup {None}
    BY <1>t, RecordFields
  <2> QED
    BY <1>6, <1>7, <2>1 DEF RevokeStore
<1>8. ASSUME NEW t \in Threads, HandlerStarts(t)
      PROVE  AccessAppears(r)
  BY <1>1, <1>2, <1>8 DEF HandlerStarts, ApproveBegin, GrantBegin, RevokeBegin, table
<1>9. ASSUME NEW t \in Threads, HandlerSteps(t)
      PROVE  AccessAppears(r)
  BY <1>1, <1>3, <1>7, <1>9
     DEF AccessAppears, HandlerSteps, CreateDatasetIam, ApproveIam, GrantIam, GrantLookup,
         RevokeIam, IamFails, StoreFails, table
<1>10. ASSUME NEW p \in Pods, Ensurer(p) \/ Crash(p)
       PROVE  AccessAppears(r)
  BY <1>1, <1>6, <1>10
     DEF Ensurer, EnsurerTick, EnsurerIam, EnsurerStore, EnsurerIamFails,
         EnsurerStoreFails, Crash, table
<1>11. CASE SingleCall \/ Tick \/ UNCHANGED vars
  BY <1>1, <1>5, <1>11
     DEF SingleCall, UpdateDataset, CreateAccessRequest, UpdateAccessRequest,
         DeleteAccessRequest, DenyAccessRequest, Tick, vars, table
<1> QED
  BY <1>8, <1>9, <1>10, <1>11 DEF Next

\* An access that was there and is in force was in force, and of the same member.
LEMMA InForceBefore ==
  ASSUME TypeOK, [Next]_vars, NEW r \in Accesses, access[r].status # "free", InForce(r)'
  PROVE  InForce(r) /\ MemberOf(r)' = MemberOf(r)
<1>1. /\ access'[r].ds = access[r].ds /\ access'[r].sub = access[r].sub
      /\ access'[r].exp = access[r].exp
      /\ access[r].status = "active" /\ now <= now'
  BY RowsAreKept DEF RowsKept, InForce
<1>2. /\ now \in Int /\ now' \in Int
      /\ access[r].exp # None => access[r].exp \in Int
  <2>1. access[r] \in AccessRow
    BY DEF TypeOK
  <2>2. access[r].exp \in Expiries
    BY <2>1, RecordFields
  <2>3. TypeOK'
    BY TypeStep
  <2>4. now \in 0 .. MaxTime /\ now' \in 0 .. MaxTime
    BY <2>3 DEF TypeOK
  <2>5. now \in Int /\ now' \in Int
    BY <2>4
  <2>6. access[r].exp # None => access[r].exp \in Deadlines
    BY <2>2 DEF Expiries
  <2>7. Deadlines \subseteq Int
    OBVIOUS
  <2> QED BY <2>5, <2>6, <2>7
<1>3. ~ Expired(access[r].exp)
  BY <1>1, <1>2 DEF InForce, Expired
<1> QED BY <1>1, <1>3 DEF InForce, MemberOf, Member

\* While grants come one at a time, a step leaves one access in force, and a grant
\* that is about to be stored knows it.
LEMMA SerialStep ==
  ASSUME OneAtATime, IInv, SerialInv, [Next]_vars
  PROVE  SerialInv'
<1>t. TypeOK /\ access \in [Accesses -> AccessRow] /\ job \in [Threads -> Job]
  BY DEF IInv, TypeOK
<1>a. \A r \in Accesses : InForce(r)' /\ access[r].status # "free" =>
          InForce(r) /\ MemberOf(r)' = MemberOf(r)
  BY <1>t, InForceBefore
<1>b. \A t \in Threads : ~ ApproveStore(t)
  BY <1>t DEF OneAtATime, ApproveStore, TypeOK, JobsOK
<1>c. \A r \in Accesses : InForce(r)' => access'[r].status = "active"
  BY DEF InForce
<1>d. \A r1, r2 \in Accesses : (InForce(r1) /\ InForce(r2) /\ MemberOf(r1) = MemberOf(r2))
                                   => r1 = r2
  BY DEF SerialInv, OneAccessInForce
<1>e. \A r \in Accesses, t \in Threads :
        (MemberOf(r) = JobMember(t)) => access[r].ds = job[t].ds
  BY DEF MemberOf, JobMember, Member
<1>1. CASE \A r \in Accesses : InForce(r)' => access[r].status # "free"
  <2>1. OneAccessInForce'
    <3> SUFFICES ASSUME NEW r1 \in Accesses, NEW r2 \in Accesses,
                        InForce(r1)', InForce(r2)', MemberOf(r1)' = MemberOf(r2)'
                 PROVE  r1 = r2
      BY DEF OneAccessInForce
    <3> QED BY <1>1, <1>a, <1>d
  <2>2. ASSUME NEW t \in Threads, job'[t].step = "grantStore", NEW r \in Accesses,
               InForce(r)', MemberOf(r)' = JobMember(t)'
        PROVE  r = job'[t].acc
    <3>1. InForce(r) /\ MemberOf(r) = JobMember(t)'
      BY <1>1, <1>a, <2>2
    <3>2. CASE job'[t] = job[t]
      BY <2>2, <3>1, <3>2 DEF SerialInv, RenewsTheOnly, JobMember
    <3>3. CASE LooksUp(t)
      <4>1. MemberOf(r) = JobMember(t)
        BY <3>1, <3>3 DEF LooksUp, JobMember
      <4>2. /\ access[r].sub \in Subjects /\ job[t].sub \in Subjects
        BY <1>t, <3>1, <3>3 DEF TypeOK, RowsOK, JobsOK, InForce, LooksUp
      <4>3. access[r].ds = job[t].ds /\ access[r].sub = job[t].sub
        BY <4>1, <4>2 DEF OneAtATime, MemberOf, JobMember, Member
      <4>4. r \in Renewable(t)
        BY <3>1, <4>3 DEF Renewable
      <4>5. job'[t].acc \in Renewable(t)
        BY <3>3, <4>4 DEF LooksUp
      <4>6. job'[t].acc \in Accesses /\ InForce(job'[t].acc)
            /\ MemberOf(job'[t].acc) = JobMember(t)
        BY <4>5 DEF Renewable, MemberOf, JobMember
      <4>7. PICK x \in Accesses : x = job'[t].acc
        BY <4>6
      <4> QED BY <1>d, <3>1, <4>1, <4>6, <4>7
    <3> QED BY <1>t, <2>2, <3>2, <3>3, HandlersMove DEF Moves, GoesOn, Starts
  <2> QED BY <2>1, <2>2 DEF SerialInv, RenewsTheOnly
<1>2. ASSUME NEW r \in Accesses, InForce(r)', access[r].status = "free"
      PROVE  SerialInv'
  <2>1. AccessAppears(r)
    BY <1>t, <1>2, <1>c, AccessesAppear
  <2>2. CASE /\ access'[r].ds \in Datasets /\ dataset[access'[r].ds] = "absent"
             /\ \A x \in Accesses \ {r} : access'[x] = access[x]
             /\ \A t \in Threads : job'[t] = job[t] \/ job'[t].step = "createIam"
    <3>1. ASSUME NEW x \in Accesses, x # r, InForce(x)'
          PROVE  /\ InForce(x) /\ MemberOf(x)' = MemberOf(x)
                 /\ MemberOf(x)' # MemberOf(r)'
      <4>1. access[x].status # "free"
        BY <2>2, <3>1 DEF InForce
      <4>2. dataset[access[x].ds] # "absent" /\ access'[x].ds = access[x].ds
        BY <2>2, <3>1, <4>1 DEF IInv, DatasetsKnown
      <4> QED BY <1>a, <2>2, <3>1, <4>1, <4>2 DEF MemberOf, Member
    <3>2. OneAccessInForce'
      <4> SUFFICES ASSUME NEW r1 \in Accesses, NEW r2 \in Accesses,
                          InForce(r1)', InForce(r2)', MemberOf(r1)' = MemberOf(r2)'
                   PROVE  r1 = r2
        BY DEF OneAccessInForce
      <4>1. CASE r1 # r /\ r2 # r
        BY <1>d, <3>1, <4>1
      <4> QED BY <3>1, <4>1
    <3>3. ASSUME NEW t \in Threads, job'[t].step = "grantStore", NEW x \in Accesses,
                 InForce(x)', MemberOf(x)' = JobMember(t)'
          PROVE  x = job'[t].acc
      <4>1. job'[t] = job[t] /\ JobMember(t)' = JobMember(t)
        BY <2>2, <3>3 DEF JobMember
      <4>2. dataset[job[t].ds] # "absent"
        BY <3>3, <4>1 DEF IInv, DatasetsKnown
      <4>3. x # r
        BY <2>2, <3>3, <4>1, <4>2 DEF MemberOf, JobMember, Member
      <4>4. InForce(x) /\ MemberOf(x) = JobMember(t)
        BY <3>1, <3>3, <4>1, <4>3
      <4> QED BY <3>3, <4>1, <4>4 DEF SerialInv, RenewsTheOnly
    <3> QED BY <3>2, <3>3 DEF SerialInv, RenewsTheOnly
  <2>3. ASSUME NEW t \in Threads, Stores(t, r)
        PROVE  SerialInv'
    <3>1. job[t].step = "grantStore" /\ Finish(t)
      BY <2>3 DEF Stores, GrantStore
    <3>2. \A u \in Threads : job'[u].step = "idle"
      BY <1>t, <3>1, FinishedJob DEF OneAtATime
    <3>3. ASSUME NEW x \in Accesses, x # r, InForce(x)'
          PROVE  /\ InForce(x) /\ MemberOf(x)' = MemberOf(x)
                 /\ MemberOf(x)' # MemberOf(r)'
      <4>1. access[x].status = "active" /\ x # job[t].acc
        BY <1>c, <2>3, <3>3 DEF Stores
      <4>2. InForce(x) /\ MemberOf(x)' = MemberOf(x)
        BY <1>a, <3>3, <4>1
      <4>3. MemberOf(x) # JobMember(t)
        BY <3>1, <4>1, <4>2 DEF SerialInv, RenewsTheOnly
      <4> QED BY <2>3, <4>2, <4>3 DEF Stores
    <3>4. OneAccessInForce'
      <4> SUFFICES ASSUME NEW r1 \in Accesses, NEW r2 \in Accesses,
                          InForce(r1)', InForce(r2)', MemberOf(r1)' = MemberOf(r2)'
                   PROVE  r1 = r2
        BY DEF OneAccessInForce
      <4>1. CASE r1 # r /\ r2 # r
        BY <1>d, <3>3, <4>1
      <4> QED BY <3>3, <4>1
    <3> QED BY <3>2, <3>4 DEF SerialInv, RenewsTheOnly
  <2> QED BY <1>b, <2>1, <2>2, <2>3 DEF AccessAppears
<1> QED BY <1>1, <1>2

\* Direct grants that come one at a time keep a single access in force for a
\* dataset and a subject, whatever revokers and ensurers do meanwhile.
THEOREM OneInForceSerially == OneAtATime => (Spec => []OneAccessInForce)
<1>1. ASSUME OneAtATime PROVE Spec => []OneAccessInForce
  <2>1. Init => SerialInv
    BY DEF Init, SerialInv, OneAccessInForce, RenewsTheOnly, InForce, FreeAccess, Idle
  <2>2. IInv /\ SerialInv /\ [Next]_vars => SerialInv'
    BY <1>1, SerialStep
  <2>3. SerialInv => OneAccessInForce
    BY DEF SerialInv
  <2> QED BY <2>1, <2>2, <2>3, Invariant, PTL DEF Spec
<1> QED BY <1>1
=============================================================================
