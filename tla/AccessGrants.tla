---------------------------- MODULE AccessGrants ----------------------------
(***************************************************************************)
(* Access to datasets: who may read a BigQuery table, and which row of     *)
(* dataset_access says so.                                                 *)
(*                                                                         *)
(* The truth is kept twice.  Postgres holds the tables datasets,           *)
(* dataset_access_requests and dataset_access; BigQuery holds the IAM      *)
(* policy of every table.  An HTTP handler (service_access.go) changes the *)
(* one and then the other, with no transaction over both; it runs on any   *)
(* pod, concurrently with other handlers and with the access ensurer that  *)
(* every pod runs every five minutes (access_ensurer/ensurer.go).          *)
(*                                                                         *)
(* A handler is a job: job[t].step names the call it makes next, and every *)
(* call is a step of its own that can fail, be lost, or see its pod die.   *)
(* Reads and checks that come before the first call which changes          *)
(* something are one step, ...Begin.                                       *)
(***************************************************************************)
EXTENDS Integers

CONSTANTS
    Datasets,       \* dataset ids
    Pseudonymised,  \* the datasets that are pseudonymised views
    Subjects,       \* "type:email", in every spelling somebody uses
    AllUsers,       \* the subject group:all-users@nav.no
    Lower,          \* emailOfSubjectToLower, conversion.go
    Callers,        \* the users who call the API, as subjects
    GroupMembers,   \* the members of the group that owns each dataset
    Requests,       \* ids of access requests
    Accesses,       \* ids of rows in dataset_access
    Threads,        \* request handlers that run at the same time
    Pods,           \* replicas of the backend
    PodOf,          \* the pod that runs a handler
    Deadlines,      \* the expiry times that accesses are asked for with
    MaxTime,        \* bound: time stops here
    None

ASSUME LowerAssumption ==
    /\ Lower \in [Subjects -> Subjects]
    /\ \A s \in Subjects : Lower[Lower[s]] = Lower[s]
    /\ AllUsers \in Subjects
    /\ Lower[AllUsers] = AllUsers

ASSUME ActorsAssumption ==
    /\ Pseudonymised \subseteq Datasets
    /\ Callers \subseteq Subjects
    /\ GroupMembers \in [Datasets -> SUBSET Callers]
    /\ PodOf \in [Threads -> Pods]

ASSUME TimeAssumption == MaxTime \in Nat /\ Deadlines \subseteq Nat

ASSUME NoneAssumption ==
    /\ None \notin Datasets
    /\ None \notin Subjects
    /\ None \notin Requests
    /\ None \notin Accesses
    /\ None \notin Deadlines

VARIABLES
    dataset,    \* datasets: "absent", its pii level, or "deleted"
    request,    \* dataset_access_requests
    access,     \* dataset_access
    iam,        \* the <<dataset, member>> with roles/bigquery.dataViewer
    now,        \* the clock of the database
    job,        \* what each handler is about to do
    ensurer,    \* the pass each pod's ensurer is in
    orphaned,   \* history: members granted by a call that recorded no access
    unbacked    \* history: rows whose IAM was taken away, or not yet given

table == <<dataset, request, access>>
history == <<orphaned, unbacked>>
vars == <<table, iam, now, job, ensurer, history>>

-----------------------------------------------------------------------------
(* Types *)

PiiLevels == {"normal", "sensitive"}
Expiries == Deadlines \cup {None}

AccessRow ==
    [status : {"free", "active", "revoked", "deleted"},
     ds : Datasets \cup {None}, sub : Subjects \cup {None},
     exp : Expiries, req : Requests \cup {None}]

RequestRow ==
    [status : {"free", "pending", "approved", "denied", "deleted"},
     ds : Datasets \cup {None}, sub : Subjects \cup {None}, exp : Expiries]

RevokeSteps == {"revokeIam", "revokeStore"}
IamSteps == {"grantIam", "approveIam", "createIam", "revokeIam"}
StoreSteps == {"grantLookup", "grantStore", "approveStore", "revokeStore"}

Steps == {"idle"} \cup IamSteps \cup StoreSteps

Job ==
    [step : Steps,
     ds : Datasets \cup {None}, sub : Subjects \cup {None}, exp : Expiries,
     acc : Accesses \cup {None}, req : Requests \cup {None}]

Pass == [todo : SUBSET Accesses, at : Accesses \cup {None}]

Idle == [step |-> "idle", ds |-> None, sub |-> None, exp |-> None,
         acc |-> None, req |-> None]
NoPass == [todo |-> {}, at |-> None]

FreeAccess == [status |-> "free", ds |-> None, sub |-> None, exp |-> None,
               req |-> None]
FreeRequest == [status |-> "free", ds |-> None, sub |-> None, exp |-> None]

-----------------------------------------------------------------------------
(* The tables *)

Present(d) == dataset[d] \in PiiLevels

Expired(e) == e # None /\ e < now

InForce(r) == access[r].status = "active" /\ ~ Expired(access[r].exp)

\* BigQuery knows an e-mail address in lower case only.
Member(d, s) == <<d, Lower[s]>>
MemberOf(r) == Member(access[r].ds, access[r].sub)

Insert(table1, r, d, s, e, q) ==
    [table1 EXCEPT ![r] =
        [status |-> "active", ds |-> d, sub |-> s, exp |-> e, req |-> q]]

\* UPDATE dataset_access SET revoked = NOW() WHERE id = r
Revoked(table1, r) ==
    IF r # None /\ table1[r].status = "active"
    THEN [table1 EXCEPT ![r].status = "revoked"]
    ELSE table1

SetStatus(q, s) == request' = [request EXCEPT ![q].status = s]

-----------------------------------------------------------------------------
(* Handlers *)

JobMember(t) == Member(job[t].ds, job[t].sub)

\* A handler that has changed IAM and has not yet recorded the access.
Granting(t) == job[t].step \in {"grantLookup", "grantStore", "approveStore"}

\* The row is about to be marked revoked by somebody who revoked its IAM.
Doomed(r) ==
    \/ \E t \in Threads : job[t].step = "revokeStore" /\ job[t].acc = r
    \/ \E p \in Pods : ensurer[p].at = r

Start(t, j) == job[t] = Idle /\ job' = [job EXCEPT ![t] = j]
Continue(t, from, to) ==
    job[t].step = from /\ job' = [job EXCEPT ![t].step = to]
Finish(t) == job' = [job EXCEPT ![t] = Idle]

Init ==
    /\ dataset = [d \in Datasets |-> "absent"]
    /\ request = [q \in Requests |-> FreeRequest]
    /\ access = [r \in Accesses |-> FreeAccess]
    /\ iam = {}
    /\ now = 0
    /\ job = [t \in Threads |-> Idle]
    /\ ensurer = [p \in Pods |-> NoPass]
    /\ orphaned = {}
    /\ unbacked = {}

Tick ==
    /\ now < MaxTime
    /\ now' = now + 1
    /\ UNCHANGED <<table, iam, job, ensurer, history>>

-----------------------------------------------------------------------------
(* Datasets *)

\* One transaction stores the dataset and, when asked to, the access of all
\* users.  The grant in BigQuery follows, except for a pseudonymised view.
CreateDataset(t, d, pii) ==
    /\ dataset[d] = "absent"
    /\ GroupMembers[d] # {}
    /\ dataset' = [dataset EXCEPT ![d] = pii]
    /\ \/ UNCHANGED <<access, job, unbacked>>
       \/ \E r \in Accesses :
            /\ access[r].status = "free"
            /\ access' = Insert(access, r, d, AllUsers, None, None)
            /\ unbacked' = unbacked \cup {r}
            /\ IF d \in Pseudonymised
               THEN UNCHANGED job
               ELSE Start(t, [Idle EXCEPT !.step = "createIam", !.ds = d,
                                          !.sub = AllUsers, !.acc = r])
    /\ UNCHANGED <<request, iam, now, ensurer, orphaned>>

\* The access this grant is for may have been revoked since it was stored.
CreateDatasetIam(t) ==
    LET r == job[t].acc
    IN  /\ job[t].step = "createIam"
        /\ iam' = iam \cup {JobMember(t)}
        /\ unbacked' = unbacked \ {r}
        /\ orphaned' = IF access[r].status # "active" \/ Doomed(r)
                       THEN orphaned \cup {JobMember(t)}
                       ELSE orphaned
        /\ Finish(t)
        /\ UNCHANGED <<table, now, ensurer>>

UpdateDataset(d, pii) ==
    /\ Present(d)
    /\ GroupMembers[d] # {}
    /\ dataset' = [dataset EXCEPT ![d] = pii]
    /\ UNCHANGED <<request, access, iam, now, job, ensurer, history>>

\* mutant: ON DELETE SET NULL instead of CASCADE
DeleteDatasetSetsNull(d) ==
    /\ Present(d)
    /\ GroupMembers[d] # {}
    /\ dataset' = [dataset EXCEPT ![d] = "deleted"]
    /\ access' = [r \in Accesses |->
                      IF access[r].ds = d THEN [access[r] EXCEPT !.ds = None]
                      ELSE access[r]]
    /\ UNCHANGED <<request, iam, now, job, ensurer, history>>

\* Accesses and requests go with the dataset (ON DELETE CASCADE), IAM stays.
DeleteDataset(d) ==
    /\ Present(d)
    /\ GroupMembers[d] # {}
    /\ dataset' = [dataset EXCEPT ![d] = "deleted"]
    /\ request' = [q \in Requests |->
                      IF request[q].ds = d
                      THEN [request[q] EXCEPT !.status = "deleted"]
                      ELSE request[q]]
    /\ access' = [r \in Accesses |->
                      IF access[r].ds = d
                      THEN [access[r] EXCEPT !.status = "deleted"]
                      ELSE access[r]]
    /\ UNCHANGED <<iam, now, job, ensurer, history>>

-----------------------------------------------------------------------------
(* Access requests *)

Filed(q) == request[q].status \in {"pending", "approved", "denied"}

CreateAccessRequest(q, d, s, e) ==
    /\ request[q].status = "free"
    /\ Present(d)
    /\ request' = [request EXCEPT ![q] =
            [status |-> "pending", ds |-> d, sub |-> Lower[s], exp |-> e]]
    /\ UNCHANGED <<dataset, access, iam, now, job, ensurer, history>>

UpdateAccessRequest(q, e) ==
    /\ Filed(q)
    /\ request' = [request EXCEPT ![q].exp = e]
    /\ UNCHANGED <<dataset, access, iam, now, job, ensurer, history>>

DeleteAccessRequest(q) ==
    /\ Filed(q)
    /\ SetStatus(q, "deleted")
    /\ UNCHANGED <<dataset, access, iam, now, job, ensurer, history>>

\* Nothing that deny reads before its UPDATE can change what the UPDATE does.
DenyAccessRequest(q) ==
    /\ Filed(q)
    /\ GroupMembers[request[q].ds] # {}
    /\ SetStatus(q, "denied")
    /\ UNCHANGED <<dataset, access, iam, now, job, ensurer, history>>

\* mutant: the access is stored without a grant in BigQuery
ApproveBeginStoresOnly(t, q) ==
    /\ Filed(q)
    /\ Start(t, [Idle EXCEPT !.step = "approveStore", !.ds = request[q].ds,
                             !.sub = request[q].sub, !.exp = request[q].exp, !.req = q])
    /\ UNCHANGED <<table, iam, now, ensurer, history>>

ApproveBegin(t, q) ==
    LET ar == request[q]
    IN  /\ Filed(q)
        /\ GroupMembers[ar.ds] # {}
        /\ ~ (dataset[ar.ds] = "sensitive" /\ ar.sub = AllUsers)
        /\ Start(t, [Idle EXCEPT !.step = "approveIam", !.ds = ar.ds,
                                 !.sub = ar.sub, !.exp = ar.exp, !.req = q])
        /\ UNCHANGED <<table, iam, now, ensurer, history>>

ApproveIam(t) ==
    /\ Continue(t, "approveIam", "approveStore")
    /\ iam' = iam \cup {JobMember(t)}
    /\ UNCHANGED <<table, now, ensurer, history>>

\* mutant: the access is inserted and the request left open
ApproveStoreLeavesOpen(t) ==
    /\ job[t].step = "approveStore"
    /\ Present(job[t].ds)
    /\ \E r \in Accesses :
         /\ access[r].status = "free"
         /\ access' = Insert(access, r, job[t].ds, job[t].sub, job[t].exp, job[t].req)
    /\ orphaned' = orphaned \ {JobMember(t)}
    /\ Finish(t)
    /\ UNCHANGED <<dataset, request, iam, now, ensurer, unbacked>>

\* One transaction: insert the access, close the request if it still exists.
ApproveStore(t) ==
    LET j == job[t]
    IN  /\ j.step = "approveStore"
        /\ Present(j.ds)
        /\ \E r \in Accesses :
             /\ access[r].status = "free"
             /\ access' = Insert(access, r, j.ds, j.sub, j.exp, j.req)
        /\ IF Filed(j.req) THEN SetStatus(j.req, "approved") ELSE UNCHANGED request
        /\ orphaned' = orphaned \ {JobMember(t)}
        /\ Finish(t)
        /\ UNCHANGED <<dataset, iam, now, ensurer, unbacked>>

-----------------------------------------------------------------------------
(* Direct grants *)

\* mutant: the access is stored without a grant in BigQuery
GrantBeginStoresOnly(t, d, s, e) ==
    /\ Present(d)
    /\ Start(t, [Idle EXCEPT !.step = "grantLookup", !.ds = d, !.sub = s, !.exp = e])
    /\ UNCHANGED <<table, iam, now, ensurer, history>>

\* For a pseudonymised dataset, the joinable views of the subject come before the
\* table (service_access.go:378-390).  They change nothing that this module has,
\* and one that fails ends the handler as IamFails does without effect: the loop
\* is left to JoinableViews, where it has steps of its own.
GrantBegin(t, d, s, e) ==
    /\ ~ Expired(e)
    /\ Present(d)
    /\ GroupMembers[d] # {}
    /\ ~ (dataset[d] = "sensitive" /\ s = AllUsers)
    /\ Start(t, [Idle EXCEPT !.step = "grantIam", !.ds = d, !.sub = s, !.exp = e])
    /\ UNCHANGED <<table, iam, now, ensurer, history>>

GrantIam(t) ==
    /\ Continue(t, "grantIam", "grantLookup")
    /\ iam' = iam \cup {JobMember(t)}
    /\ UNCHANGED <<table, now, ensurer, history>>

\* The access to renew is looked up outside the transaction, by the subject
\* as the caller spelled it.
Renewable(t) ==
    {r \in Accesses : /\ InForce(r)
                      /\ access[r].ds = job[t].ds
                      /\ access[r].sub = job[t].sub}

GrantLookup(t) ==
    /\ job[t].step = "grantLookup"
    /\ \E r \in Accesses \cup {None} :
         /\ IF Renewable(t) = {} THEN r = None ELSE r \in Renewable(t)
         /\ job' = [job EXCEPT ![t].step = "grantStore", ![t].acc = r]
    /\ UNCHANGED <<table, iam, now, ensurer, history>>

\* mutant: the access that is renewed is not closed
GrantStoreAdds(t) ==
    /\ job[t].step = "grantStore"
    /\ Present(job[t].ds)
    /\ \E r \in Accesses :
         /\ access[r].status = "free"
         /\ access' = Insert(access, r, job[t].ds, Lower[job[t].sub], job[t].exp, None)
    /\ orphaned' = orphaned \ {JobMember(t)}
    /\ Finish(t)
    /\ UNCHANGED <<dataset, request, iam, now, ensurer, unbacked>>

GrantStore(t) ==
    LET j == job[t]
    IN  /\ j.step = "grantStore"
        /\ Present(j.ds)
        /\ \E r \in Accesses :
             /\ access[r].status = "free"
             /\ access' = Insert(Revoked(access, j.acc),
                                 r, j.ds, Lower[j.sub], j.exp, None)
        /\ orphaned' = orphaned \ {JobMember(t)}
        /\ Finish(t)
        /\ UNCHANGED <<dataset, request, iam, now, ensurer, unbacked>>

-----------------------------------------------------------------------------
(* Revoking by hand *)

\* mutant: the row is closed before BigQuery is asked
RevokeBeginStoresFirst(t, u, r) ==
    /\ access[r].status = "active"
    /\ Start(t, [Idle EXCEPT !.step = "revokeStore", !.ds = access[r].ds,
                             !.sub = access[r].sub, !.acc = r])
    /\ UNCHANGED <<table, iam, now, ensurer, history>>

\* The loop over the joinable views of the subject (service_access.go:300-313)
\* is left to JoinableViews, as that of GrantBegin is.
RevokeBegin(t, u, r) ==
    /\ access[r].status \in {"active", "revoked"}
    /\ \/ u \in GroupMembers[access[r].ds]
       \/ Lower[u] = Lower[access[r].sub]
    /\ Start(t, [Idle EXCEPT !.step = "revokeIam", !.ds = access[r].ds,
                             !.sub = access[r].sub, !.acc = r])
    /\ UNCHANGED <<table, iam, now, ensurer, history>>

RevokeIam(t) ==
    /\ Continue(t, "revokeIam", "revokeStore")
    /\ iam' = iam \ {JobMember(t)}
    /\ orphaned' = orphaned \ {JobMember(t)}
    /\ unbacked' = unbacked \cup {job[t].acc}
    /\ UNCHANGED <<table, now, ensurer>>

RevokeStore(t) ==
    /\ job[t].step = "revokeStore"
    /\ access' = Revoked(access, job[t].acc)
    /\ Finish(t)
    /\ UNCHANGED <<dataset, request, iam, now, ensurer, history>>

-----------------------------------------------------------------------------
(* Calls that fail *)

\* BigQuery answers with an error, or not at all: a change it made anyway
\* stays, and the handler returns without its next call.  (The grant of
\* CreateDataset is its last call: made anyway, it is CreateDatasetIam.)
IamFails(t) ==
    LET m == JobMember(t)
    IN  /\ job[t].step \in IamSteps
        /\ \/ UNCHANGED <<iam, history>>
           \/ /\ job[t].step \in {"grantIam", "approveIam"}
              /\ iam' = iam \cup {m}
              /\ orphaned' = orphaned \cup {m}
              /\ UNCHANGED unbacked
           \/ /\ job[t].step = "revokeIam"
              /\ iam' = iam \ {m}
              /\ orphaned' = orphaned \ {m}
              /\ unbacked' = unbacked \cup {job[t].acc}
        /\ Finish(t)
        /\ UNCHANGED <<table, now, ensurer>>

\* A query fails, or the transaction rolls back.
StoreFails(t) ==
    /\ job[t].step \in StoreSteps
    /\ orphaned' = IF Granting(t) THEN orphaned \cup {JobMember(t)} ELSE orphaned
    /\ Finish(t)
    /\ UNCHANGED <<table, iam, now, ensurer, unbacked>>

-----------------------------------------------------------------------------
(* The access ensurer, on every pod *)

\* mutant: every access with an expiry time is listed
ExpiredAccessesEarly ==
    {r \in Accesses : access[r].status = "active" /\ access[r].exp # None}

ExpiredAccesses ==
    {r \in Accesses : access[r].status = "active" /\ Expired(access[r].exp)}

EnsurerTick(p) ==
    /\ ensurer[p] = NoPass
    /\ ExpiredAccesses # {}
    /\ ensurer' = [ensurer EXCEPT ![p].todo = ExpiredAccesses]
    /\ UNCHANGED <<table, iam, now, job, history>>

\* mutant: the ensurer closes rows only
EnsurerIamSkipped(p, r) ==
    /\ r \in ensurer[p].todo
    /\ ensurer[p].at = None
    /\ unbacked' = unbacked \cup {r}
    /\ ensurer' = [ensurer EXCEPT ![p].todo = @ \ {r}, ![p].at = r]
    /\ UNCHANGED <<table, iam, now, job, orphaned>>

EnsurerIam(p, r) ==
    /\ r \in ensurer[p].todo
    /\ ensurer[p].at = None
    /\ Present(access[r].ds)
    /\ iam' = iam \ {MemberOf(r)}
    /\ orphaned' = orphaned \ {MemberOf(r)}
    /\ unbacked' = unbacked \cup {r}
    /\ ensurer' = [ensurer EXCEPT ![p].todo = @ \ {r}, ![p].at = r]
    /\ UNCHANGED <<table, now, job>>

\* mutant: the update of the row gets lost
EnsurerStoreForgets(p, r) ==
    /\ ensurer[p].at = r
    /\ ensurer' = [ensurer EXCEPT ![p].at = None]
    /\ UNCHANGED <<table, iam, now, job, history>>

EnsurerStore(p, r) ==
    /\ ensurer[p].at = r
    /\ access' = Revoked(access, r)
    /\ ensurer' = [ensurer EXCEPT ![p].at = None]
    /\ UNCHANGED <<dataset, request, iam, now, job, history>>

\* No datasource, or BigQuery fails as in IamFails: on to the next entry.
EnsurerIamFails(p, r) ==
    /\ r \in ensurer[p].todo
    /\ ensurer[p].at = None
    /\ \/ UNCHANGED <<iam, history>>
       \/ /\ Present(access[r].ds)
          /\ iam' = iam \ {MemberOf(r)}
          /\ orphaned' = orphaned \ {MemberOf(r)}
          /\ unbacked' = unbacked \cup {r}
    /\ ensurer' = [ensurer EXCEPT ![p].todo = @ \ {r}]
    /\ UNCHANGED <<table, now, job>>

EnsurerStoreFails(p) ==
    /\ ensurer[p].at # None
    /\ ensurer' = [ensurer EXCEPT ![p].at = None]
    /\ UNCHANGED <<table, iam, now, job, history>>

\* A pod is killed or redeployed: what its handlers and its ensurer had in
\* memory is gone.
Crash(p) ==
    /\ ensurer' = [ensurer EXCEPT ![p] = NoPass]
    /\ job' = [t \in Threads |-> IF PodOf[t] = p THEN Idle ELSE job[t]]
    /\ orphaned' = orphaned \cup
            {JobMember(t) : t \in {u \in Threads : PodOf[u] = p /\ Granting(u)}}
    /\ UNCHANGED <<table, iam, now, unbacked>>

-----------------------------------------------------------------------------
HandlerStarts(t) ==
    \/ \E d \in Datasets, pii \in PiiLevels : CreateDataset(t, d, pii)
    \/ \E q \in Requests : ApproveBegin(t, q)
    \/ \E d \in Datasets, s \in Subjects, e \in Expiries : GrantBegin(t, d, s, e)
    \/ \E u \in Callers, r \in Accesses : RevokeBegin(t, u, r)

HandlerSteps(t) ==
    \/ CreateDatasetIam(t)
    \/ ApproveIam(t)
    \/ ApproveStore(t)
    \/ GrantIam(t)
    \/ GrantLookup(t)
    \/ GrantStore(t)
    \/ RevokeIam(t)
    \/ RevokeStore(t)
    \/ IamFails(t)
    \/ StoreFails(t)

SingleCall ==
    \/ \E d \in Datasets, pii \in PiiLevels : UpdateDataset(d, pii)
    \/ \E d \in Datasets : DeleteDataset(d)
    \/ \E q \in Requests, d \in Datasets, s \in Subjects, e \in Expiries :
          CreateAccessRequest(q, d, s, e)
    \/ \E q \in Requests, e \in Expiries : UpdateAccessRequest(q, e)
    \/ \E q \in Requests : DeleteAccessRequest(q)
    \/ \E q \in Requests : DenyAccessRequest(q)

Ensurer(p) ==
    \/ EnsurerTick(p)
    \/ \E r \in Accesses : EnsurerIam(p, r)
    \/ \E r \in Accesses : EnsurerStore(p, r)
    \/ \E r \in Accesses : EnsurerIamFails(p, r)
    \/ EnsurerStoreFails(p)

Next ==
    \/ Tick
    \/ \E t \in Threads : HandlerStarts(t)
    \/ \E t \in Threads : HandlerSteps(t)
    \/ SingleCall
    \/ \E p \in Pods : Ensurer(p)
    \/ \E p \in Pods : Crash(p)

Spec == Init /\ [][Next]_vars

-----------------------------------------------------------------------------
(* Fairness: pods keep being scheduled, so a handler that has started makes *)
(* its next call or fails and a ticker fires again; and a call that is      *)
(* repeated forever does not fail forever, nor is a pod killed every time   *)
(* between the same two calls.                                              *)

Fairness ==
    /\ \A t \in Threads : WF_vars(HandlerSteps(t))
    /\ \A p \in Pods : WF_vars(EnsurerTick(p))
    /\ \A p \in Pods, r \in Accesses : SF_vars(EnsurerIam(p, r))
    /\ \A p \in Pods, r \in Accesses : SF_vars(EnsurerStore(p, r))

FairSpec == Spec /\ Fairness

-----------------------------------------------------------------------------
(* Properties *)

RowsOK ==
    /\ \A r \in Accesses :
          /\ access[r].status = "free" => access[r].ds = None
          /\ access[r].status # "free" => access[r].ds \in Datasets
          /\ access[r].status # "free" => access[r].sub \in Subjects
    /\ \A q \in Requests :
          /\ request[q].status = "free" => request[q].ds = None
          /\ request[q].status # "free" => request[q].ds \in Datasets
          /\ request[q].status # "free" => request[q].sub \in Subjects

JobsOK ==
    \A t \in Threads : job[t].step # "idle" =>
        /\ job[t].ds \in Datasets
        /\ job[t].sub \in Subjects
        /\ job[t].step \in RevokeSteps \cup {"createIam"} => job[t].acc \in Accesses
        /\ job[t].step \in {"approveIam", "approveStore"} => job[t].req \in Requests

\* Every variable has its type: a row that exists names a dataset and a
\* subject, a handler that runs holds what its next call needs.
TypeOK ==
    /\ dataset \in [Datasets -> PiiLevels \cup {"absent", "deleted"}]
    /\ request \in [Requests -> RequestRow]
    /\ access \in [Accesses -> AccessRow]
    /\ iam \subseteq Datasets \X Subjects
    /\ now \in 0 .. MaxTime
    /\ job \in [Threads -> Job]
    /\ ensurer \in [Pods -> Pass]
    /\ orphaned \subseteq Datasets \X Subjects
    /\ unbacked \subseteq Accesses
    /\ RowsOK
    /\ JobsOK

Standing(m) ==
    \E r \in Accesses : access[r].status = "active" /\ MemberOf(r) = m /\ ~ Doomed(r)

AccountedFor(m) ==
    \/ m \in orphaned
    \/ \E t \in Threads : Granting(t) /\ JobMember(t) = m
    \/ Standing(m)

\* Nobody can read a table of a registered dataset without the books knowing:
\* a member in IAM has an unrevoked access that nobody is about to close, or
\* its grant is being recorded, or a grant failed halfway.  In particular no
\* overlap of revokers, renewals and ensurers closes the last row of a member
\* and leaves the member in IAM.
IamIsAccountedFor ==
    \A m \in iam : Present(m[1]) => AccountedFor(m)

Backed(m) == m \in iam \/ \E r \in unbacked : MemberOf(r) = m

\* The other way round: an active access is in IAM, unless somebody took its
\* member out to close an access, or its grant is still to come.
AccessIsBacked ==
    \A r \in Accesses : access[r].status = "active" => Backed(MemberOf(r))

\* Approving is all or nothing: an approved request has an access for its
\* dataset and subject, and an access that names a request was approved.
ApprovedMeansAccess ==
    /\ \A q \in Requests : request[q].status = "approved" =>
          \E r \in Accesses :
             /\ access[r].status \in {"active", "revoked"}
             /\ access[r].req = q
             /\ access[r].ds = request[q].ds
             /\ access[r].sub = request[q].sub
    /\ \A r \in Accesses : access[r].req # None =>
          request[access[r].req].status \notin {"free", "pending"}

\* Renewing keeps a single access in force for a dataset and a subject.  (It
\* is checked where direct grants come one at a time.)
OneAccessInForce ==
    \A r1, r2 \in Accesses :
        (InForce(r1) /\ InForce(r2) /\ MemberOf(r1) = MemberOf(r2)) => r1 = r2

\* What an ensurer closes has expired, however old its list is.
EnsurerClosesExpired ==
    [][\A r \in Accesses :
          (access[r].status = "active" /\ access'[r].status = "revoked" /\ job' = job)
             => Expired(access[r].exp)]_vars

\* An expired access is closed in the end, whatever fails on the way.
ExpiredIsRevoked ==
    \A r \in Accesses :
        (r \in ExpiredAccesses) ~> (access[r].status \in {"revoked", "deleted"})

Covered(m) == \E r \in Accesses : InForce(r) /\ MemberOf(r) = m

\* Access to the table itself ends too: a member does not stay in IAM without
\* an access in force, unless a grant failed halfway or the dataset is gone.
UncoveredLosesIam ==
    \A d \in Datasets, s \in Subjects :
        (<<d, s>> \in iam) ~>
            \/ <<d, s>> \notin iam
            \/ Covered(<<d, s>>)
            \/ <<d, s>> \in orphaned
            \/ ~ Present(d)

\* service_access.go:210, of a dataset with personal data: "kan ikke gjoeres
\* tilgjengelig for alle interne brukere".
SensitiveNotForAllUsers ==
    \A d \in Datasets :
        dataset[d] = "sensitive" => Member(d, AllUsers) \notin iam
-----------------------------------------------------------------------------
(* What the safety properties rest on: an inductive invariant.             *)

Bound(r, d, s) ==
    access[r].status # "free" /\ access[r].ds = d /\ access[r].sub = s

\* A handler or an ensurer that holds the id of a row holds a row that exists,
\* of the dataset and subject it works on; what an ensurer holds has expired.
HoldersMatchRows ==
    /\ \A t \in Threads :
          (\/ job[t].step \in RevokeSteps \cup {"createIam"}
           \/ job[t].step = "grantStore" /\ job[t].acc # None)
             => Bound(job[t].acc, job[t].ds, job[t].sub)
    /\ \A t \in Threads : job[t].step \in {"approveIam", "approveStore"} =>
          /\ request[job[t].req].status # "free"
          /\ request[job[t].req].ds = job[t].ds
          /\ request[job[t].req].sub = job[t].sub
    /\ \A p \in Pods : \A r \in Accesses : r \in ensurer[p].todo \/ r = ensurer[p].at =>
          access[r].status # "free" /\ Expired(access[r].exp)
    /\ \A r \in unbacked : access[r].status # "free"

\* Nothing refers to a dataset that was never registered.
DatasetsKnown ==
    /\ \A m \in iam : dataset[m[1]] # "absent"
    /\ \A t \in Threads : job[t].step # "idle" => dataset[job[t].ds] # "absent"
    /\ \A r \in Accesses : access[r].status # "free" => dataset[access[r].ds] # "absent"
    /\ \A q \in Requests : request[q].status # "free" => dataset[request[q].ds] # "absent"

\* What a handler has granted is in IAM until a revoker of a row takes it out.
GrantsAreBacked ==
    \A t \in Threads : Granting(t) => Backed(JobMember(t))

IInv ==
    /\ TypeOK
    /\ HoldersMatchRows
    /\ DatasetsKnown
    /\ GrantsAreBacked
    /\ IamIsAccountedFor
    /\ AccessIsBacked
    /\ ApprovedMeansAccess
=============================================================================
