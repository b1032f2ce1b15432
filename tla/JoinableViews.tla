--------------------------- MODULE JoinableViews ----------------------------
(***************************************************************************)
(* Joinable views (service_joinable_views.go, gcp_bigquery.go): a user who *)
(* may read several pseudonymised datasets gets a BigQuery dataset of his  *)
(* own, with a view of each that hashes with one common salt.  Creating it *)
(* takes a dozen calls to BigQuery; the row comes last, and an error       *)
(* leaves what was made without one.  Meanwhile datasets are deleted, and  *)
(* accesses come and go: granting or revoking one of a pseudonymised       *)
(* dataset changes who may read its views (service_access.go).             *)
(***************************************************************************)
EXTENDS Naturals, FiniteSets, FiniteSetsExt

CONSTANTS
    Sources,        \* pseudonymised datasets, numbered in the order they are asked for
    BqDatasets,     \* the BigQuery datasets of the tables they were made from
    OwnersOf,       \* the group that owns each source
    Users,          \* who creates joinable views
    GroupsOf,       \* the Google groups of each
    Others,         \* other subjects that accesses are granted to
    Joinables,      \* names with a random postfix
    ViewCalls,      \* handlers in flight that create views
    AccessCalls,    \* and those that grant or revoke an access
    MaxRows,        \* active accesses of one subject to one dataset, at most
    NoView

ASSUME JoinableAssumption ==
    /\ Sources \subseteq Nat /\ IsFiniteSet(Sources)
    /\ \A u \in Users : Users \cap GroupsOf[u] = {}
    /\ NoView \notin Joinables \cup Sources \cup Users
    /\ AccessCalls \cap {"in", "out", "unsure"} = {}

Subjects == Users \cup UNION {GroupsOf[u] : u \in Users} \cup Others

ASSUME SubjectsAssumption == IsFiniteSet(Subjects) /\ MaxRows \in Nat

VARIABLES
    place,          \* the BigQuery dataset that each source's table is in
    live,           \* the datasets that are registered
    accesses,       \* how many active accesses each subject has to each of them
    spaces,         \* BigQuery: the datasets made for users
    vault,          \* BigQuery: is there a table of secrets?
    salts,          \* and whose salts are in it
    views,          \* BigQuery: views, by dataset and source
    authorized,     \* BigQuery: for each dataset and for "vault", the views that may read it
    viewers,        \* BigQuery: who may read which view
    joinables,      \* the tables joinable_views and joinable_views_datasource
    maker,          \* the handlers that create views
    change,         \* the handlers that grant or revoke an access of a user
    entitled,       \* history: who owns or has had access to which source
    overlapped,     \* history: datasets deleted while a handler knew them
    standing        \* history: what was last done, undisturbed, to a user as a reader

joinableVars == <<place, live, accesses, spaces, vault, salts, views, authorized, viewers,
                  joinables, maker, change, entitled, overlapped, standing>>

bigquery == <<spaces, vault, salts, views, authorized, viewers>>
registered == <<place, live, accesses, change, entitled, overlapped>>

-----------------------------------------------------------------------------
(* Types *)

JoinableRow == [owner : Users, sources : SUBSET Sources, deleted : SUBSET Sources]

Maker == [user : Users, asked : SUBSET Sources, name : Joinables \cup {NoView},
          step : {"check", "space", "secretTable", "secret", "view", "authorize",
                  "authorizeVault", "grant"},
          left : SUBSET Sources]    \* sources that the step has still to deal with

\* What a grant or a revocation holds: views that the loop has still to deal with
Change == [op : {"grant", "revoke"}, user : Users, source : Sources,
           left : SUBSET Joinables]

ASSUME NoViewAssumption == NoView \notin JoinableRow \cup Maker \cup Change

\* A handler, when it is the last to have set out and nothing gets in its way
Standing == {"in", "out", "unsure"} \cup AccessCalls

OwnsSource(u, s) == OwnersOf[s] \in GroupsOf[u]

JoinablesInit ==
    /\ place \in [Sources -> BqDatasets]
    /\ live = Sources
    /\ accesses = [s \in Sources |-> [x \in Subjects |-> 0]]
    /\ spaces = {}
    /\ vault = FALSE
    /\ salts = {}
    /\ views = {}
    /\ authorized = [d \in BqDatasets \cup {"vault"} |-> {}]
    /\ viewers = {}
    /\ joinables = [j \in Joinables |-> NoView]
    /\ maker = [c \in ViewCalls |-> NoView]
    /\ change = [c \in AccessCalls |-> NoView]
    /\ entitled = {us \in Users \X Sources : OwnsSource(us[1], us[2])}
    /\ overlapped = {}
    /\ standing = [u \in Users |-> [s \in Sources |-> "in"]]

-----------------------------------------------------------------------------
(* Who may *)

\* The active accesses to a dataset, numbered for each subject
ActiveRows(s) == {row \in Subjects \X (1..MaxRows) : row[2] <= accesses[s][row[1]]}
Holders(s) == {x \in Subjects : accesses[s][x] > 0}

\* mutant: the user himself is not counted
MayJoinMiscounted(u, s) ==
    \/ OwnsSource(u, s)
    \/ Cardinality(Holders(s) \cup GroupsOf[u] \cup {u})
         # Cardinality(GroupsOf[u]) + Cardinality(ActiveRows(s))

\* The owner may.  For others, the subjects of all active accesses, the user
\* and his groups are put into one set: if it is smaller than the numbers add
\* up to, one of them was there twice.
MayJoin(u, s) ==
    \/ OwnsSource(u, s)
    \/ Cardinality(Holders(s) \cup GroupsOf[u] \cup {u})
         # Cardinality(GroupsOf[u]) + 1 + Cardinality(ActiveRows(s))

-----------------------------------------------------------------------------
(* Accesses *)

\* So many rows of a subject are active now.
SetAccesses(s, x, n) ==
    /\ accesses' = [accesses EXCEPT ![s][x] = n]
    /\ entitled' = entitled \cup
          {<<u, s>> : u \in {v \in Users : n > 1 \/ (n = 1 /\ x \in GroupsOf[v] \cup {v})}}

\* An approval stores a row and touches no view; nor does a grant that finds none
\* of the subject's.
ApproveAccessRequest(s, x) ==
    /\ s \in live
    /\ accesses[s][x] < MaxRows
    /\ SetAccesses(s, x, accesses[s][x] + 1)
    /\ UNCHANGED <<place, live, overlapped, bigquery, joinables, maker, change, standing>>

\* An access expires, or one is revoked of a subject who has no view.
AccessEnds(s, x) ==
    /\ accesses[s][x] > 0
    /\ SetAccesses(s, x, accesses[s][x] - 1)
    /\ UNCHANGED <<place, live, overlapped, bigquery, joinables, maker, change, standing>>

ChangeAt(c, op) == change[c] # NoView /\ change[c].op = op
EndChange(c) == change' = [change EXCEPT ![c] = NoView]

\* Is a handler at work on the user's access that does what op does?
Changing(u, s, op) ==
    \E c \in AccessCalls : ChangeAt(c, op) /\ change[c].user = u /\ change[c].source = s
Making(u, s) ==
    \E c \in ViewCalls : maker[c] # NoView /\ maker[c].user = u /\ s \in maker[c].asked

Stands(u, s, how) == standing' = [standing EXCEPT ![u][s] = how]

GetJoinableViewsForReferenceAndUser(u, s) ==
    {j \in Joinables : /\ joinables[j] # NoView
                       /\ joinables[j].owner = u
                       /\ s \in joinables[j].sources}

\* Handlers that find no view end as ApproveAccessRequest and AccessEnds say.
BeginChange(c, op, u, s) ==
    /\ change[c] = NoView
    /\ s \in live
    /\ GetJoinableViewsForReferenceAndUser(u, s) # {}
    /\ change' = [change EXCEPT ![c] =
          [op |-> op, user |-> u, source |-> s,
           left |-> GetJoinableViewsForReferenceAndUser(u, s)]]
    /\ UNCHANGED <<place, live, accesses, entitled, overlapped, bigquery, joinables, maker>>

GrantAccessToDataset(c, u, s) ==
    /\ BeginChange(c, "grant", u, s)
    /\ Stands(u, s, IF Changing(u, s, "revoke") THEN "unsure"
                    ELSE IF standing[u][s] = "in" THEN "in" ELSE c)

\* The row need not be active: any row of the user may be revoked, even again.
RevokeAccessToDataset(c, u, s) ==
    /\ BeginChange(c, "revoke", u, s)
    /\ Stands(u, s, IF Changing(u, s, "grant") \/ Making(u, s) THEN "unsure"
                    ELSE IF standing[u][s] = "out" THEN "out" ELSE c)

\* One view of the list after the other, as Postgres returned them.
NextView(c, j) ==
    /\ j \in change[c].left
    /\ change' = [change EXCEPT ![c].left = @ \ {j}]
    /\ UNCHANGED <<place, live, accesses, entitled, overlapped, spaces, vault, salts, views,
                   authorized, joinables, maker, standing>>

GrantJoinableView(c, j) ==
    /\ ChangeAt(c, "grant")
    /\ viewers' = viewers \cup {<<j, change[c].source, change[c].user>>}
    /\ NextView(c, j)

\* mutant: an error is only logged
RevokeJoinableViewLogged(c, j) ==
    /\ ChangeAt(c, "revoke")
    /\ viewers' \in {viewers, viewers \ {<<j, change[c].source, change[c].user>>}}
    /\ NextView(c, j)

RevokeJoinableView(c, j) ==
    /\ ChangeAt(c, "revoke")
    /\ viewers' = viewers \ {<<j, change[c].source, change[c].user>>}
    /\ NextView(c, j)

\* The handler is done: the table itself was dealt with, the row comes last.
FinishChange(c, n, how) ==
    LET u == change[c].user  s == change[c].source
    IN /\ change[c].left = {}
       /\ SetAccesses(s, u, n)
       /\ EndChange(c)
       /\ IF standing[u][s] = c THEN Stands(u, s, how) ELSE UNCHANGED standing
       /\ UNCHANGED <<place, live, overlapped, bigquery, joinables, maker>>

\* A row is added; the one that it renews is closed, unless that has been done.
GrantAccessToDatasetAndRenew(c) ==
    /\ ChangeAt(c, "grant")
    /\ change[c].source \in live
    /\ LET n == accesses[change[c].source][change[c].user]
       IN \E m \in {n, n + 1} \cap (1..MaxRows) : FinishChange(c, m, "in")

\* The row is closed, if it was active.
RevokeAccess(c) ==
    /\ ChangeAt(c, "revoke")
    /\ LET n == accesses[change[c].source][change[c].user]
       IN \E m \in {n, n - 1} \cap (0..MaxRows) : FinishChange(c, m, "out")

\* A call fails or the pod stops: the views dealt with stay as they are.
ChangeFails(c) ==
    /\ change[c] # NoView
    /\ EndChange(c)
    /\ LET u == change[c].user  s == change[c].source
       IN IF standing[u][s] = c THEN Stands(u, s, "unsure") ELSE UNCHANGED standing
    /\ UNCHANGED <<place, live, accesses, entitled, overlapped, bigquery, joinables, maker>>

\* mutant: the trigger marks nothing
DeleteUnmarked(s) ==
    /\ s \in live
    /\ live' = live \ {s}
    /\ accesses' = [accesses EXCEPT ![s] = [x \in Subjects |-> 0]]
    /\ UNCHANGED <<place, joinables, overlapped, entitled, bigquery, maker, change, standing>>

\* A trigger marks the entries of a dataset that is deleted.
DeleteSource(s) ==
    /\ s \in live
    /\ live' = live \ {s}
    /\ accesses' = [accesses EXCEPT ![s] = [x \in Subjects |-> 0]]
    /\ joinables' = [j \in Joinables |->
          IF joinables[j] = NoView THEN NoView
          ELSE [joinables[j] EXCEPT !.deleted = @ \cup ({s} \cap joinables[j].sources)]]
    /\ overlapped' = IF \E c \in ViewCalls : maker[c] # NoView /\ s \in maker[c].asked
               THEN overlapped \cup {s} ELSE overlapped
    /\ UNCHANGED <<place, entitled, bigquery, maker, change, standing>>

-----------------------------------------------------------------------------
(* CreateJoinableViews *)

MakerAt(c, step) == maker[c] # NoView /\ maker[c].step = step
MakerGoto(c, step, rest) ==
    maker' = [maker EXCEPT ![c].step = step, ![c].left = rest]
EndMaker(c) == maker' = [maker EXCEPT ![c] = NoView]

CreateJoinableViews(c, u, asked) ==
    /\ spaces # Joinables      \* bound: there are names left
    /\ maker[c] = NoView
    /\ maker' = [maker EXCEPT ![c] = [user |-> u, asked |-> asked, name |-> NoView,
                                      step |-> "check", left |-> asked]]
    /\ standing' = [standing EXCEPT ![u] = [s \in Sources |->
          IF s \in asked /\ (@[s] = "out" \/ Changing(u, s, "revoke")) THEN "unsure" ELSE @[s]]]
    /\ UNCHANGED <<registered, bigquery, joinables>>

\* One dataset after the other is looked up and the user checked.
CheckDataset(c) ==
    /\ MakerAt(c, "check")
    /\ IF maker[c].left = {}
       THEN MakerGoto(c, "space", {})
       ELSE LET s == Min(maker[c].left)
            IN s \in live /\ MayJoin(maker[c].user, s)
               /\ MakerGoto(c, "check", maker[c].left \ {s})
    /\ UNCHANGED <<registered, standing, bigquery, joinables>>

createDatasetInCentralProject(c, j) ==
    /\ MakerAt(c, "space")
    /\ j \notin spaces
    /\ spaces' = spaces \cup {j}
    /\ maker' = [maker EXCEPT ![c].step = "secretTable", ![c].name = j]
    /\ UNCHANGED <<registered, standing, vault, salts, views, authorized, viewers, joinables>>

\* Dataset and table of secrets; it is no error if they are there.
createSecretTable(c) ==
    /\ MakerAt(c, "secretTable")
    /\ vault' = TRUE
    /\ MakerGoto(c, "secret", {})
    /\ UNCHANGED <<registered, standing, spaces, salts, views, authorized, viewers, joinables>>

insertSecretIfNotExists(c) ==
    /\ MakerAt(c, "secret")
    /\ salts' = salts \cup {maker[c].name}
    /\ MakerGoto(c, "view", maker[c].asked)
    /\ UNCHANGED <<registered, standing, spaces, vault, views, authorized, viewers, joinables>>

CreateJoinableView(c) ==
    /\ MakerAt(c, "view")
    /\ IF maker[c].left = {}
       THEN MakerGoto(c, "authorize", maker[c].asked) /\ UNCHANGED views
       ELSE LET s == Min(maker[c].left)
            IN /\ views' = views \cup {<<maker[c].name, s>>}
               /\ MakerGoto(c, "view", maker[c].left \ {s})
    /\ UNCHANGED <<registered, standing, spaces, vault, salts, authorized, viewers, joinables>>

\* The map of views has one entry per BigQuery dataset: of two sources in one,
\* the later.
ViewIn(asked, d) == Max({s \in asked : place[s] = d})
MappedViews(asked) == {ViewIn(asked, place[s]) : s \in asked}

AuthorizeIn(c, d) ==
    LET s == Min(maker[c].left)
    IN authorized' = [authorized EXCEPT ![d] =
           @ \cup {<<maker[c].name, ViewIn(maker[c].asked, place[s])>>}]

AuthorizeOnSource(c) ==
    /\ MakerAt(c, "authorize")
    /\ IF maker[c].left = {}
       THEN MakerGoto(c, "grant", MappedViews(maker[c].asked)) /\ UNCHANGED authorized
       ELSE /\ AuthorizeIn(c, place[Min(maker[c].left)])
            /\ MakerGoto(c, "authorizeVault", maker[c].left)
    /\ UNCHANGED <<registered, standing, spaces, vault, salts, views, viewers, joinables>>

AuthorizeOnVault(c) ==
    /\ MakerAt(c, "authorizeVault")
    /\ vault
    /\ AuthorizeIn(c, "vault")
    /\ MakerGoto(c, "authorize", maker[c].left \ {Min(maker[c].left)})
    /\ UNCHANGED <<registered, standing, spaces, vault, salts, views, viewers, joinables>>

\* Grant, in the order of a Go map.
GrantView(c, s) ==
    /\ MakerAt(c, "grant")
    /\ s \in maker[c].left
    /\ viewers' = viewers \cup {<<maker[c].name, s, maker[c].user>>}
    /\ MakerGoto(c, "grant", maker[c].left \ {s})
    /\ UNCHANGED <<registered, standing, spaces, vault, salts, views, authorized, joinables>>

\* The row, and an entry for each source
InsertJoinableView(j, u, asked) ==
    joinables' = [joinables EXCEPT ![j] = [owner |-> u, sources |-> asked, deleted |-> {}]]

\* mutant: stored before all is granted
StoreEarly(c) ==
    /\ MakerAt(c, "grant")
    /\ InsertJoinableView(maker[c].name, maker[c].user, maker[c].asked)
    /\ EndMaker(c)
    /\ UNCHANGED <<registered, standing, bigquery>>

\* All in one transaction.
CreateJoinableViewsDB(c) ==
    /\ MakerAt(c, "grant")
    /\ maker[c].left = {}
    /\ InsertJoinableView(maker[c].name, maker[c].user, maker[c].asked)
    /\ EndMaker(c)
    /\ UNCHANGED <<registered, standing, bigquery>>

\* A call fails, the user is refused, or the pod stops: nothing is undone.
MakerFails(c) ==
    /\ maker[c] # NoView
    /\ EndMaker(c)
    /\ UNCHANGED <<registered, standing, bigquery, joinables>>

-----------------------------------------------------------------------------
JoinablesNext ==
    \/ \E s \in Sources, x \in Subjects : ApproveAccessRequest(s, x) \/ AccessEnds(s, x)
    \/ \E s \in Sources : DeleteSource(s)
    \/ \E c \in AccessCalls :
         \/ \E u \in Users, s \in Sources :
               GrantAccessToDataset(c, u, s) \/ RevokeAccessToDataset(c, u, s)
         \/ \E j \in Joinables : GrantJoinableView(c, j) \/ RevokeJoinableView(c, j)
         \/ GrantAccessToDatasetAndRenew(c)
         \/ RevokeAccess(c)
         \/ ChangeFails(c)
    \/ \E c \in ViewCalls :
         \/ \E u \in Users, asked \in SUBSET Sources : CreateJoinableViews(c, u, asked)
         \/ CheckDataset(c)
         \/ \E j \in Joinables : createDatasetInCentralProject(c, j)
         \/ createSecretTable(c)
         \/ insertSecretIfNotExists(c)
         \/ CreateJoinableView(c)
         \/ AuthorizeOnSource(c)
         \/ AuthorizeOnVault(c)
         \/ \E s \in Sources : GrantView(c, s)
         \/ CreateJoinableViewsDB(c)
         \/ MakerFails(c)

JoinablesSpec == JoinablesInit /\ [][JoinablesNext]_joinableVars

-----------------------------------------------------------------------------
(* Reading: GetJoinableViewsForUser and GetJoinableView *)

ListedFor(u) == {j \in Joinables : /\ joinables[j] # NoView
                                   /\ joinables[j].owner = u
                                   /\ joinables[j].sources # {}}

\* What GetJoinableView shows as deleted
ShownDeleted(j, s) == s \in joinables[j].deleted

-----------------------------------------------------------------------------
(* Properties *)

\* Every variable has its type.
JoinablesTypeOK ==
    /\ place \in [Sources -> BqDatasets]
    /\ live \subseteq Sources
    /\ accesses \in [Sources -> [Subjects -> 0..MaxRows]]
    /\ spaces \subseteq Joinables
    /\ vault \in BOOLEAN
    /\ salts \subseteq Joinables
    /\ views \subseteq Joinables \X Sources
    /\ authorized \in [BqDatasets \cup {"vault"} -> SUBSET (Joinables \X Sources)]
    /\ viewers \subseteq Joinables \X Sources \X Users
    /\ joinables \in [Joinables -> JoinableRow \cup {NoView}]
    /\ maker \in [ViewCalls -> Maker \cup {NoView}]
    /\ change \in [AccessCalls -> Change \cup {NoView}]
    /\ entitled \subseteq Users \X Sources
    /\ overlapped \subseteq Sources
    /\ standing \in [Users -> [Sources -> Standing]]

\* What the portal lists can be queried, whatever calls failed on the way: the
\* view is there, it may read the table it is made from and the salt, and its
\* owner may read it.  Excused are all but the last of the sources whose tables
\* are in one BigQuery dataset; and the owner may be locked out from when somebody
\* sets out to revoke his access until it is granted again, undisturbed.
ListedIsUsable ==
    \A u \in Users : \A j \in ListedFor(u) : \A s \in MappedViews(joinables[j].sources) :
        /\ j \in spaces /\ j \in salts
        /\ <<j, s>> \in views \cap authorized[place[s]] \cap authorized["vault"]
        /\ standing[u][s] = "in" => <<j, s, u>> \in viewers

\* Whose access was revoked reads none of the listed views of that source, until
\* somebody sets out to grant it again or he to make another view; a revocation
\* that met one of these on its way promises nothing.
RevokedAreOut ==
    \A u \in Users : \A j \in ListedFor(u) : \A s \in joinables[j].sources :
        standing[u][s] = "out" => <<j, s, u>> \notin viewers

\* Nobody gets to read a view of a dataset that he neither owns nor ever had access
\* to; by `entitled', a subject with two active accesses is excused, which misleads the
\* count for everybody.
ViewersHadAccess ==
    \A j \in Joinables, s \in Sources, u \in Users :
        <<j, s, u>> \in viewers => <<u, s>> \in entitled

\* The portal tells what was deleted, but for what was deleted while the view
\* was being made: nobody marks that any more.
DeletedIsShown ==
    \A u \in Users : \A j \in ListedFor(u) : \A s \in joinables[j].sources :
        s \notin live => ShownDeleted(j, s) \/ s \in overlapped
=============================================================================
